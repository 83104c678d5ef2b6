--------------------------- MODULE DiscoveryProofs ---------------------------
(***************************************************************************)
(* Theorems about the scoring of a batch (Scoring), the sources of a search *)
(* (SourceRun), the alerts (JobAlerts), the crawl of a career page          *)
(* (AtsCrawler), the follows on top of it (TargetCompanies), and all of     *)
(* them together (Discovery).                                               *)
(***************************************************************************)
EXTENDS Discovery, FiniteSetTheorems, WellFoundedInduction, TLAPS

----------------------------------------------------------------------------
(* Scoring: when a batch has been scored every job of it is judged, for any *)
(* set of jobs, any number of models and any scores.  The argument: until   *)
(* the one call about the batch ends nothing is marked; after it each call  *)
(* is about a job that has no score yet, gives it one or marks it failed    *)
(* with a score of 0, and the batch ends only when no job is left.          *)

JobsKnown ==
    /\ IsFiniteSet(Postings) /\ TopScore \in Nat
    /\ \A s \in ScoringScenes : s.jobs \subseteq Postings

Mark == [score : Scores \cup {Missing}, failed : BOOLEAN]

\* A job that counts as failed has the score 0.
FailedHaveZero == \A j \in Postings : marks[j].failed => marks[j].score = 0

\* What the call under way is about, and what has been marked by then.
Judging ==
    /\ scoring.pc \in {"start", "batch"} => \A j \in Postings : marks[j] = Unmarked
    /\ scoring.pc = "batch" => scoring.about = gscene.jobs
    /\ scoring.pc = "one" => \E j \in LeftOut(marks) : scoring.about = {j}
    /\ scoring.pc = "rank" => gscene.mode = "list" /\ \A j \in Postings : ~marks[j].failed
    /\ scoring.pc = "done" /\ gscene.mode = "live" => LeftOut(marks) = {}

GInv == gscene \in ScoringScenes /\ marks \in [Postings -> Mark] /\ FailedHaveZero /\ Judging

\* What the last call leaves to do keeps the invariant.
LEMMA NextOneHolds ==
    ASSUME JobsKnown, GInv, NextOne, UNCHANGED gscene, marks' \in [Postings -> Mark], FailedHaveZero'
    PROVE  GInv'
<1>1. CASE LeftOut(marks') = {} /\ Ends("done")
  BY <1>1 DEF GInv, Judging, Ends, Calls, LeftOut
<1>2. CASE \E j \in LeftOut(marks') : Calls("one", {j})
  BY <1>2 DEF GInv, Judging, Calls, LeftOut
<1> QED
  BY <1>1, <1>2 DEF NextOne

LEMMA InitJudged == JobsKnown /\ ScoringInit => GInv
  BY DEF ScoringInit, GInv, FailedHaveZero, Judging, Mark, Unmarked, Missing

LEMMA BeginHolds == ASSUME JobsKnown, GInv, Begin PROVE GInv'
<1>1. gscene.jobs \subseteq Postings /\ IsFiniteSet(gscene.jobs)
  BY FS_Subset DEF JobsKnown, GInv
<1>2. UNCHANGED <<gscene, marks>> /\ \A j \in Postings : marks[j] = Unmarked
  BY DEF Begin, GInv, Judging
<1>3. LeftOut(marks) = gscene.jobs
  BY <1>1, <1>2 DEF LeftOut, Unmarked
<1>4. CASE gscene.mode = "live" /\ gscene.jobs = {} /\ Ends("done")
  BY <1>2, <1>3, <1>4 DEF GInv, FailedHaveZero, Judging, Ends, Calls, LeftOut
<1>5. CASE Cardinality(gscene.jobs) = 1 /\ Calls("one", gscene.jobs)
  <2>1. PICK j : gscene.jobs = {j}
    BY <1>1, <1>5, FS_Singleton
  <2>2. j \in LeftOut(marks) /\ scoring' = [pc |-> "one", about |-> {j}, left |-> Tries]
    BY <1>3, <1>5, <2>1 DEF Calls
  <2> QED
    BY <1>2, <2>2 DEF GInv, FailedHaveZero, Judging, LeftOut
<1>6. CASE Calls("batch", gscene.jobs)
  BY <1>2, <1>6 DEF GInv, FailedHaveZero, Judging, Calls, LeftOut
<1>7. CASE gscene.mode = "list" /\ \E s \in SUBSET gscene.jobs : Ends("done") \/ Calls("rank", s)
  BY <1>2, <1>7 DEF GInv, FailedHaveZero, Judging, Ends, Calls, LeftOut, Unmarked
<1> QED
  BY <1>4, <1>5, <1>6, <1>7 DEF Begin

LEMMA NoUseHolds == ASSUME JobsKnown, GInv, NoUse PROVE GInv'
<1>1. scoring'.pc = scoring.pc /\ scoring'.about = scoring.about /\ UNCHANGED <<gscene, marks>>
  BY DEF NoUse
<1> QED
  BY <1>1 DEF GInv, FailedHaveZero, Judging, LeftOut

\* A job a call may be about has not failed.
LEMMA AskedHaveNotFailed ==
    ASSUME JobsKnown, GInv, scoring.pc \in {"batch", "one", "rank"}, NEW j \in scoring.about \cap Postings
    PROVE  ~marks[j].failed
<1>1. CASE scoring.pc = "batch"
  BY <1>1 DEF GInv, Judging, Unmarked
<1>2. CASE scoring.pc = "one"
  BY <1>2 DEF GInv, Judging, LeftOut, FailedHaveZero, Missing
<1>3. CASE scoring.pc = "rank"
  BY <1>3 DEF GInv, Judging
<1> QED
  BY <1>1, <1>2, <1>3

LEMMA ReplyHolds == ASSUME JobsKnown, GInv, Reply PROVE GInv'
<1>1. UNCHANGED gscene /\ scoring.pc \in {"batch", "one", "rank"}
  BY DEF Reply
<1>2. PICK jobs \in SUBSET scoring.about : \E entries \in [jobs -> Scores] : marks' = Applied(entries)
  BY DEF Reply
<1>3. PICK entries \in [jobs -> Scores] : marks' = Applied(entries)
  BY <1>2
<1>4. marks' = [j \in Postings |-> IF j \in jobs THEN [marks[j] EXCEPT !.score = entries[j]] ELSE marks[j]]
  BY <1>3 DEF Applied
<1>5. marks' \in [Postings -> Mark] /\ \A j \in Postings : marks'[j].failed = marks[j].failed
  <2>1. ASSUME NEW j \in Postings PROVE marks'[j] \in Mark /\ marks'[j].failed = marks[j].failed
    BY <1>4 DEF GInv, Mark
  <2> QED
    BY <1>4, <2>1
<1>6. FailedHaveZero'
  <2>1. ASSUME NEW j \in Postings, marks[j].failed PROVE marks'[j] = marks[j]
    <3>1. j \notin jobs
      BY <1>1, <2>1, AskedHaveNotFailed
    <3> QED
      BY <1>4, <3>1
  <2> QED
    BY <1>5, <2>1 DEF GInv, FailedHaveZero
<1>7. CASE scoring.pc # "rank"
  BY <1>1, <1>5, <1>6, <1>7, NextOneHolds DEF Reply
<1>8. CASE scoring.pc = "rank"
  <2>1. gscene.mode = "list"
    BY <1>8 DEF GInv, Judging
  <2>2. scoring'.pc \in {"done", "crashed"}
    BY <1>8 DEF Reply, Ends, Calls
  <2> QED
    BY <1>1, <1>5, <1>6, <2>1, <2>2 DEF GInv, Judging
<1> QED
  BY <1>7, <1>8

LEMMA NoModelHolds == ASSUME JobsKnown, GInv, NoModel PROVE GInv'
<1>1. UNCHANGED gscene /\ scoring.pc \in {"batch", "one", "rank"}
  BY DEF NoModel
<1>2. ASSUME NEW jobs
      PROVE  /\ Unanswered(jobs) \in [Postings -> Mark]
             /\ Failed(jobs) \in [Postings -> Mark]
             /\ \A j \in Postings : j \in jobs => Failed(jobs)[j].score # Missing
             /\ \A j \in Postings : Unanswered(jobs)[j].failed = marks[j].failed
             /\ \A j \in Postings : j \in jobs /\ marks[j].score = Missing => Failed(jobs)[j].score = 0
             /\ \A j \in Postings : j \notin jobs => Failed(jobs)[j] = marks[j]
  <2>1. 0 \in Scores
    BY DEF JobsKnown, Scores
  <2>2. ASSUME NEW j \in Postings
        PROVE  /\ Unanswered(jobs)[j] \in Mark /\ Unanswered(jobs)[j].failed = marks[j].failed
               /\ j \in jobs => Unanswered(jobs)[j].score # Missing
               /\ j \in jobs /\ marks[j].score = Missing => Unanswered(jobs)[j].score = 0
    BY <2>1 DEF Unanswered, GInv, Mark, Missing
  <2>3. ASSUME NEW j \in Postings
        PROVE  /\ Failed(jobs)[j] \in Mark
               /\ j \in jobs => Failed(jobs)[j].score = Unanswered(jobs)[j].score
               /\ j \notin jobs => Failed(jobs)[j] = marks[j]
    BY <2>2 DEF Failed, GInv, Mark
  <2> QED
    BY <2>2, <2>3 DEF Unanswered, Failed
<1>3. CASE scoring.pc = "rank"
  <2>1. marks' = Unanswered(scoring.about) /\ scoring'.pc = "done" /\ gscene.mode = "list"
    BY <1>3 DEF NoModel, Ends, Calls, GInv, Judging
  <2>2. \A j \in Postings : ~marks'[j].failed
    BY <1>2, <1>3, <2>1 DEF GInv, Judging
  <2> QED
    BY <1>1, <1>2, <2>1, <2>2 DEF GInv, Judging, FailedHaveZero
<1>4. CASE scoring.pc # "rank"
  <2>1. marks' = Failed(scoring.about)
    BY <1>4 DEF NoModel
  <2>2. \A j \in Postings : j \in scoring.about => marks[j].score = Missing
    BY <1>1, <1>4 DEF GInv, Judging, LeftOut, Unmarked
  <2>3. marks' \in [Postings -> Mark] /\ FailedHaveZero'
    BY <1>2, <2>1, <2>2 DEF GInv, FailedHaveZero
  <2>4. CASE scoring.pc = "batch"
    <3>1. scoring.about = gscene.jobs /\ scoring'.pc = "done"
      BY <2>4 DEF GInv, Judging, NoModel, Ends, Calls
    <3>2. LeftOut(marks') = {}
      BY <1>2, <2>1, <3>1 DEF LeftOut, JobsKnown, GInv
    <3> QED
      BY <1>1, <2>3, <3>1, <3>2 DEF GInv, Judging, LeftOut
  <2>5. CASE scoring.pc = "one"
    BY <1>1, <2>3, <2>5, NextOneHolds DEF NoModel
  <2> QED
    BY <1>1, <1>4, <2>4, <2>5
<1> QED
  BY <1>3, <1>4

LEMMA StepJudges == ASSUME JobsKnown, GInv, [ScoringNext]_gvars PROVE GInv'
<1>1. CASE UNCHANGED gvars
  BY <1>1 DEF gvars, GInv, FailedHaveZero, Judging, LeftOut
<1> QED
  BY <1>1, BeginHolds, NoUseHolds, ReplyHolds, NoModelHolds DEF ScoringNext

LEMMA InvJudges == ASSUME JobsKnown, GInv PROVE EachJudged
  BY DEF JobsKnown, GInv, EachJudged, Judging, FailedHaveZero, LeftOut

\* EachJudged for any batch, any number of models and any scores
\* (scorer.py:216-269).
THEOREM EveryJobIsJudged ==
    ASSUME JobsKnown
    PROVE  ScoringSpec => []EachJudged
<1>1. ScoringInit => GInv
  BY InitJudged
<1>2. GInv /\ [ScoringNext]_gvars => GInv'
  BY StepJudges
<1>3. GInv => EachJudged
  BY InvJudges
<1> QED
  BY <1>1, <1>2, <1>3, PTL DEF ScoringSpec

----------------------------------------------------------------------------
(* The sources: what a day's calls may come to, and what a source is blamed *)
(* for.  The argument: a counter never says less than the calls it stands   *)
(* for, the places reserved between two counters and the calls being given  *)
(* back; a call passes a counter only under its cap.  What a search holds   *)
(* against a source it has seen itself.                                     *)

\* Between two midnights: a refund after midnight lowers the new day's counter
\* for a call of the day before, and that day may then have one call more.
OneDay == "midnight" \notin sscene.events

CountPcs == {"total", "call", "refund", "refundAll"}
SearchPcs == {"idle", "board", "api", "feed", "check", "lock", "wait", "fetch", "mark", "unlock", "store", "rest",
              "report", "healthy"} \cup CountPcs
Outcomes == {"answered", "failed"}
HealthRead == {<<>>} \cup UNION {[S -> Nat] : S \in SUBSET Sources}

Position == Nat \ {0}
Tally == Nat
SearchRow == [pc : SearchPcs \cup {"refused", "done", "dead", "blame", "blaming"}, plan : SUBSET Sources,
              place : Position, call : Position, tries : Tally, scope : Position, key : {"none", "byok", "platform"},
              day : {1}, err : BOOLEAN, got : {"none", "jobs", "empty", "error"},
              ok : SUBSET Sources, failed : SUBSET Sources, rows : HealthRead]

\* A call that counts has a key; only calls on the shared key go by the second counter.
KeyFits(r) ==
    /\ r.pc \in CountPcs => r.scope \in 1..Len(Scopes) /\ r.key \in {"byok", "platform"}
    /\ r.pc \in {"total", "refundAll"} => r.key = "platform"

SourcesTyped ==
    /\ sscene \in SourceScenes /\ today = 1
    /\ search \in [Searches -> SearchRow] /\ \A t \in Searches : KeyFits(search[t])
    /\ cached \in [blob : {"none", "empty", "jobs"}, failed : BOOLEAN, lock : BOOLEAN]
    /\ used \in [Days -> [1..Len(Scopes) -> [Counters -> Int]]]
    /\ real \in [Days -> [1..Len(Scopes) -> [Ledger -> Int]]]
    /\ \A d \in Days, i \in 1..Len(Scopes), c \in Ledger : d # 1 => real[d][i][c] = 0
    /\ own \in [Askers -> SUBSET STRING]
    /\ health \in [Sources -> [fails : Nat, hot : BOOLEAN, on : BOOLEAN]]
    /\ saw \in [Searches -> SUBSET (Sources \X Outcomes)]

\* What a search that saw w holds against its sources is true: a source counts as
\* failed only if it was seen failing; one that was seen answering is among those
\* that answered, the feed excepted, which is asked once and did either.
Honest(r, w) ==
    /\ \A s \in r.failed : <<s, "failed">> \in w
    /\ r.pc \in SearchPcs => \A s \in Sources : <<s, "answered">> \in w => s \in r.ok \/ s = "feed"
    /\ r.pc \in SearchPcs /\ r.err => <<"api", "failed">> \in w
    /\ "feed" \in r.failed => <<"feed", "answered">> \notin w
    /\ r.pc \in SearchPcs \ {"mark", "unlock", "store", "rest", "report", "healthy"} =>
          "feed" \notin r.failed /\ <<"feed", "answered">> \notin w
    /\ r.pc \in {"mark", "unlock", "store"} => "feed" \notin r.failed
    /\ r.pc = "mark" => r.got = "error"
    /\ r.pc = "unlock" => r.got # "none"
    /\ r.pc = "store" => r.got \in {"jobs", "empty"}
    /\ r.pc \in {"mark", "unlock"} /\ r.got = "error" =>
          <<"feed", "failed">> \in w /\ <<"feed", "answered">> \notin w
    /\ r.pc \in {"blame", "blaming"} => \A s \in r.failed : <<s, "answered">> \notin w
    /\ r.pc = "blaming" => \A s \in DOMAIN r.rows : <<s, "failed">> \in w /\ <<s, "answered">> \notin w

AllHonest == \A t \in Searches : Honest(search[t], saw[t])

\* The searches between two counters, with a call out, and giving one back.
Between(i, u) == {t \in Searches : search[t].pc = "total" /\ search[t].scope = i /\ Who(t) = u}
Calling(i, u, k) ==
    {t \in Searches : search[t].pc = "call" /\ search[t].scope = i /\ Who(t) = u /\ search[t].key = k}
Refunding(i, u) == {t \in Searches : search[t].pc = "refund" /\ search[t].scope = i /\ Who(t) = u}
Returning(i) == {t \in Searches : /\ search[t].pc \in {"refund", "refundAll"}
                                  /\ search[t].scope = i /\ search[t].key = "platform"}

\* A counter never says less than the calls it stands for; a call that has passed
\* a counter has its place under that counter's cap.
UserFits(mine, shared, waiting, back, count) ==
    mine + shared + waiting + back <= count /\ mine <= OwnCap /\ shared + waiting <= SharedCap
AllFits(shared, back, count) == shared + back <= count /\ shared <= TotalCap
UserCounted(i, u) ==
    /\ UserFits(real[1][i][<<u, "byok">>], real[1][i][<<u, "platform">>],
                Cardinality(Between(i, u)), Cardinality(Refunding(i, u)), used[1][i][u])
    /\ Cardinality(Calling(i, u, "byok")) <= real[1][i][<<u, "byok">>]
    /\ Cardinality(Calling(i, u, "platform")) <= real[1][i][<<u, "platform">>]
AllCounted(i) == AllFits(real[1][i][<<"platform", "platform">>], Cardinality(Returning(i)), used[1][i]["platform"])
CallsCounted == \A i \in 1..Len(Scopes) : AllCounted(i) /\ \A u \in Askers : UserCounted(i, u)

SourcesInv == SourcesTyped /\ AllHonest /\ CallsCounted

\* The situations are those of the source.
LEMMA SceneTyped ==
    ASSUME SourcesTyped
    PROVE  /\ sscene.who \in [Searches -> Askers] /\ sscene.wanted \subseteq Sources /\ sscene.places \in Nat \ {0}
           /\ sscene.shared \subseteq STRING /\ sscene.own \in [Askers -> SUBSET STRING]
           /\ sscene.split \in BOOLEAN /\ sscene.fails \in Nat
BY SourceAssumption DEF SourcesTyped, SourceScene

LEMMA WhoAsks == ASSUME SourcesTyped, NEW t \in Searches PROVE Who(t) \in Askers
BY SceneTyped DEF Who

LEMMA ScopesCounted == Len(Scopes) \in Nat /\ \A i \in 1..Len(Scopes) : Scopes[i] \in STRING
BY SourceAssumption

LEMMA Numbers ==
    /\ 1 \in Position /\ 0 \in Tally
    /\ \A n \in Position : n + 1 \in Position /\ n \in Nat
    /\ \A n \in Tally : n + 1 \in Tally
BY DEF Position, Tally

\* A call to the boards is about boards.
LEMMA CallsAreToBoards ==
    ASSUME NEW plan \in SUBSET Sources
    PROVE  BoardCalls(plan) \in Seq(SUBSET Boards)
<1> DEFINE sites == plan \cap Boards
           ofIndeed == <<{"indeed"}>>
           others == IF sites = {"indeed"} THEN <<>> ELSE <<sites \ {"indeed"}>>
<1>1. {"indeed"} \in SUBSET Boards /\ sites \in SUBSET Boards /\ sites \ {"indeed"} \in SUBSET Boards
  BY DEF Boards
<1>2. ofIndeed \in Seq(SUBSET Boards) /\ others \in Seq(SUBSET Boards) /\ <<sites>> \in Seq(SUBSET Boards)
      /\ <<>> \in Seq(SUBSET Boards)
  <2>1. \A S \in SUBSET Boards : <<S>> \in Seq(SUBSET Boards)
    OBVIOUS
  <2>2. <<>> \in Seq(SUBSET Boards)
    OBVIOUS
  <2> HIDE DEF sites
  <2> QED
    BY <1>1, <2>1, <2>2
<1>3. BoardCalls(plan) = IF sscene.split /\ "indeed" \in sites THEN ofIndeed \o others
                         ELSE IF sites = {} THEN <<>> ELSE <<sites>>
  BY DEF BoardCalls
<1>4. ofIndeed \o others \in Seq(SUBSET Boards)
  <2> HIDE DEF ofIndeed, others
  <2> QED
    BY <1>2
<1> HIDE DEF sites, ofIndeed, others
<1> QED
  BY <1>2, <1>3, <1>4

----------------------------------------------------------------------------
(* One search moves: its row and what it saw become r and w. *)

LEMMA SearchMoves ==
    ASSUME SourcesTyped, AllHonest, NEW t \in Searches, NEW r \in SearchRow, KeyFits(r),
           NEW w \in SUBSET (Sources \X Outcomes), Honest(r, w), Goes(t, r), saw' = [saw EXCEPT ![t] = w],
           UNCHANGED <<sscene, today>>,
           cached' \in [blob : {"none", "empty", "jobs"}, failed : BOOLEAN, lock : BOOLEAN],
           used' \in [Days -> [1..Len(Scopes) -> [Counters -> Int]]],
           real' \in [Days -> [1..Len(Scopes) -> [Ledger -> Int]]],
           \A d \in Days, i \in 1..Len(Scopes), c \in Ledger : d # 1 => real'[d][i][c] = 0,
           own' \in [Askers -> SUBSET STRING],
           health' \in [Sources -> [fails : Nat, hot : BOOLEAN, on : BOOLEAN]]
    PROVE  /\ SourcesTyped' /\ AllHonest'
           /\ \A x \in Searches : search'[x] = IF x = t THEN r ELSE search[x]
<1>1. /\ search' \in [Searches -> SearchRow]
      /\ \A x \in Searches : search'[x] = IF x = t THEN r ELSE search[x]
  BY DEF SourcesTyped, Goes
<1>2. /\ saw' \in [Searches -> SUBSET (Sources \X Outcomes)]
      /\ \A x \in Searches : saw'[x] = IF x = t THEN w ELSE saw[x]
  BY DEF SourcesTyped
<1>3. ASSUME NEW x \in Searches PROVE KeyFits(search'[x]) /\ Honest(search'[x], saw'[x])
  <2>1. CASE x = t
    BY <1>1, <1>2, <2>1
  <2>2. CASE x # t
    <3>1. search'[x] = search[x] /\ saw'[x] = saw[x]
      BY <1>1, <1>2, <2>2
    <3> QED
      BY <3>1 DEF SourcesTyped, AllHonest
  <2> QED
    BY <2>1, <2>2
<1>4. AllHonest'
  BY <1>3 DEF AllHonest
<1>5. \A x \in Searches : KeyFits(search[x])'
  BY <1>3 DEF KeyFits
<1>6. SourcesTyped'
  BY <1>1, <1>2, <1>5 DEF SourcesTyped
<1> QED
  BY <1>1, <1>4, <1>6

\* Searches are finitely many, and so are those at one place.
LEMMA CardinalityOf == ASSUME NEW S \in SUBSET Searches PROVE IsFiniteSet(S) /\ Cardinality(S) \in Nat
BY SourceAssumption, FS_Subset, FS_CardinalityType

LEMMA FewerOf ==
    ASSUME NEW S \in SUBSET Searches, NEW T \in SUBSET Searches, S \subseteq T
    PROVE  Cardinality(S) <= Cardinality(T)
BY CardinalityOf, FS_Subset

LEMMA OneMoreOf ==
    ASSUME NEW S \in SUBSET Searches, NEW T \in SUBSET Searches, NEW t \in Searches, S \subseteq T \cup {t}
    PROVE  Cardinality(S) <= Cardinality(T) + 1
<1>1. IsFiniteSet(T \cup {t}) /\ Cardinality(T \cup {t}) <= Cardinality(T) + 1
  BY CardinalityOf, FS_AddElement, FS_CardinalityType
<1>2. Cardinality(S) <= Cardinality(T \cup {t})
  BY <1>1, FS_Subset, CardinalityOf
<1> QED
  BY <1>1, <1>2, CardinalityOf, FS_CardinalityType

LEMMA OneLessOf ==
    ASSUME NEW S \in SUBSET Searches, NEW T \in SUBSET Searches, NEW t \in T, S \subseteq T \ {t}
    PROVE  Cardinality(S) + 1 <= Cardinality(T)
<1>1. /\ IsFiniteSet(T \ {t}) /\ Cardinality(T \ {t}) = Cardinality(T) - 1 /\ Cardinality(T \ {t}) \in Nat
  BY CardinalityOf, FS_RemoveElement, FS_CardinalityType
<1>2. Cardinality(S) <= Cardinality(T \ {t})
  BY <1>1, FS_Subset
<1> QED
  BY <1>1, <1>2, CardinalityOf

LEMMA CountedSets ==
    /\ \A i, u : Between(i, u) \in SUBSET Searches /\ Refunding(i, u) \in SUBSET Searches
    /\ \A i, u, k : Calling(i, u, k) \in SUBSET Searches
    /\ \A i : Returning(i) \in SUBSET Searches
    /\ \A i, u : Between(i, u)' \in SUBSET Searches /\ Refunding(i, u)' \in SUBSET Searches
    /\ \A i, u, k : Calling(i, u, k)' \in SUBSET Searches
    /\ \A i : Returning(i)' \in SUBSET Searches
BY DEF Between, Refunding, Calling, Returning

LEMMA CountedTypes ==
    ASSUME SourcesTyped, NEW i \in 1..Len(Scopes)
    PROVE  /\ \A u \in Askers, k \in {"byok", "platform"} : real[1][i][<<u, k>>] \in Int /\ used[1][i][u] \in Int
           /\ real[1][i][<<"platform", "platform">>] \in Int /\ used[1][i]["platform"] \in Int
<1>1. 1 \in Days
  BY SourceAssumption DEF Days
<1>2. used[1][i] \in [Counters -> Int]
  BY <1>1 DEF SourcesTyped
<1>4. real[1][i] \in [Ledger -> Int]
  <2>1. real \in [Days -> [1..Len(Scopes) -> [Ledger -> Int]]]
    BY DEF SourcesTyped
  <2> QED
    BY <1>1, <2>1
<1>3. /\ "platform" \in Counters /\ \A u \in Askers : u \in Counters
      /\ <<"platform", "platform">> \in Ledger
      /\ \A u \in Askers, k \in {"byok", "platform"} : <<u, k>> \in Ledger
  BY DEF Counters, Ledger
<1> QED
  BY <1>2, <1>3, <1>4

\* With fewer searches under way a counter says no less.
LEMMA FewerFit ==
    ASSUME NEW mine \in Int, NEW shared \in Int, NEW count \in Int, NEW waiting \in Nat, NEW back \in Nat,
           NEW waiting1 \in Nat, NEW back1 \in Nat, waiting1 <= waiting, back1 <= back
    PROVE  /\ UserFits(mine, shared, waiting, back, count) => UserFits(mine, shared, waiting1, back1, count)
           /\ AllFits(shared, back, count) => AllFits(shared, back1, count)
<1>1. OwnCap \in Nat /\ SharedCap \in Nat /\ TotalCap \in Nat
  BY SourceAssumption
<1> QED
  BY <1>1 DEF UserFits, AllFits

\* A search that leaves the counted places, or was in none, keeps the counts.
LEMMA CountsKept ==
    ASSUME SourcesInv, SourcesTyped', UNCHANGED <<sscene, used, real>>,
           NEW t \in Searches, NEW r, r.pc \notin CountPcs,
           \A x \in Searches : search'[x] = IF x = t THEN r ELSE search[x]
    PROVE  CallsCounted'
<1> SUFFICES ASSUME NEW i \in 1..Len(Scopes) PROVE AllCounted(i)' /\ \A u \in Askers : UserCounted(i, u)'
  BY DEF CallsCounted
<1>1. AllCounted(i) /\ \A u \in Askers : UserCounted(i, u)
  BY DEF SourcesInv, CallsCounted
<1>2. \A x \in Searches : search'[x].pc \in CountPcs => search'[x] = search[x]
  OBVIOUS
<1>3. Returning(i)' \subseteq Returning(i)
  BY <1>2 DEF Returning, CountPcs
<1>4. AllCounted(i)'
  <2>1. /\ Cardinality(Returning(i)') <= Cardinality(Returning(i))
        /\ Cardinality(Returning(i)') \in Nat /\ Cardinality(Returning(i)) \in Nat
    BY <1>3, FewerOf, CountedSets, CardinalityOf
  <2>2. AllCounted(i) /\ real[1][i][<<"platform", "platform">>] \in Int /\ used[1][i]["platform"] \in Int
    BY <1>1, CountedTypes DEF SourcesInv
  <2>3. real' = real /\ used' = used
    OBVIOUS
  <2> QED
    BY <2>1, <2>2, <2>3, FewerFit DEF AllCounted
<1>5. ASSUME NEW u \in Askers PROVE UserCounted(i, u)'
  <2>1. /\ Between(i, u)' \subseteq Between(i, u) /\ Refunding(i, u)' \subseteq Refunding(i, u)
    BY <1>2 DEF Between, Refunding, CountPcs, Who
  <2>2. /\ Calling(i, u, "byok")' \subseteq Calling(i, u, "byok")
        /\ Calling(i, u, "platform")' \subseteq Calling(i, u, "platform")
    BY <1>2 DEF Calling, CountPcs, Who
  <2> DEFINE waiting == Cardinality(Between(i, u))
             back == Cardinality(Refunding(i, u))
             ownCalls == Cardinality(Calling(i, u, "byok"))
             sharedCalls == Cardinality(Calling(i, u, "platform"))
             ownMade == real[1][i][<<u, "byok">>]
             sharedMade == real[1][i][<<u, "platform">>]
             count == used[1][i][u]
  <2>3. /\ waiting' <= waiting /\ back' <= back
        /\ ownCalls' <= ownCalls /\ sharedCalls' <= sharedCalls
    BY <2>1, <2>2, FewerOf, CountedSets
  <2>4. /\ waiting \in Nat /\ waiting' \in Nat /\ back \in Nat /\ back' \in Nat
        /\ ownCalls \in Nat /\ ownCalls' \in Nat
        /\ sharedCalls \in Nat /\ sharedCalls' \in Nat
    BY CountedSets, CardinalityOf
  <2>5. /\ ownMade \in Int /\ sharedMade \in Int /\ count \in Int
        /\ ownMade' = ownMade /\ sharedMade' = sharedMade /\ count' = count
        /\ ownMade' \in Int /\ sharedMade' \in Int /\ count' \in Int
    BY CountedTypes DEF SourcesInv
  <2>6. /\ UserFits(ownMade, sharedMade, waiting, back, count)
        /\ ownCalls <= ownMade /\ sharedCalls <= sharedMade
    BY <1>1 DEF UserCounted
  <2> HIDE DEF waiting, back, ownCalls, sharedCalls, ownMade, sharedMade, count
  <2>7. UserFits(ownMade', sharedMade', waiting', back', count')
    BY <2>3, <2>4, <2>5, <2>6, FewerFit
  <2>8. ownCalls' <= ownMade' /\ sharedCalls' <= sharedMade'
    BY <2>3, <2>4, <2>5, <2>6
  <2> QED
    BY <2>7, <2>8 DEF UserCounted, waiting, back, ownCalls, sharedCalls, ownMade, sharedMade, count
<1> QED
  BY <1>4, <1>5

\* The steps that leave the counters alone.
LEMMA QuietSearch ==
    ASSUME SourcesInv, NEW t \in Searches, NEW r \in SearchRow, r.pc \notin CountPcs,
           NEW w \in SUBSET (Sources \X Outcomes), Honest(r, w), Goes(t, r), saw' = [saw EXCEPT ![t] = w],
           UNCHANGED <<sscene, today, used, real, own>>,
           cached' \in [blob : {"none", "empty", "jobs"}, failed : BOOLEAN, lock : BOOLEAN],
           health' \in [Sources -> [fails : Nat, hot : BOOLEAN, on : BOOLEAN]]
    PROVE  SourcesInv'
<1>1. KeyFits(r)
  BY DEF KeyFits, CountPcs
<1>2. /\ used' \in [Days -> [1..Len(Scopes) -> [Counters -> Int]]]
      /\ real' \in [Days -> [1..Len(Scopes) -> [Ledger -> Int]]]
      /\ \A d \in Days, i \in 1..Len(Scopes), c \in Ledger : d # 1 => real'[d][i][c] = 0
      /\ own' \in [Askers -> SUBSET STRING]
  <2>1. used' = used /\ real' = real /\ own' = own
    OBVIOUS
  <2>2. /\ used \in [Days -> [1..Len(Scopes) -> [Counters -> Int]]]
        /\ real \in [Days -> [1..Len(Scopes) -> [Ledger -> Int]]]
        /\ \A d \in Days, i \in 1..Len(Scopes), c \in Ledger : d # 1 => real[d][i][c] = 0
        /\ own \in [Askers -> SUBSET STRING]
    BY DEF SourcesInv, SourcesTyped
  <2> QED
    BY <2>1, <2>2
<1>3. SourcesTyped' /\ AllHonest' /\ \A x \in Searches : search'[x] = IF x = t THEN r ELSE search[x]
  BY <1>1, <1>2, SearchMoves DEF SourcesInv
<1> QED
  BY <1>3, CountsKept DEF SourcesInv

\* Nothing but the tables the counts do not read changes.
LEMMA TablesChange ==
    ASSUME SourcesInv, UNCHANGED <<sscene, search, today, used, real, saw>>,
           cached' \in [blob : {"none", "empty", "jobs"}, failed : BOOLEAN, lock : BOOLEAN],
           own' \in [Askers -> SUBSET STRING],
           health' \in [Sources -> [fails : Nat, hot : BOOLEAN, on : BOOLEAN]]
    PROVE  SourcesInv'
<1>1. SourcesTyped'
  <2>1. sscene' = sscene /\ search' = search /\ today' = today /\ used' = used /\ real' = real /\ saw' = saw
    OBVIOUS
  <2>2. \A t \in Searches : KeyFits(search[t])'
    BY <2>1, Zenon DEF SourcesInv, SourcesTyped, KeyFits
  <2> QED
    BY <2>1, <2>2 DEF SourcesInv, SourcesTyped
<1>2. AllHonest'
  BY DEF SourcesInv, AllHonest
<1>3. CallsCounted'
  <2>1. \A i, u : Between(i, u)' = Between(i, u) /\ Refunding(i, u)' = Refunding(i, u)
    BY DEF Between, Refunding, Who
  <2>2. \A i, u, k : Calling(i, u, k)' = Calling(i, u, k)
    BY DEF Calling, Who
  <2>3. \A i : Returning(i)' = Returning(i)
    BY DEF Returning
  <2> QED
    BY <2>1, <2>2, <2>3 DEF SourcesInv, CallsCounted, UserCounted, AllCounted
<1> QED
  BY <1>1, <1>2, <1>3 DEF SourcesInv

\* A search as the invariant has it.
LEMMA TheSearch ==
    ASSUME SourcesInv, NEW t \in Searches
    PROVE  /\ search[t] \in SearchRow /\ KeyFits(search[t]) /\ Honest(search[t], saw[t])
           /\ saw[t] \in SUBSET (Sources \X Outcomes) /\ saw \in [Searches -> SUBSET (Sources \X Outcomes)]
           /\ saw = [saw EXCEPT ![t] = saw[t]]
BY DEF SourcesInv, SourcesTyped, AllHonest

----------------------------------------------------------------------------
(* The steps that do not count. *)

LEMMA PlanHolds == ASSUME SourcesInv, NEW t \in Searches, Plan(t) PROVE SourcesInv'
<1> DEFINE plan == EffectiveSources(t)
           r == [search[t] EXCEPT !.plan = plan, !.pc = IF plan = {} THEN "refused" ELSE "board"]
<1>1. search[t] \in SearchRow /\ Honest(search[t], saw[t]) /\ search[t].pc = "idle" /\ Goes(t, r)
  BY TheSearch DEF Plan, SearchAt
<1>2. plan \subseteq Sources
  BY SceneTyped DEF EffectiveSources, SourcesInv
<1> HIDE DEF plan
<1>3. r \in SearchRow /\ r.pc \in {"refused", "board"} /\ r.failed = search[t].failed /\ r.ok = search[t].ok
      /\ r.err = search[t].err
  BY <1>1, <1>2 DEF SearchRow, SearchPcs
<1>4. Honest(r, saw[t])
  <2> HIDE DEF r
  <2> QED
    BY <1>1, <1>3 DEF Honest, SearchPcs, CountPcs
<1> HIDE DEF r
<1> QED
  BY <1>1, <1>3, <1>4, QuietSearch, TheSearch DEF Plan, SourcesInv, SourcesTyped, CountPcs

\* The next place, the feed, or what is only read.
LEMMA NextPlace ==
    ASSUME SourcesInv, NEW r \in SearchRow, NEW w, Honest(r, w), r.pc \in {"board", "api", "call"}
    PROVE  /\ AfterPlace(r) \in SearchRow /\ AfterPlace(r).pc \in {"board", "feed", "rest"}
           /\ Honest(AfterPlace(r), w)
<1> DEFINE n == AfterPlace(r)
<1>1. sscene.places \in Nat
  BY SceneTyped DEF SourcesInv
<1>2. n \in SearchRow /\ n.pc \in {"board", "feed", "rest"} /\ n.ok = r.ok /\ n.failed = r.failed
      /\ (n.err => r.err)
  <2>1. CASE r.place < sscene.places
    <3>1. n = [r EXCEPT !.place = @ + 1, !.pc = "board", !.call = 1, !.tries = 0, !.scope = 1, !.err = FALSE]
      BY <2>1 DEF AfterPlace
    <3>5. r.place + 1 \in Position /\ 1 \in Position /\ 0 \in Tally
      BY Numbers DEF SearchRow
    <3> HIDE DEF n
    <3>2. n \in SearchRow
      BY <3>1, <3>5 DEF SearchRow, SearchPcs
    <3>4. n.pc = "board" /\ n.ok = r.ok /\ n.failed = r.failed
      BY <3>1 DEF SearchRow
    <3>3. ~n.err
      BY <3>1 DEF SearchRow
    <3> QED
      BY <3>2, <3>3, <3>4
  <2>2. CASE ~(r.place < sscene.places)
    <3>1. n = [r EXCEPT !.pc = IF "feed" \in r.plan THEN "feed" ELSE "rest"]
      BY <2>2 DEF AfterPlace
    <3> QED
      BY <3>1 DEF SearchRow, SearchPcs
  <2> QED
    BY <2>1, <2>2
<1> HIDE DEF n
<1>3. Honest(n, w)
  BY <1>2 DEF Honest, SearchPcs, CountPcs
<1> QED
  BY <1>2, <1>3 DEF n

LEMMA BoardsDoneHolds == ASSUME SourcesInv, NEW t \in Searches, BoardsDone(t) PROVE SourcesInv'
<1> DEFINE old == search[t]
           r == IF "api" \in old.plan THEN [old EXCEPT !.pc = "api"] ELSE AfterPlace(old)
<1>1. old \in SearchRow /\ Honest(old, saw[t]) /\ old.pc = "board" /\ Goes(t, r)
  BY TheSearch DEF BoardsDone, SearchAt
<1> HIDE DEF old
<1>2. CASE "api" \in old.plan
  <2>1. r \in SearchRow /\ r.pc = "api" /\ r.ok = old.ok /\ r.failed = old.failed /\ r.err = old.err
    BY <1>1, <1>2 DEF SearchRow, SearchPcs, CountPcs
  <2> HIDE DEF r
  <2>2. Honest(r, saw[t])
    BY <1>1, <2>1 DEF Honest, SearchPcs, CountPcs
  <2>3. r.pc \notin CountPcs
    BY <2>1 DEF CountPcs
  <2> QED
    BY <1>1, <2>1, <2>2, <2>3, QuietSearch, TheSearch DEF BoardsDone, SourcesInv, SourcesTyped
<1>3. CASE "api" \notin old.plan
  <2>1. r = AfterPlace(old)
    BY <1>3
  <2>2. r \in SearchRow /\ r.pc \in {"board", "feed", "rest"} /\ Honest(r, saw[t])
    BY <1>1, <2>1, NextPlace
  <2> HIDE DEF r
  <2>3. r.pc \notin CountPcs
    BY <2>2 DEF CountPcs
  <2> QED
    BY <1>1, <2>2, <2>3, QuietSearch, TheSearch DEF BoardsDone, SourcesInv, SourcesTyped
<1> QED
  BY <1>2, <1>3

\* What Saw adds is a set of answers and failures.
LEMMA SawMore ==
    ASSUME SourcesInv, NEW t \in Searches, NEW answered \in SUBSET Sources, NEW broken \in SUBSET Sources,
           Saw(t, answered, broken)
    PROVE  \E w \in SUBSET (Sources \X Outcomes) :
              /\ saw' = [saw EXCEPT ![t] = w]
              /\ \A s : <<s, "answered">> \in w <=> <<s, "answered">> \in saw[t] \/ s \in answered
              /\ \A s : <<s, "failed">> \in w <=> <<s, "failed">> \in saw[t] \/ s \in broken
<1> DEFINE w == saw[t] \cup (answered \X {"answered"}) \cup (broken \X {"failed"})
<1>1. w \in SUBSET (Sources \X Outcomes)
  BY TheSearch DEF Outcomes
<1>2. saw' = [saw EXCEPT ![t] = w]
  BY DEF Saw
<1>3. /\ \A s : <<s, "answered">> \in w <=> <<s, "answered">> \in saw[t] \/ s \in answered
      /\ \A s : <<s, "failed">> \in w <=> <<s, "failed">> \in saw[t] \/ s \in broken
  OBVIOUS
<1> HIDE DEF w
<1> QED
  BY <1>1, <1>2, <1>3

LEMMA AskBoardsHolds == ASSUME SourcesInv, NEW t \in Searches, AskBoards(t) PROVE SourcesInv'
<1> DEFINE old == search[t]
           sites == BoardCalls(old.plan)[old.call]
<1>1. old \in SearchRow /\ Honest(old, saw[t]) /\ old.pc = "board" /\ old.call <= Len(BoardCalls(old.plan))
  BY TheSearch DEF AskBoards, SearchAt
<1>2. sites \subseteq Boards
  <2>1. BoardCalls(old.plan) \in Seq(SUBSET Boards) /\ old.call \in Nat \ {0}
    BY <1>1, CallsAreToBoards DEF SearchRow, Position
  <2> HIDE DEF old
  <2> QED
    BY <1>1, <2>1
<1>3. "feed" \notin sites /\ sites \subseteq Sources
  BY <1>2 DEF Boards, Sources
<1>4. PICK rows \in SUBSET sites, error \in BOOLEAN :
         /\ error => rows = {}
         /\ \/ /\ Goes(t, Judged(old, sites, rows, error))
               /\ Saw(t, rows, IF error THEN sites ELSE {})
            \/ Goes(t, [old EXCEPT !.tries = @ + 1]) /\ UNCHANGED saw
  BY DEF AskBoards
<1>5. UNCHANGED <<sscene, cached, today, used, own, health, events, real>>
  BY DEF AskBoards
<1>6. /\ cached' \in [blob : {"none", "empty", "jobs"}, failed : BOOLEAN, lock : BOOLEAN]
      /\ health' \in [Sources -> [fails : Nat, hot : BOOLEAN, on : BOOLEAN]]
  BY <1>5 DEF SourcesInv, SourcesTyped
<1> HIDE DEF old, sites
<1>7. CASE Goes(t, Judged(old, sites, rows, error)) /\ Saw(t, rows, IF error THEN sites ELSE {})
  <2> DEFINE r == Judged(old, sites, rows, error)
             broken == IF error THEN sites ELSE {}
             blamed == IF error THEN sites \ rows ELSE {}
  <2>2. broken \in SUBSET Sources /\ rows \in SUBSET Sources /\ blamed \subseteq broken
    BY <1>3
  <2>7. Saw(t, rows, broken)
    BY <1>7
  <2>1. r \in SearchRow /\ r.pc = "board" /\ r.ok = old.ok \cup rows /\ r.err = old.err
        /\ r.failed = old.failed \cup blamed
    <3>1. r = [old EXCEPT !.ok = @ \cup rows, !.failed = @ \cup blamed, !.call = @ + 1, !.tries = 0]
      BY DEF Judged
    <3>2. blamed \in SUBSET Sources
      BY <2>2
    <3>3. old.call + 1 \in Position /\ 0 \in Tally
      BY <1>1, Numbers DEF SearchRow
    <3> HIDE DEF r, blamed
    <3>4. r \in SearchRow
      BY <1>1, <2>2, <3>1, <3>2, <3>3 DEF SearchRow
    <3> QED
      BY <1>1, <3>1, <3>4 DEF SearchRow
  <2>3. PICK w \in SUBSET (Sources \X Outcomes) :
        /\ saw' = [saw EXCEPT ![t] = w]
        /\ \A s : <<s, "answered">> \in w <=> <<s, "answered">> \in saw[t] \/ s \in rows
        /\ \A s : <<s, "failed">> \in w <=> <<s, "failed">> \in saw[t] \/ s \in broken
    <3> HIDE DEF broken
    <3> QED
      BY <2>2, <2>7, SawMore
  <2>4. "feed" \notin broken /\ "feed" \notin rows /\ Goes(t, r)
    BY <1>3, <1>7
  <2> HIDE DEF r, broken, blamed
  <2>5. Honest(r, w)
    BY <1>1, <2>1, <2>2, <2>3, <2>4 DEF Honest, SearchPcs, CountPcs
  <2>6. r.pc \notin CountPcs
    BY <2>1 DEF CountPcs
  <2> QED
    BY <1>5, <1>6, <2>1, <2>3, <2>4, <2>5, <2>6, QuietSearch
<1>8. CASE Goes(t, [old EXCEPT !.tries = @ + 1]) /\ UNCHANGED saw
  <2> DEFINE r == [old EXCEPT !.tries = @ + 1]
  <2>1. r \in SearchRow /\ r.pc = "board" /\ r.ok = old.ok /\ r.failed = old.failed /\ r.err = old.err
        /\ Goes(t, r)
    BY <1>1, <1>8, Numbers DEF SearchRow
  <2> HIDE DEF r
  <2>2. Honest(r, saw[t]) /\ r.pc \notin CountPcs
    BY <1>1, <2>1 DEF Honest, SearchPcs, CountPcs
  <2>3. saw' = [saw EXCEPT ![t] = saw[t]] /\ saw[t] \in SUBSET (Sources \X Outcomes)
    BY <1>8, TheSearch
  <2> QED
    BY <1>5, <1>6, <2>1, <2>2, <2>3, QuietSearch
<1> QED
  BY <1>4, <1>7, <1>8

LEMMA TablesTyped ==
    ASSUME SourcesInv
    PROVE  /\ cached \in [blob : {"none", "empty", "jobs"}, failed : BOOLEAN, lock : BOOLEAN]
           /\ health \in [Sources -> [fails : Nat, hot : BOOLEAN, on : BOOLEAN]]
BY DEF SourcesInv, SourcesTyped

\* A quiet step that sees nothing.
LEMMA QuietMove ==
    ASSUME SourcesInv, NEW t \in Searches, NEW r \in SearchRow, r.pc \notin CountPcs, Honest(r, saw[t]), Goes(t, r),
           UNCHANGED <<sscene, today, used, own, saw, real>>,
           cached' \in [blob : {"none", "empty", "jobs"}, failed : BOOLEAN, lock : BOOLEAN],
           health' \in [Sources -> [fails : Nat, hot : BOOLEAN, on : BOOLEAN]]
    PROVE  SourcesInv'
<1>1. saw' = [saw EXCEPT ![t] = saw[t]] /\ saw[t] \in SUBSET (Sources \X Outcomes)
  BY TheSearch
<1> QED
  BY <1>1, QuietSearch

LEMMA FeedGotRow ==
    ASSUME SourcesInv, NEW r \in SearchRow, NEW w, Honest(r, w), NEW blob \in {"none", "jobs", "empty", "error"},
           r.pc \in {"feed", "check", "wait", "unlock", "store"},
           blob = "error" => r.pc = "unlock" /\ r.got = "error"
    PROVE  FeedGot(r, blob) \in SearchRow /\ FeedGot(r, blob).pc \notin CountPcs /\ Honest(FeedGot(r, blob), w)
<1> DEFINE n == FeedGot(r, blob)
           good == IF blob = "jobs" THEN {"feed"} ELSE {}
           bad == IF blob = "error" THEN {"feed"} ELSE {}
<1>1. good \subseteq Sources /\ bad \subseteq Sources
  BY DEF Sources
<1>2. n = [r EXCEPT !.pc = "rest", !.got = "none", !.ok = @ \cup good, !.failed = @ \cup bad]
  BY DEF FeedGot
<1> HIDE DEF good
<1>3. n \in SearchRow
  <2> HIDE DEF n, bad
  <2> QED
    BY <1>1, <1>2 DEF SearchRow, SearchPcs
<1>4. n.pc = "rest" /\ n.ok = r.ok \cup good /\ n.failed = r.failed \cup bad
  <2> HIDE DEF n, bad
  <2> QED
    BY <1>2 DEF SearchRow
<1>5. n.err => r.err
  <2> HIDE DEF n, bad
  <2> QED
    BY <1>2 DEF SearchRow
<1>6. bad # {} => r.pc = "unlock" /\ r.got = "error" /\ bad = {"feed"}
  OBVIOUS
<1> HIDE DEF n, bad
<1>7. Honest(n, w)
  BY <1>4, <1>5, <1>6 DEF Honest, SearchPcs, CountPcs
<1>8. n.pc \notin CountPcs
  BY <1>4 DEF CountPcs
<1> QED
  BY <1>3, <1>7, <1>8 DEF n

\* A search goes on to another step of the feed.
LEMMA FeedStep ==
    ASSUME SourcesInv, NEW t \in Searches, NEW pc,
           \/ search[t].pc \in {"feed", "check", "lock"} /\ pc \in {"check", "lock", "wait", "fetch"}
           \/ search[t].pc = "mark" /\ pc = "unlock"
           \/ search[t].pc = "unlock" /\ search[t].got # "error" /\ pc = "store",
           Goes(t, [search[t] EXCEPT !.pc = pc]), UNCHANGED <<sscene, today, used, own, health, saw, real>>,
           cached' \in [blob : {"none", "empty", "jobs"}, failed : BOOLEAN, lock : BOOLEAN]
    PROVE  SourcesInv'
<1> DEFINE old == search[t]
           r == [old EXCEPT !.pc = pc]
<1>1. old \in SearchRow /\ Honest(old, saw[t]) /\ Goes(t, r)
  BY TheSearch
<1>5. \/ old.pc \in {"feed", "check", "lock"} /\ pc \in {"check", "lock", "wait", "fetch"}
      \/ old.pc = "mark" /\ pc = "unlock"
      \/ old.pc = "unlock" /\ old.got # "error" /\ pc = "store"
  OBVIOUS
<1> HIDE DEF old
<1>2. r \in SearchRow /\ r.pc = pc /\ r.ok = old.ok /\ r.failed = old.failed /\ r.got = old.got /\ (r.err => old.err)
  BY <1>1, <1>5 DEF SearchRow, SearchPcs
<1>6. old.got \in {"none", "jobs", "empty", "error"}
  BY <1>1 DEF SearchRow
<1> HIDE DEF r
<1>3. Honest(r, saw[t])
  BY <1>1, <1>2, <1>5, <1>6 DEF Honest, SearchPcs, CountPcs
<1>4. r.pc \notin CountPcs
  BY <1>2, <1>5 DEF CountPcs
<1> QED
  BY <1>1, <1>2, <1>3, <1>4, QuietMove, TablesTyped

LEMMA ReadFeedHolds == ASSUME SourcesInv, NEW t \in Searches, ReadFeed(t) PROVE SourcesInv'
<1>1. search[t] \in SearchRow /\ Honest(search[t], saw[t]) /\ search[t].pc = "feed"
  BY TheSearch DEF ReadFeed, SearchAt
<1>2. /\ UNCHANGED <<sscene, cached, today, used, own, health, saw, real>>
      /\ cached.blob \in {"none", "jobs", "empty", "error"} /\ cached.blob # "error"
  BY TablesTyped DEF ReadFeed
<1>3. CASE Goes(t, FeedGot(search[t], cached.blob))
  BY <1>1, <1>2, <1>3, FeedGotRow, QuietMove, TablesTyped
<1>4. CASE Goes(t, [search[t] EXCEPT !.pc = "check"])
  BY <1>1, <1>2, <1>4, FeedStep, TablesTyped
<1> QED
  BY <1>3, <1>4 DEF ReadFeed

LEMMA CheckFailedHolds == ASSUME SourcesInv, NEW t \in Searches, CheckFailed(t) PROVE SourcesInv'
<1>1. search[t] \in SearchRow /\ Honest(search[t], saw[t]) /\ search[t].pc = "check"
  BY TheSearch DEF CheckFailed, SearchAt
<1>2. UNCHANGED <<sscene, cached, today, used, own, health, saw, real>>
  BY DEF CheckFailed
<1>3. CASE Goes(t, FeedGot(search[t], "none"))
  BY <1>1, <1>2, <1>3, FeedGotRow, QuietMove, TablesTyped
<1>4. CASE Goes(t, [search[t] EXCEPT !.pc = "lock"])
  BY <1>1, <1>2, <1>4, FeedStep, TablesTyped
<1> QED
  BY <1>3, <1>4 DEF CheckFailed

LEMMA LockFeedHolds == ASSUME SourcesInv, NEW t \in Searches, LockFeed(t) PROVE SourcesInv'
<1>1. cached' \in [blob : {"none", "empty", "jobs"}, failed : BOOLEAN, lock : BOOLEAN]
  BY TablesTyped DEF LockFeed
<1>2. CASE cached.lock
  BY <1>1, <1>2, FeedStep DEF LockFeed, SearchAt, Moves
<1>3. CASE ~cached.lock
  BY <1>1, <1>3, FeedStep DEF LockFeed, SearchAt, Moves
<1> QED
  BY <1>2, <1>3

LEMMA FetchFeedHolds == ASSUME SourcesInv, NEW t \in Searches, FetchFeed(t) PROVE SourcesInv'
<1> DEFINE old == search[t]
<1>1. PICK a \in {"jobs", "empty", "error"} :
        /\ Goes(t, [old EXCEPT !.got = a, !.pc = IF a = "error" THEN "mark" ELSE "unlock"])
        /\ IF a = "error" THEN Saw(t, {}, {"feed"}) ELSE Saw(t, {"feed"}, {})
  BY DEF FetchFeed
<1>2. old \in SearchRow /\ Honest(old, saw[t]) /\ old.pc = "fetch"
  BY TheSearch DEF FetchFeed, SearchAt
<1>3. UNCHANGED <<sscene, cached, today, used, own, health, real>>
  BY DEF FetchFeed
<1> DEFINE r == [old EXCEPT !.got = a, !.pc = IF a = "error" THEN "mark" ELSE "unlock"]
<1> HIDE DEF old
<1>4. r \in SearchRow /\ r.ok = old.ok /\ r.failed = old.failed /\ r.got = a /\ (r.err => old.err)
      /\ (a = "error" => r.pc = "mark") /\ (a # "error" => r.pc = "unlock")
  BY <1>2 DEF SearchRow, SearchPcs
<1> DEFINE answered == IF a = "error" THEN {} ELSE {"feed"}
           broken == IF a = "error" THEN {"feed"} ELSE {}
<1>9. answered \in SUBSET Sources /\ broken \in SUBSET Sources
  BY DEF Sources
<1>10. Saw(t, answered, broken)
  BY <1>1
<1>11. ASSUME a = "error" PROVE \E w \in SUBSET (Sources \X Outcomes) : saw' = [saw EXCEPT ![t] = w] /\ Honest(r, w)
  <2>1. r.pc = "mark" /\ r.got = "error" /\ answered = {} /\ broken = {"feed"}
    BY <1>4, <1>11
  <2> HIDE DEF answered, broken, r
  <2>2. PICK w \in SUBSET (Sources \X Outcomes) :
              /\ saw' = [saw EXCEPT ![t] = w]
              /\ \A s : <<s, "answered">> \in w <=> <<s, "answered">> \in saw[t] \/ s \in answered
              /\ \A s : <<s, "failed">> \in w <=> <<s, "failed">> \in saw[t] \/ s \in broken
    BY <1>9, <1>10, SawMore
  <2>3. Honest(r, w)
    BY <1>2, <1>4, <2>1, <2>2 DEF Honest, SearchPcs, CountPcs
  <2> QED
    BY <2>2, <2>3
<1>12. ASSUME a # "error" PROVE \E w \in SUBSET (Sources \X Outcomes) : saw' = [saw EXCEPT ![t] = w] /\ Honest(r, w)
  <2>1. r.pc = "unlock" /\ r.got # "error" /\ r.got # "none" /\ answered = {"feed"} /\ broken = {}
    BY <1>4, <1>12
  <2> HIDE DEF answered, broken, r
  <2>2. PICK w \in SUBSET (Sources \X Outcomes) :
              /\ saw' = [saw EXCEPT ![t] = w]
              /\ \A s : <<s, "answered">> \in w <=> <<s, "answered">> \in saw[t] \/ s \in answered
              /\ \A s : <<s, "failed">> \in w <=> <<s, "failed">> \in saw[t] \/ s \in broken
    BY <1>9, <1>10, SawMore
  <2>3. Honest(r, w)
    BY <1>2, <1>4, <2>1, <2>2 DEF Honest, SearchPcs, CountPcs
  <2> QED
    BY <2>2, <2>3
<1>5. PICK w \in SUBSET (Sources \X Outcomes) : saw' = [saw EXCEPT ![t] = w] /\ Honest(r, w)
  BY <1>11, <1>12
<1> HIDE DEF r
<1>7. r.pc \notin CountPcs
  BY <1>4 DEF CountPcs
<1>8. Goes(t, r)
  BY <1>1 DEF r
<1> QED
  BY <1>3, <1>4, <1>5, <1>7, <1>8, QuietSearch, TablesTyped

LEMMA MarkFailedHolds == ASSUME SourcesInv, NEW t \in Searches, MarkFailed(t) PROVE SourcesInv'
<1>1. cached' \in [blob : {"none", "empty", "jobs"}, failed : BOOLEAN, lock : BOOLEAN]
  BY TablesTyped DEF MarkFailed
<1> QED
  BY <1>1, FeedStep DEF MarkFailed, SearchAt, Moves

LEMMA UnlockFeedHolds == ASSUME SourcesInv, NEW t \in Searches, UnlockFeed(t) PROVE SourcesInv'
<1>1. search[t] \in SearchRow /\ Honest(search[t], saw[t]) /\ search[t].pc = "unlock"
  BY TheSearch DEF UnlockFeed, SearchAt
<1>2. /\ UNCHANGED <<sscene, today, used, own, health, saw, real>>
      /\ cached' \in [blob : {"none", "empty", "jobs"}, failed : BOOLEAN, lock : BOOLEAN]
  BY TablesTyped DEF UnlockFeed
<1>3. CASE search[t].got = "error"
  <2>1. Goes(t, FeedGot(search[t], "error"))
    BY <1>3 DEF UnlockFeed
  <2> QED
    BY <1>1, <1>2, <1>3, <2>1, FeedGotRow, QuietMove, TablesTyped
<1>4. CASE search[t].got # "error"
  <2>1. Goes(t, [search[t] EXCEPT !.pc = "store"])
    BY <1>4 DEF UnlockFeed
  <2> QED
    BY <1>1, <1>2, <1>4, <2>1, FeedStep, TablesTyped
<1> QED
  BY <1>3, <1>4

LEMMA StoreFeedHolds == ASSUME SourcesInv, NEW t \in Searches, StoreFeed(t) PROVE SourcesInv'
<1>1. search[t] \in SearchRow /\ Honest(search[t], saw[t]) /\ search[t].pc = "store" /\ search[t].got \in {"jobs", "empty"}
  BY TheSearch DEF StoreFeed, SearchAt, Honest
<1>2. /\ UNCHANGED <<sscene, today, used, own, health, saw, real>>
      /\ cached' \in [blob : {"none", "empty", "jobs"}, failed : BOOLEAN, lock : BOOLEAN]
  BY <1>1, TablesTyped DEF StoreFeed
<1> QED
  BY <1>1, <1>2, FeedGotRow, QuietMove, TablesTyped DEF StoreFeed

LEMMA PollFeedHolds == ASSUME SourcesInv, NEW t \in Searches, PollFeed(t) PROVE SourcesInv'
<1>1. search[t] \in SearchRow /\ Honest(search[t], saw[t]) /\ search[t].pc = "wait"
  BY TheSearch DEF PollFeed, SearchAt
<1>2. /\ UNCHANGED <<sscene, cached, today, used, own, health, saw, real>>
      /\ cached.blob \in {"none", "jobs", "empty", "error"} /\ cached.blob # "error"
      /\ Goes(t, FeedGot(search[t], cached.blob))
  BY TablesTyped DEF PollFeed
<1> QED
  BY <1>1, <1>2, FeedGotRow, QuietMove, TablesTyped

LEMMA ReadRestHolds == ASSUME SourcesInv, NEW t \in Searches, ReadRest(t) PROVE SourcesInv'
<1> DEFINE old == search[t]
<1>1. old \in SearchRow /\ Honest(old, saw[t]) /\ old.pc = "rest"
  BY TheSearch DEF ReadRest, SearchAt
<1>2. PICK broken \in SUBSET (old.plan \cap {"index"}) :
        LET read == (old.plan \cap {"inbox", "index"}) \ broken
        IN  /\ Goes(t, [old EXCEPT !.ok = @ \cup read, !.failed = @ \cup broken, !.pc = "report"])
            /\ Saw(t, read, broken)
  BY DEF ReadRest
<1> DEFINE read == (old.plan \cap {"inbox", "index"}) \ broken
           r == [old EXCEPT !.ok = @ \cup read, !.failed = @ \cup broken, !.pc = "report"]
<1>3. Goes(t, r) /\ Saw(t, read, broken) /\ UNCHANGED <<sscene, cached, today, used, own, health, real>>
  BY <1>2 DEF ReadRest
<1>4. /\ read \in SUBSET Sources /\ broken \in SUBSET Sources
      /\ "feed" \notin read /\ "feed" \notin broken
  BY <1>1, <1>2 DEF SearchRow
<1> HIDE DEF old, read
<1>5. r \in SearchRow
  BY <1>1, <1>4 DEF SearchRow, SearchPcs
<1>6. r.pc = "report" /\ r.ok = old.ok \cup read /\ r.failed = old.failed \cup broken
  BY <1>1 DEF SearchRow
<1>7. r.err => old.err
  BY <1>1 DEF SearchRow
<1> HIDE DEF r
<1>8. PICK w \in SUBSET (Sources \X Outcomes) :
        /\ saw' = [saw EXCEPT ![t] = w]
        /\ \A s : <<s, "answered">> \in w <=> <<s, "answered">> \in saw[t] \/ s \in read
        /\ \A s : <<s, "failed">> \in w <=> <<s, "failed">> \in saw[t] \/ s \in broken
  BY <1>3, <1>4, SawMore
<1>9. Honest(r, w)
  BY <1>1, <1>4, <1>6, <1>7, <1>8 DEF Honest, SearchPcs, CountPcs
<1>10. r.pc \notin CountPcs
  BY <1>6 DEF CountPcs
<1> QED
  BY <1>3, <1>5, <1>8, <1>9, <1>10, QuietSearch, TablesTyped

\* A search with nothing planned yet, under another step.
LEMMA UnstartedRow ==
    /\ Unstarted \in SearchRow /\ Unstarted.pc = "idle" /\ Unstarted.failed = {} /\ Unstarted.ok = {} /\ ~Unstarted.err
    /\ Unstarted.day = 1 /\ Unstarted.scope = 1
<1>1. {} \in SUBSET Sources /\ 1 \in Position /\ 0 \in Tally /\ <<>> \in HealthRead
  BY Numbers DEF HealthRead
<1>2. Unstarted \in SearchRow
  BY <1>1 DEF Unstarted, SearchRow, SearchPcs
<1> QED
  BY <1>2 DEF Unstarted

LEMMA ReadHealthyHolds == ASSUME SourcesInv, NEW t \in Searches, ReadHealthy(t) PROVE SourcesInv'
<1> DEFINE old == search[t]
           read == [s \in old.ok |-> health[s].fails]
           r == [Unstarted EXCEPT !.pc = "healthy", !.ok = old.ok, !.failed = old.failed, !.rows = read]
<1>1. old \in SearchRow /\ Honest(old, saw[t]) /\ old.pc = "report"
  BY TheSearch DEF ReadHealthy, SearchAt
<1>2. Goes(t, r) /\ UNCHANGED <<sscene, cached, today, used, own, health, saw, real>>
  BY DEF ReadHealthy
<1>3. old.ok \in SUBSET Sources /\ old.failed \in SUBSET Sources
  BY <1>1 DEF SearchRow
<1>4. read \in HealthRead
  <2>1. read \in [old.ok -> Nat]
    BY <1>3, TablesTyped
  <2> HIDE DEF read
  <2> QED
    BY <1>3, <2>1 DEF HealthRead
<1> HIDE DEF old, read
<1>5. r \in SearchRow
  BY <1>3, <1>4, UnstartedRow DEF SearchRow, SearchPcs
<1>6. r.pc = "healthy" /\ r.ok = old.ok /\ r.failed = old.failed
  BY UnstartedRow DEF SearchRow
<1>7. ~r.err
  BY UnstartedRow DEF SearchRow
<1> HIDE DEF r
<1>8. Honest(r, saw[t])
  BY <1>1, <1>6, <1>7 DEF Honest, SearchPcs, CountPcs
<1>9. r.pc \notin CountPcs
  BY <1>6 DEF CountPcs
<1> QED
  BY <1>2, <1>5, <1>8, <1>9, QuietMove, TablesTyped

LEMMA MarkSuccessHolds == ASSUME SourcesInv, NEW t \in Searches, MarkSuccess(t) PROVE SourcesInv'
<1> DEFINE old == search[t]
           blamed == Blamed(old)
           r == [old EXCEPT !.pc = "blame", !.ok = {}, !.failed = blamed, !.rows = <<>>]
<1>1. old \in SearchRow /\ Honest(old, saw[t]) /\ old.pc = "healthy"
  BY TheSearch DEF MarkSuccess, SearchAt
<1>2. Goes(t, r) /\ UNCHANGED <<sscene, cached, today, used, own, saw, real>>
  BY DEF MarkSuccess
<1>3. blamed \subseteq Sources /\ blamed = old.failed \ old.ok
  BY <1>1 DEF Blamed, SearchRow
<1>4. health' \in [Sources -> [fails : Nat, hot : BOOLEAN, on : BOOLEAN]]
  <2>1. ASSUME NEW s \in Sources PROVE [health[s] EXCEPT !.fails = 0] \in [fails : Nat, hot : BOOLEAN, on : BOOLEAN]
    BY TablesTyped
  <2>2. \A s \in Sources : health[s] \in [fails : Nat, hot : BOOLEAN, on : BOOLEAN]
    BY TablesTyped
  <2> QED
    BY <2>1, <2>2 DEF MarkSuccess
<1> HIDE DEF old, blamed
<1>5. r \in SearchRow
  <2>1. {} \in SUBSET Sources /\ <<>> \in HealthRead
    BY DEF HealthRead
  <2> QED
    BY <1>1, <1>3, <2>1 DEF SearchRow, SearchPcs
<1>6. r.pc = "blame" /\ r.failed = blamed
  BY <1>1 DEF SearchRow
<1> HIDE DEF r
<1>7. Honest(r, saw[t])
  <2>1. blamed \subseteq Sources /\ \A s \in blamed : s \in old.failed /\ s \notin old.ok
    BY <1>3
  <2>2. \A s \in blamed : <<s, "failed">> \in saw[t] /\ <<s, "answered">> \notin saw[t]
    BY <1>1, <2>1 DEF Honest, SearchPcs
  <2> QED
    BY <1>1, <1>6, <2>1, <2>2 DEF Honest, SearchPcs, CountPcs
<1>8. r.pc \notin CountPcs
  BY <1>6 DEF CountPcs
<1> QED
  BY <1>2, <1>4, <1>5, <1>7, <1>8, QuietMove, TablesTyped

\* A search that is over holds nothing against anybody.
LEMMA OverRow ==
    ASSUME NEW pc \in {"refused", "done", "dead"}, NEW w
    PROVE  LET r == [Unstarted EXCEPT !.pc = pc]
           IN  r \in SearchRow /\ r.pc \notin CountPcs /\ Honest(r, w)
<1> DEFINE r == [Unstarted EXCEPT !.pc = pc]
<1>1. r \in SearchRow /\ r.pc = pc /\ r.failed = {}
  BY UnstartedRow DEF SearchRow, SearchPcs
<1> HIDE DEF r
<1>2. Honest(r, w) /\ r.pc \notin CountPcs
  BY <1>1 DEF Honest, SearchPcs, CountPcs
<1> QED
  BY <1>1, <1>2 DEF r

LEMMA ReadFailingHolds == ASSUME SourcesInv, NEW t \in Searches, ReadFailing(t) PROVE SourcesInv'
<1>1. search[t] \in SearchRow /\ Honest(search[t], saw[t]) /\ search[t].pc = "blame"
  BY TheSearch DEF ReadFailing, SearchAt
<1>2. UNCHANGED <<sscene, cached, today, used, own, health, real>>
  BY DEF ReadFailing
<1>3. CASE Goes(t, [Unstarted EXCEPT !.pc = "done"]) /\ saw' = [saw EXCEPT ![t] = {}]
  <2>1. {} \in SUBSET (Sources \X Outcomes)
    OBVIOUS
  <2> QED
    BY <1>2, <1>3, <2>1, OverRow, QuietSearch, TablesTyped
<1>4. ASSUME UNCHANGED saw, NEW s \in search[t].failed,
             Goes(t, [search[t] EXCEPT !.pc = "blaming", !.failed = @ \ {s}, !.rows = [x \in {s} |-> health[s].fails]])
      PROVE  SourcesInv'
  <2> DEFINE old == search[t]
             read == [x \in {s} |-> health[s].fails]
             left == old.failed \ {s}
             r == [old EXCEPT !.pc = "blaming", !.failed = left, !.rows = read]
  <2>1. s \in Sources /\ left \subseteq Sources /\ left \subseteq old.failed
    BY <1>1 DEF SearchRow
  <2>2. read \in HealthRead /\ DOMAIN read = {s}
    <3>1. health[s].fails \in Nat
      BY <2>1, TablesTyped
    <3>3. read \in [{s} -> Nat] /\ {s} \in SUBSET Sources
      BY <2>1, <3>1
    <3> HIDE DEF read
    <3> QED
      BY <3>3 DEF HealthRead
  <2>3. Goes(t, r)
    BY <1>4
  <2> HIDE DEF left, read
  <2>4. r \in SearchRow
    BY <1>1, <2>1, <2>2 DEF SearchRow, SearchPcs
  <2>5. r.pc = "blaming" /\ r.failed = left /\ r.rows = read
    BY <1>1 DEF SearchRow
  <2> HIDE DEF r
  <2>6. Honest(r, saw[t])
    BY <1>1, <1>4, <2>1, <2>2, <2>5 DEF Honest, SearchPcs, CountPcs
  <2>7. r.pc \notin CountPcs
    BY <2>5 DEF CountPcs
  <2> QED
    BY <1>2, <1>4, <2>3, <2>4, <2>6, <2>7, QuietMove, TablesTyped
<1> QED
  BY <1>3, <1>4 DEF ReadFailing

LEMMA MarkFailureHolds == ASSUME SourcesInv, NEW t \in Searches, MarkFailure(t) PROVE SourcesInv'
<1> DEFINE old == search[t]
           r == [old EXCEPT !.pc = "blame", !.rows = <<>>]
<1>1. old \in SearchRow /\ Honest(old, saw[t]) /\ old.pc = "blaming"
  BY TheSearch DEF MarkFailure, SearchAt
<1>2. Goes(t, r) /\ UNCHANGED <<sscene, cached, today, used, own, saw, real>>
  BY DEF MarkFailure
<1>3. health' \in [Sources -> [fails : Nat, hot : BOOLEAN, on : BOOLEAN]]
  <2>1. ASSUME NEW s \in Sources, s \in DOMAIN old.rows
        PROVE  [health[s] EXCEPT !.fails = old.rows[s] + 1, !.hot = TRUE] \in [fails : Nat, hot : BOOLEAN, on : BOOLEAN]
    <3>1. old.rows \in HealthRead
      BY <1>1 DEF SearchRow
    <3>2. old.rows[s] \in Nat
      <4>1. CASE old.rows = <<>>
        BY <2>1, <4>1
      <4>2. CASE old.rows # <<>>
        BY <2>1, <3>1, <4>2 DEF HealthRead
      <4> QED
        BY <4>1, <4>2
    <3>3. old.rows[s] + 1 \in Nat
      BY <3>2
    <3> DEFINE n == old.rows[s] + 1
    <3> HIDE DEF n
    <3>4. health[s] \in [fails : Nat, hot : BOOLEAN, on : BOOLEAN] /\ n \in Nat
      BY <3>3, TablesTyped DEF n
    <3>5. [health[s] EXCEPT !.fails = n, !.hot = TRUE] \in [fails : Nat, hot : BOOLEAN, on : BOOLEAN]
      BY <3>4
    <3> QED
      BY <3>5 DEF n
  <2>2. \A s \in Sources : health[s] \in [fails : Nat, hot : BOOLEAN, on : BOOLEAN]
    BY TablesTyped
  <2> QED
    BY <2>1, <2>2 DEF MarkFailure
<1> HIDE DEF old
<1>4. r \in SearchRow /\ r.pc = "blame" /\ r.failed = old.failed
  <2>1. <<>> \in HealthRead
    BY DEF HealthRead
  <2> QED
    BY <1>1, <2>1 DEF SearchRow
<1> HIDE DEF r
<1>5. Honest(r, saw[t])
  BY <1>1, <1>4 DEF Honest, SearchPcs, CountPcs
<1>6. r.pc \notin CountPcs
  BY <1>4 DEF CountPcs
<1> QED
  BY <1>2, <1>3, <1>4, <1>5, <1>6, QuietMove, TablesTyped

----------------------------------------------------------------------------
(* What happens from outside. *)

LEMMA WorkerDiesHolds == ASSUME SourcesInv, NEW t \in Searches, WorkerDies(t) PROVE SourcesInv'
<1>1. Goes(t, [Unstarted EXCEPT !.pc = "dead"]) /\ saw' = [saw EXCEPT ![t] = {}]
      /\ UNCHANGED <<sscene, cached, today, used, own, health, real>> /\ {} \in SUBSET (Sources \X Outcomes)
  BY DEF WorkerDies
<1> QED
  BY <1>1, OverRow, QuietSearch, TablesTyped

LEMMA ExpiresHolds == ASSUME SourcesInv, Expires PROVE SourcesInv'
<1>1. cached' \in [blob : {"none", "empty", "jobs"}, failed : BOOLEAN, lock : BOOLEAN]
  BY TablesTyped DEF Expires
<1> QED
  BY <1>1, TablesChange, TablesTyped DEF Expires, SourcesInv, SourcesTyped

LEMMA NoMidnight == ASSUME OneDay, NewDay PROVE FALSE
BY DEF NewDay, Outside, OneDay

LEMMA SavesKeyHolds ==
    ASSUME SourcesInv, NEW u \in Askers, NEW i \in 1..Len(Scopes), SavesKey(u, i)
    PROVE  SourcesInv'
<1>1. Scopes[i] \in STRING /\ own[u] \in SUBSET STRING /\ own \in [Askers -> SUBSET STRING]
  BY ScopesCounted DEF SourcesInv, SourcesTyped
<1>2. own' \in [Askers -> SUBSET STRING]
  BY <1>1 DEF SavesKey
<1> QED
  BY <1>2, TablesChange, TablesTyped DEF SavesKey

LEMMA HealthHolds == ASSUME SourcesInv, NEW s \in Sources, Health(s) PROVE SourcesInv'
<1>1. health' \in [Sources -> [fails : Nat, hot : BOOLEAN, on : BOOLEAN]]
  <2>1. health \in [Sources -> [fails : Nat, hot : BOOLEAN, on : BOOLEAN]]
    BY TablesTyped
  <2>2. CASE health' = [health EXCEPT ![s].on = ~@]
    <3>1. health' = [health EXCEPT ![s] = [health[s] EXCEPT !.on = ~health[s].on]]
      BY <2>1, <2>2
    <3>2. health[s] \in [fails : Nat, hot : BOOLEAN, on : BOOLEAN] /\ (~health[s].on) \in BOOLEAN
      BY <2>1
    <3>3. [health[s] EXCEPT !.on = ~health[s].on] \in [fails : Nat, hot : BOOLEAN, on : BOOLEAN]
      BY <3>2
    <3> QED
      BY <2>1, <3>1, <3>3
  <2>3. CASE health' = [health EXCEPT ![s].hot = FALSE]
    <3>1. health' = [health EXCEPT ![s] = [health[s] EXCEPT !.hot = FALSE]]
      BY <2>1, <2>3
    <3>3. [health[s] EXCEPT !.hot = FALSE] \in [fails : Nat, hot : BOOLEAN, on : BOOLEAN]
      BY <2>1
    <3> QED
      BY <2>1, <3>1, <3>3
  <2> QED
    BY <2>2, <2>3 DEF Health
<1> QED
  BY <1>1, TablesChange, TablesTyped DEF Health, SourcesInv, SourcesTyped

----------------------------------------------------------------------------
(* The steps that count. *)

LEMMA Bumped ==
    ASSUME SourcesTyped, NEW r, r.day = 1, r.scope \in 1..Len(Scopes), NEW c \in Counters, NEW n \in Int, Bump(r, c, n)
    PROVE  /\ used' \in [Days -> [1..Len(Scopes) -> [Counters -> Int]]]
           /\ \A i \in 1..Len(Scopes), e \in Counters :
                 used'[1][i][e] = IF i = r.scope /\ e = c THEN used[1][i][e] + n ELSE used[1][i][e]
<1>1. 1 \in Days
  BY SourceAssumption DEF Days
<1>2. used \in [Days -> [1..Len(Scopes) -> [Counters -> Int]]]
  BY DEF SourcesTyped
<1> DEFINE count == used[1][r.scope][c] + n
<1>3. count \in Int
  BY <1>1, <1>2
<1>4. used' = [used EXCEPT ![1][r.scope][c] = count]
  BY DEF Bump
<1> HIDE DEF count
<1>5. /\ used' \in [Days -> [1..Len(Scopes) -> [Counters -> Int]]]
      /\ \A i \in 1..Len(Scopes), e \in Counters :
            used'[1][i][e] = IF i = r.scope /\ e = c THEN count ELSE used[1][i][e]
  BY <1>1, <1>2, <1>3, <1>4
<1> QED
  BY <1>5 DEF count

LEMMA Charged ==
    ASSUME SourcesTyped, NEW t \in Searches, NEW r, r.day = 1, r.scope \in 1..Len(Scopes), NEW n \in Int, Charge(t, r, n)
    PROVE  /\ real' \in [Days -> [1..Len(Scopes) -> [Ledger -> Int]]]
           /\ \A d \in Days, i \in 1..Len(Scopes), c \in Ledger : d # 1 => real'[d][i][c] = 0
           /\ \A i \in 1..Len(Scopes), c \in Ledger :
                 real'[1][i][c] = IF i = r.scope /\ c \in ChargedTo(t, r) THEN real[1][i][c] + n ELSE real[1][i][c]
<1>1. 1 \in Days
  BY SourceAssumption DEF Days
<1>2. /\ real \in [Days -> [1..Len(Scopes) -> [Ledger -> Int]]]
      /\ \A d \in Days, i \in 1..Len(Scopes), c \in Ledger : d # 1 => real[d][i][c] = 0
  BY DEF SourcesTyped
<1> DEFINE line == [c \in Ledger |-> real[1][r.scope][c] + (IF c \in ChargedTo(t, r) THEN n ELSE 0)]
<1>3. real' = [real EXCEPT ![1][r.scope] = line]
  BY DEF Charge
<1>4. line \in [Ledger -> Int]
      /\ \A c \in Ledger : line[c] = IF c \in ChargedTo(t, r) THEN real[1][r.scope][c] + n ELSE real[1][r.scope][c]
  <2>1. real[1][r.scope] \in [Ledger -> Int]
    BY <1>1, <1>2
  <2> QED
    BY <2>1
<1> HIDE DEF line
<1>5. /\ real' \in [Days -> [1..Len(Scopes) -> [Ledger -> Int]]]
      /\ \A d \in Days, i \in 1..Len(Scopes) : d # 1 => real'[d][i] = real[d][i]
      /\ \A i \in 1..Len(Scopes) : real'[1][i] = IF i = r.scope THEN line ELSE real[1][i]
  BY <1>1, <1>2, <1>3, <1>4
<1> QED
  BY <1>2, <1>4, <1>5

\* How many searches stand where, as one of them moves from row old to row r.
Moved(old, r, waiting, back, calls, sharedCalls, returns, waiting1, back1, calls1, sharedCalls1, returns1) ==
    /\ waiting1 <= waiting + 1
    /\ r.pc # "total" => waiting1 <= waiting
    /\ r.pc # "total" /\ old.pc = "total" => waiting1 + 1 <= waiting
    /\ back1 <= back + 1
    /\ r.pc # "refund" => back1 <= back
    /\ r.pc # "refund" /\ old.pc = "refund" => back1 + 1 <= back
    /\ calls1 <= calls + 1
    /\ r.pc # "call" \/ r.key # "byok" => calls1 <= calls
    /\ r.pc # "call" /\ old.pc = "call" /\ old.key = "byok" => calls1 + 1 <= calls
    /\ sharedCalls1 <= sharedCalls + 1
    /\ r.pc # "call" \/ r.key # "platform" => sharedCalls1 <= sharedCalls
    /\ r.pc # "call" /\ old.pc = "call" /\ old.key = "platform" => sharedCalls1 + 1 <= sharedCalls
    /\ returns1 <= returns + 1
    /\ r.pc # "refund" /\ r.pc # "refundAll" => returns1 <= returns
    /\ r.key # "platform" => returns1 <= returns
    /\ old.pc = "refund" /\ old.key = "platform" => returns1 <= returns
    /\ r.pc = "api" /\ old.pc = "refundAll" => returns1 + 1 <= returns

LEMMA Counting ==
    ASSUME SourcesInv, sscene' = sscene, NEW t \in Searches, NEW r, NEW i, NEW u, Who(t) = u,
           \A x \in Searches : search'[x] = IF x = t THEN r ELSE search[x],
           search[t].pc \in CountPcs => search[t].scope = i
    PROVE  \E waiting1, back1, calls1, sharedCalls1, returns1 \in Nat :
              /\ waiting1 = Cardinality(Between(i, u)') /\ back1 = Cardinality(Refunding(i, u)')
              /\ calls1 = Cardinality(Calling(i, u, "byok")') /\ sharedCalls1 = Cardinality(Calling(i, u, "platform")')
              /\ returns1 = Cardinality(Returning(i)')
              /\ Moved(search[t], r, Cardinality(Between(i, u)), Cardinality(Refunding(i, u)),
                       Cardinality(Calling(i, u, "byok")), Cardinality(Calling(i, u, "platform")),
                       Cardinality(Returning(i)), waiting1, back1, calls1, sharedCalls1, returns1)
<1>1. \A x : Who(x)' = Who(x)
  BY DEF Who
<1>2. /\ Between(i, u)' \subseteq Between(i, u) \cup {t} /\ Refunding(i, u)' \subseteq Refunding(i, u) \cup {t}
      /\ Calling(i, u, "byok")' \subseteq Calling(i, u, "byok") \cup {t}
      /\ Calling(i, u, "platform")' \subseteq Calling(i, u, "platform") \cup {t}
      /\ Returning(i)' \subseteq Returning(i) \cup {t}
  BY <1>1 DEF Between, Refunding, Calling, Returning
<1>3. /\ r.pc # "total" => t \notin Between(i, u)'
      /\ r.pc # "refund" => t \notin Refunding(i, u)'
      /\ r.pc # "call" \/ r.key # "byok" => t \notin Calling(i, u, "byok")'
      /\ r.pc # "call" \/ r.key # "platform" => t \notin Calling(i, u, "platform")'
      /\ r.pc \notin {"refund", "refundAll"} \/ r.key # "platform" => t \notin Returning(i)'
  BY DEF Between, Refunding, Calling, Returning
<1>4. /\ search[t].pc = "total" => t \in Between(i, u)
      /\ search[t].pc = "refund" => t \in Refunding(i, u)
      /\ search[t].pc = "call" /\ search[t].key = "byok" => t \in Calling(i, u, "byok")
      /\ search[t].pc = "call" /\ search[t].key = "platform" => t \in Calling(i, u, "platform")
      /\ search[t].pc \in {"refund", "refundAll"} /\ search[t].key = "platform" => t \in Returning(i)
      /\ search[t].pc = "refundAll" => t \in Returning(i)
  BY TheSearch DEF Between, Refunding, Calling, Returning, CountPcs, KeyFits
<1>5. ASSUME NEW S \in SUBSET Searches, NEW T \in SUBSET Searches, T \subseteq S \cup {t}
      PROVE  /\ Cardinality(T) \in Nat /\ Cardinality(T) <= Cardinality(S) + 1
             /\ t \in S \/ t \notin T => Cardinality(T) <= Cardinality(S)
             /\ t \in S /\ t \notin T => Cardinality(T) + 1 <= Cardinality(S)
  <2>1. Cardinality(T) \in Nat /\ Cardinality(T) <= Cardinality(S) + 1
    BY <1>5, CardinalityOf, OneMoreOf
  <2>2. t \in S \/ t \notin T => Cardinality(T) <= Cardinality(S)
    BY <1>5, FewerOf
  <2>3. t \in S /\ t \notin T => Cardinality(T) + 1 <= Cardinality(S)
    BY <1>5, OneLessOf
  <2> QED
    BY <2>1, <2>2, <2>3
<1> DEFINE B == Between(i, u)'
           R == Refunding(i, u)'
           CO == Calling(i, u, "byok")'
           CS == Calling(i, u, "platform")'
           G == Returning(i)'
<1>6. /\ Cardinality(B) \in Nat /\ Cardinality(B) <= Cardinality(Between(i, u)) + 1
      /\ r.pc # "total" => Cardinality(B) <= Cardinality(Between(i, u))
      /\ r.pc # "total" /\ search[t].pc = "total" => Cardinality(B) + 1 <= Cardinality(Between(i, u))
  BY <1>2, <1>3, <1>4, <1>5, CountedSets
<1>7. /\ Cardinality(R) \in Nat /\ Cardinality(R) <= Cardinality(Refunding(i, u)) + 1
      /\ r.pc # "refund" => Cardinality(R) <= Cardinality(Refunding(i, u))
      /\ r.pc # "refund" /\ search[t].pc = "refund" => Cardinality(R) + 1 <= Cardinality(Refunding(i, u))
  BY <1>2, <1>3, <1>4, <1>5, CountedSets
<1>8. /\ Cardinality(CO) \in Nat /\ Cardinality(CO) <= Cardinality(Calling(i, u, "byok")) + 1
      /\ r.pc # "call" \/ r.key # "byok" => Cardinality(CO) <= Cardinality(Calling(i, u, "byok"))
      /\ r.pc # "call" /\ search[t].pc = "call" /\ search[t].key = "byok"
            => Cardinality(CO) + 1 <= Cardinality(Calling(i, u, "byok"))
  BY <1>2, <1>3, <1>4, <1>5, CountedSets
<1>9. /\ Cardinality(CS) \in Nat /\ Cardinality(CS) <= Cardinality(Calling(i, u, "platform")) + 1
      /\ r.pc # "call" \/ r.key # "platform" => Cardinality(CS) <= Cardinality(Calling(i, u, "platform"))
      /\ r.pc # "call" /\ search[t].pc = "call" /\ search[t].key = "platform"
            => Cardinality(CS) + 1 <= Cardinality(Calling(i, u, "platform"))
  BY <1>2, <1>3, <1>4, <1>5, CountedSets
<1>10. /\ Cardinality(G) \in Nat /\ Cardinality(G) <= Cardinality(Returning(i)) + 1
       /\ r.pc # "refund" /\ r.pc # "refundAll" => Cardinality(G) <= Cardinality(Returning(i))
       /\ r.key # "platform" => Cardinality(G) <= Cardinality(Returning(i))
       /\ search[t].pc = "refund" /\ search[t].key = "platform" => Cardinality(G) <= Cardinality(Returning(i))
       /\ r.pc = "api" /\ search[t].pc = "refundAll" => Cardinality(G) + 1 <= Cardinality(Returning(i))
  BY <1>2, <1>3, <1>4, <1>5, CountedSets
<1>11. Moved(search[t], r, Cardinality(Between(i, u)), Cardinality(Refunding(i, u)),
             Cardinality(Calling(i, u, "byok")), Cardinality(Calling(i, u, "platform")), Cardinality(Returning(i)),
             Cardinality(B), Cardinality(R), Cardinality(CO), Cardinality(CS), Cardinality(G))
  <2> HIDE DEF B, R, CO, CS, G
  <2> QED
    BY <1>6, <1>7, <1>8, <1>9, <1>10 DEF Moved
<1> QED
  BY <1>6, <1>7, <1>8, <1>9, <1>10, <1>11

LEMMA SameCounted ==
    ASSUME NEW i, NEW u, UserCounted(i, u), Between(i, u)' = Between(i, u), Refunding(i, u)' = Refunding(i, u),
           Calling(i, u, "byok")' = Calling(i, u, "byok"), Calling(i, u, "platform")' = Calling(i, u, "platform"),
           used'[1][i][u] = used[1][i][u], real'[1][i][<<u, "byok">>] = real[1][i][<<u, "byok">>],
           real'[1][i][<<u, "platform">>] = real[1][i][<<u, "platform">>]
    PROVE  UserCounted(i, u)'
<1>1. UserFits(real[1][i][<<u, "byok">>], real[1][i][<<u, "platform">>],
               Cardinality(Between(i, u)), Cardinality(Refunding(i, u)), used[1][i][u])'
  BY DEF UserCounted
<1>2. (Cardinality(Calling(i, u, "byok")) <= real[1][i][<<u, "byok">>])'
  BY DEF UserCounted
<1>3. (Cardinality(Calling(i, u, "platform")) <= real[1][i][<<u, "platform">>])'
  BY DEF UserCounted
<1> QED
  BY <1>1, <1>2, <1>3 DEF UserCounted

\* A step for one user at one key disturbs no other user's counter and no other key's.
LEMMA CountsElsewhere ==
    ASSUME SourcesInv, sscene' = sscene, NEW t \in Searches, NEW r, NEW i \in 1..Len(Scopes),
           NEW u \in Askers, Who(t) = u, \A x \in Searches : search'[x] = IF x = t THEN r ELSE search[x],
           search[t].pc \in CountPcs => search[t].scope = i, r.pc \in CountPcs => r.scope = i,
           \A j \in 1..Len(Scopes), c \in Counters :
              j # i \/ c \notin {u, "platform"} => used'[1][j][c] = used[1][j][c],
           \A j \in 1..Len(Scopes), c \in Counters, k \in {"byok", "platform"} :
              j # i \/ c \notin {u, "platform"} => real'[1][j][<<c, k>>] = real[1][j][<<c, k>>],
           UserCounted(i, u)', AllCounted(i)'
    PROVE  CallsCounted'
<1>1. ASSUME NEW j \in 1..Len(Scopes) PROVE AllCounted(j) /\ \A v \in Askers : UserCounted(j, v)
  BY DEF SourcesInv, CallsCounted
<1>2. \A v \in Askers : v \in Counters /\ v # "platform"
  BY SourceAssumption DEF Counters
<1>3. "platform" \in Counters /\ \A x : Who(x)' = Who(x)
  BY DEF Counters, Who
<1>4. ASSUME NEW j \in 1..Len(Scopes), j # i
      PROVE  AllCounted(j)' /\ \A v \in Askers : UserCounted(j, v)'
  <2>1. Returning(j)' = Returning(j)
    BY <1>4 DEF Returning, CountPcs
  <2>2. \A v : Between(j, v)' = Between(j, v) /\ Refunding(j, v)' = Refunding(j, v)
    BY <1>3, <1>4 DEF Between, Refunding, CountPcs
  <2>3. \A v, k : Calling(j, v, k)' = Calling(j, v, k)
    BY <1>3, <1>4 DEF Calling, CountPcs
  <2>4. /\ used'[1][j]["platform"] = used[1][j]["platform"]
        /\ real'[1][j][<<"platform", "platform">>] = real[1][j][<<"platform", "platform">>]
    BY <1>3, <1>4
  <2>5. \A v \in Askers : /\ used'[1][j][v] = used[1][j][v]
                          /\ real'[1][j][<<v, "byok">>] = real[1][j][<<v, "byok">>]
                          /\ real'[1][j][<<v, "platform">>] = real[1][j][<<v, "platform">>]
    BY <1>2, <1>4
  <2>6. AllCounted(j)'
    BY <1>1, <2>1, <2>4 DEF AllCounted
  <2>7. ASSUME NEW v \in Askers PROVE UserCounted(j, v)'
    BY <1>1, <2>2, <2>3, <2>5, SameCounted
  <2> QED
    BY <2>6, <2>7
<1>5. AllCounted(i)' /\ \A v \in Askers : UserCounted(i, v)'
  <2>1. ASSUME NEW v \in Askers, v # u PROVE UserCounted(i, v)'
    <3>1. Between(i, v)' = Between(i, v) /\ Refunding(i, v)' = Refunding(i, v)
          /\ Calling(i, v, "byok")' = Calling(i, v, "byok") /\ Calling(i, v, "platform")' = Calling(i, v, "platform")
      BY <1>3, <2>1 DEF Between, Refunding, Calling
    <3>2. /\ used'[1][i][v] = used[1][i][v]
          /\ real'[1][i][<<v, "byok">>] = real[1][i][<<v, "byok">>]
          /\ real'[1][i][<<v, "platform">>] = real[1][i][<<v, "platform">>]
      BY <1>2, <2>1
    <3>3. UserCounted(i, v)
      BY <1>1
    <3> QED
      BY <3>1, <3>2, <3>3, SameCounted
  <2> QED
    BY <2>1
<1> QED
  BY <1>4, <1>5 DEF CallsCounted


\* The counting steps: the step from row old to row r moves the user's answered and
\* waiting calls (mine, shared) and counter, and the calls of all and their counter.
CountingStep(old, r, mine, shared, count, made, total, mine1, shared1, count1, made1, total1) ==
    \/ /\ old.pc = "api" /\ r.pc = "api"   \* over the user's cap
       /\ count1 = count + 1 /\ mine1 = mine /\ shared1 = shared /\ made1 = made /\ total1 = total
    \/ /\ old.pc = "api" /\ r.pc = "call" /\ r.key = "byok" /\ count + 1 <= OwnCap
       /\ count1 = count + 1 /\ mine1 = mine + 1 /\ shared1 = shared /\ made1 = made /\ total1 = total
    \/ /\ old.pc = "api" /\ r.pc = "total" /\ count + 1 <= SharedCap
       /\ count1 = count + 1 /\ mine1 = mine /\ shared1 = shared /\ made1 = made /\ total1 = total
    \/ /\ old.pc = "total" /\ r.pc = "api"   \* over the platform's
       /\ count1 = count /\ mine1 = mine /\ shared1 = shared /\ made1 = made /\ total1 = total + 1
    \/ /\ old.pc = "total" /\ r.pc = "call" /\ r.key = "platform" /\ total + 1 <= TotalCap
       /\ count1 = count /\ mine1 = mine /\ shared1 = shared + 1 /\ made1 = made + 1 /\ total1 = total + 1
    \/ /\ old.pc = "call" /\ r.pc = "refund" /\ old.key = "byok" /\ r.key = "byok"
       /\ count1 = count /\ mine1 = mine - 1 /\ shared1 = shared /\ made1 = made /\ total1 = total
    \/ /\ old.pc = "call" /\ r.pc = "refund" /\ old.key = "platform" /\ r.key = "platform"
       /\ count1 = count /\ mine1 = mine /\ shared1 = shared - 1 /\ made1 = made - 1 /\ total1 = total
    \/ /\ old.pc = "refund" /\ r.pc = "api"
       /\ count1 = count - 1 /\ mine1 = mine /\ shared1 = shared /\ made1 = made /\ total1 = total
    \/ /\ old.pc = "refund" /\ r.pc = "refundAll" /\ old.key = "platform"
       /\ count1 = count - 1 /\ mine1 = mine /\ shared1 = shared /\ made1 = made /\ total1 = total
    \/ /\ old.pc = "refundAll" /\ r.pc = "api"
       /\ count1 = count /\ mine1 = mine /\ shared1 = shared /\ made1 = made /\ total1 = total - 1

LEMMA CountingStepKeeps ==
    ASSUME SourcesInv, sscene' = sscene, NEW t \in Searches, NEW r, NEW i \in 1..Len(Scopes),
           NEW u \in Askers, Who(t) = u, \A x \in Searches : search'[x] = IF x = t THEN r ELSE search[x],
           search[t].pc \in CountPcs => search[t].scope = i, r.pc \in CountPcs => r.scope = i,
           \A j \in 1..Len(Scopes), c \in Counters :
              j # i \/ c \notin {u, "platform"} => used'[1][j][c] = used[1][j][c],
           \A j \in 1..Len(Scopes), c \in Counters, k \in {"byok", "platform"} :
              j # i \/ c \notin {u, "platform"} => real'[1][j][<<c, k>>] = real[1][j][<<c, k>>],
           NEW mine1 \in Int, NEW shared1 \in Int, NEW count1 \in Int, NEW made1 \in Int, NEW total1 \in Int,
           real'[1][i][<<u, "byok">>] = mine1, real'[1][i][<<u, "platform">>] = shared1, used'[1][i][u] = count1,
           real'[1][i][<<"platform", "platform">>] = made1, used'[1][i]["platform"] = total1,
           CountingStep(search[t], r, real[1][i][<<u, "byok">>], real[1][i][<<u, "platform">>], used[1][i][u],
                        real[1][i][<<"platform", "platform">>], used[1][i]["platform"],
                        mine1, shared1, count1, made1, total1)
    PROVE  CallsCounted'
<1> DEFINE waiting == Cardinality(Between(i, u))
           back == Cardinality(Refunding(i, u))
           calls == Cardinality(Calling(i, u, "byok"))
           sharedCalls == Cardinality(Calling(i, u, "platform"))
           returns == Cardinality(Returning(i))
           mine == real[1][i][<<u, "byok">>]
           shared == real[1][i][<<u, "platform">>]
           count == used[1][i][u]
           made == real[1][i][<<"platform", "platform">>]
           total == used[1][i]["platform"]
           old == search[t]
<1>1. PICK waiting1, back1, calls1, sharedCalls1, returns1 \in Nat :
         /\ waiting1 = Cardinality(Between(i, u)') /\ back1 = Cardinality(Refunding(i, u)')
         /\ calls1 = Cardinality(Calling(i, u, "byok")') /\ sharedCalls1 = Cardinality(Calling(i, u, "platform")')
         /\ returns1 = Cardinality(Returning(i)')
         /\ Moved(old, r, waiting, back, calls, sharedCalls, returns, waiting1, back1, calls1, sharedCalls1, returns1)
  BY Counting
<1>2. UserFits(mine, shared, waiting, back, count) /\ calls <= mine /\ sharedCalls <= shared
  BY DEF SourcesInv, CallsCounted, UserCounted
<1>3. AllFits(made, returns, total)
  BY DEF SourcesInv, CallsCounted, AllCounted
<1>4. /\ waiting \in Nat /\ back \in Nat /\ calls \in Nat /\ sharedCalls \in Nat /\ returns \in Nat
  BY CountedSets, CardinalityOf
<1>5. mine \in Int /\ shared \in Int /\ count \in Int /\ made \in Int /\ total \in Int
  BY CountedTypes DEF SourcesInv
<1>6. CountingStep(old, r, mine, shared, count, made, total, mine1, shared1, count1, made1, total1)
  OBVIOUS
<1> HIDE DEF waiting, back, calls, sharedCalls, returns, mine, shared, count, made, total, old
<1>7. /\ UserFits(mine1, shared1, waiting1, back1, count1) /\ calls1 <= mine1 /\ sharedCalls1 <= shared1
      /\ AllFits(made1, returns1, total1)
  <2>1. OwnCap \in Nat /\ SharedCap \in Nat /\ TotalCap \in Nat
    BY SourceAssumption
  <2>2. Moved(old, r, waiting, back, calls, sharedCalls, returns, waiting1, back1, calls1, sharedCalls1, returns1)
    BY <1>1
  <2>3. /\ mine + shared + waiting + back <= count /\ mine <= OwnCap /\ shared + waiting <= SharedCap
        /\ made + returns <= total /\ made <= TotalCap /\ mine >= 0 /\ shared >= 0
    BY <1>2, <1>3, <1>4, <1>5 DEF UserFits, AllFits
  <2>4. calls1 <= mine1 /\ sharedCalls1 <= shared1
    BY <1>2, <1>4, <1>5, <1>6, <2>2, <2>3 DEF CountingStep, Moved
  <2>5. mine1 <= OwnCap /\ shared1 + waiting1 <= SharedCap
    BY <2>1, <1>4, <1>5, <1>6, <2>2, <2>3 DEF CountingStep, Moved
  <2>6. mine1 + shared1 + waiting1 + back1 <= count1
    BY SMTT(60), <1>4, <1>5, <1>6, <2>2, <2>3 DEF CountingStep, Moved
  <2>7. made1 + returns1 <= total1
    BY <1>4, <1>5, <1>6, <2>2, <2>3 DEF CountingStep, Moved
  <2>8. made1 <= TotalCap
    BY <2>1, <1>4, <1>5, <1>6, <2>2, <2>3 DEF CountingStep, Moved
  <2> QED
    BY <2>4, <2>5, <2>6, <2>7, <2>8 DEF UserFits, AllFits
<1>8. UserCounted(i, u)'
  BY <1>1, <1>7 DEF UserCounted
<1>9. AllCounted(i)'
  BY <1>1, <1>7 DEF AllCounted
<1> QED
  BY <1>8, <1>9, CountsElsewhere


ApiPcs == {"api"} \cup CountPcs

\* Between the API's steps a search stays honest, as its answers and failures stay.
LEMMA ApiRow ==
    ASSUME NEW old, NEW r, NEW w, Honest(old, w), old.pc \in ApiPcs, r.pc \in ApiPcs,
           r.ok = old.ok, r.failed = old.failed, r.err => old.err
    PROVE  Honest(r, w)
BY DEF Honest, ApiPcs, CountPcs, SearchPcs

\* The counters and the history after a step for user u at the key i.
HistoryTables ==
    /\ real' \in [Days -> [1..Len(Scopes) -> [Ledger -> Int]]]
    /\ \A d \in Days, j \in 1..Len(Scopes), c \in Ledger : d # 1 => real'[d][j][c] = 0
CounterTables == used' \in [Days -> [1..Len(Scopes) -> [Counters -> Int]]] /\ HistoryTables
HistoryKept(i, u) ==
    \A j \in 1..Len(Scopes), c \in Counters, k \in {"byok", "platform"} :
        j # i \/ c \notin {u, "platform"} => real'[1][j][<<c, k>>] = real[1][j][<<c, k>>]
OthersKept(i, u) ==
    /\ \A j \in 1..Len(Scopes), c \in Counters :
          j # i \/ c \notin {u, "platform"} => used'[1][j][c] = used[1][j][c]
    /\ HistoryKept(i, u)
StepCounted(old, r, i, u) ==
    CountingStep(old, r, real[1][i][<<u, "byok">>], real[1][i][<<u, "platform">>], used[1][i][u],
                 real[1][i][<<"platform", "platform">>], used[1][i]["platform"],
                 real'[1][i][<<u, "byok">>], real'[1][i][<<u, "platform">>], used'[1][i][u],
                 real'[1][i][<<"platform", "platform">>], used'[1][i]["platform"])

LEMMA CountingSearch ==
    ASSUME SourcesInv, NEW t \in Searches, NEW r \in SearchRow, KeyFits(r), NEW w \in SUBSET (Sources \X Outcomes),
           Honest(r, w), Goes(t, r), saw' = [saw EXCEPT ![t] = w], UNCHANGED <<sscene, cached, today, own, health>>,
           NEW i \in 1..Len(Scopes), NEW u \in Askers, Who(t) = u,
           search[t].pc \in CountPcs => search[t].scope = i, r.pc \in CountPcs => r.scope = i,
           CounterTables, OthersKept(i, u), StepCounted(search[t], r, i, u)
    PROVE  SourcesInv'
<1>1. /\ cached' \in [blob : {"none", "empty", "jobs"}, failed : BOOLEAN, lock : BOOLEAN]
      /\ health' \in [Sources -> [fails : Nat, hot : BOOLEAN, on : BOOLEAN]]
      /\ own' \in [Askers -> SUBSET STRING]
  BY TablesTyped DEF SourcesInv, SourcesTyped
<1>2. SourcesTyped' /\ AllHonest' /\ \A x \in Searches : search'[x] = IF x = t THEN r ELSE search[x]
  BY <1>1, SearchMoves DEF SourcesInv, CounterTables, HistoryTables
<1>3. /\ real'[1][i][<<u, "byok">>] \in Int /\ real'[1][i][<<u, "platform">>] \in Int /\ used'[1][i][u] \in Int
      /\ real'[1][i][<<"platform", "platform">>] \in Int /\ used'[1][i]["platform"] \in Int
  <2>1. 1 \in Days
    BY SourceAssumption DEF Days
  <2>2. used'[1][i] \in [Counters -> Int] /\ real'[1][i] \in [Ledger -> Int]
    BY <2>1 DEF CounterTables, HistoryTables
  <2>3. /\ u \in Counters /\ "platform" \in Counters
        /\ <<u, "byok">> \in Ledger /\ <<u, "platform">> \in Ledger /\ <<"platform", "platform">> \in Ledger
    BY DEF Counters, Ledger
  <2> QED
    BY <2>2, <2>3
<1>4. CallsCounted'
  BY <1>2, <1>3, CountingStepKeeps DEF OthersKept, HistoryKept, StepCounted
<1> QED
  BY <1>2, <1>4 DEF SourcesInv

LEMMA NextScopeRow ==
    ASSUME NEW r \in SearchRow
    PROVE  /\ NextScope(r) \in SearchRow /\ NextScope(r).pc = "api" /\ NextScope(r).ok = r.ok
           /\ NextScope(r).failed = r.failed /\ NextScope(r).key = r.key /\ KeyFits(NextScope(r))
           /\ NextScope(r).err => r.err
<1> DEFINE n == NextScope(r)
           place == r.scope + 1
<1>1. place \in Position
  BY Numbers DEF SearchRow
<1>2. n = [r EXCEPT !.pc = "api", !.scope = place]
  BY DEF NextScope
<1> HIDE DEF n, place
<1>3. n \in SearchRow
  BY <1>1, <1>2 DEF SearchRow, SearchPcs
<1>4. n.pc = "api" /\ n.ok = r.ok /\ n.failed = r.failed /\ n.key = r.key
  BY <1>2 DEF SearchRow
<1>5. n.err => r.err
  BY <1>2 DEF SearchRow
<1>6. KeyFits(n)
  BY <1>4 DEF KeyFits, CountPcs
<1> QED
  BY <1>3, <1>4, <1>5, <1>6 DEF n

LEMMA GiveBackHolds == ASSUME SourcesInv, NEW t \in Searches, GiveBack(t) PROVE SourcesInv'
<1> DEFINE old == search[t]
           u == Who(t)
           i == old.scope
           r == IF old.key = "byok" THEN NextScope(old) ELSE [old EXCEPT !.pc = "refundAll"]
<1>1. /\ old \in SearchRow /\ Honest(old, saw[t]) /\ KeyFits(old) /\ old.pc = "refund" /\ Goes(t, r)
      /\ Bump(old, u, -1) /\ UNCHANGED <<sscene, cached, today, own, health, events, saw, real>>
  BY TheSearch DEF GiveBack, SearchAt
<1>2. i \in 1..Len(Scopes) /\ old.key \in {"byok", "platform"} /\ old.day = 1 /\ u \in Askers
  BY <1>1, WhoAsks DEF KeyFits, CountPcs, SearchRow, SourcesInv
<1>3. u \in Counters /\ u # "platform" /\ -1 \in Int
  BY <1>2, SourceAssumption DEF Counters
<1> HIDE DEF u
<1>4. /\ used' \in [Days -> [1..Len(Scopes) -> [Counters -> Int]]]
      /\ \A j \in 1..Len(Scopes), e \in Counters :
            used'[1][j][e] = IF j = i /\ e = u THEN used[1][j][e] + (-1) ELSE used[1][j][e]
  BY <1>1, <1>2, <1>3, Bumped DEF SourcesInv
<1> HIDE DEF old
<1>5. /\ r \in SearchRow /\ r.pc = (IF old.key = "byok" THEN "api" ELSE "refundAll") /\ r.ok = old.ok
      /\ r.failed = old.failed /\ (r.err => old.err) /\ KeyFits(r) /\ (r.pc \in CountPcs => r.scope = i)
  <2>1. CASE old.key = "byok"
    BY <1>1, <2>1, NextScopeRow DEF CountPcs
  <2>2. CASE old.key = "platform"
    <3>1. r = [old EXCEPT !.pc = "refundAll"]
      BY <2>2
    <3> HIDE DEF r
    <3>2. r \in SearchRow /\ r.pc = "refundAll" /\ r.ok = old.ok /\ r.failed = old.failed
      BY <1>1, <3>1 DEF SearchRow, SearchPcs, CountPcs
    <3>3. (r.err => old.err) /\ r.scope = i /\ r.key = "platform"
      BY <1>1, <2>2, <3>1 DEF SearchRow
    <3> QED
      BY <1>2, <2>2, <3>2, <3>3 DEF KeyFits
  <2> QED
    BY <1>2, <2>1, <2>2
<1> HIDE DEF r
<1>6. Honest(r, saw[t])
  BY <1>1, <1>5, ApiRow DEF ApiPcs, CountPcs
<1>7. StepCounted(old, r, i, u)
  <2>1. /\ used'[1][i][u] = used[1][i][u] - 1 /\ used'[1][i]["platform"] = used[1][i]["platform"] /\ real' = real
    BY <1>1, <1>2, <1>3, <1>4, CountedTypes DEF SourcesInv, Counters
  <2>2. old.key = "byok" => r.pc = "api"
    BY <1>5
  <2>3. old.key = "platform" => r.pc = "refundAll"
    BY <1>5
  <2> QED
    BY <1>1, <1>2, <2>1, <2>2, <2>3 DEF StepCounted, CountingStep
<1>8. CounterTables /\ OthersKept(i, u)
  BY <1>1, <1>4 DEF SourcesInv, SourcesTyped, CounterTables, HistoryTables, OthersKept, HistoryKept
<1>9. saw' = [saw EXCEPT ![t] = saw[t]] /\ saw[t] \in SUBSET (Sources \X Outcomes)
  BY <1>1, TheSearch
<1>10. /\ Who(t) = u /\ i \in 1..Len(Scopes) /\ StepCounted(search[t], r, i, u) /\ Goes(t, r)
       /\ search[t].pc \in CountPcs => search[t].scope = i
       /\ r.pc \in CountPcs => r.scope = i
       /\ UNCHANGED <<sscene, cached, today, own, health>>
  BY <1>1, <1>2, <1>5, <1>7 DEF u, old
<1>11. u \in Askers /\ r \in SearchRow /\ KeyFits(r)
  BY <1>2, <1>5
<1> HIDE DEF i
<1> QED
  BY <1>6, <1>8, <1>9, <1>10, <1>11, CountingSearch


LEMMA GiveBackAllHolds == ASSUME SourcesInv, NEW t \in Searches, GiveBackAll(t) PROVE SourcesInv'
<1> DEFINE old == search[t]
           u == Who(t)
           i == old.scope
           r == NextScope(old)
<1>1. /\ old \in SearchRow /\ Honest(old, saw[t]) /\ KeyFits(old) /\ old.pc = "refundAll" /\ Goes(t, r)
      /\ Bump(old, "platform", -1) /\ UNCHANGED <<sscene, cached, today, own, health, events, saw, real>>
  BY TheSearch DEF GiveBackAll, SearchAt
<1>2. i \in 1..Len(Scopes) /\ old.key = "platform" /\ old.day = 1 /\ u \in Askers
  BY <1>1, WhoAsks DEF KeyFits, CountPcs, SearchRow, SourcesInv
<1>3. u \in Counters /\ u # "platform" /\ "platform" \in Counters /\ -1 \in Int
  BY <1>2, SourceAssumption DEF Counters
<1>4. /\ used' \in [Days -> [1..Len(Scopes) -> [Counters -> Int]]]
      /\ \A j \in 1..Len(Scopes), e \in Counters :
            used'[1][j][e] = IF j = i /\ e = "platform" THEN used[1][j][e] + (-1) ELSE used[1][j][e]
  BY <1>1, <1>2, <1>3, Bumped DEF SourcesInv
<1>5. /\ r \in SearchRow /\ r.pc = "api" /\ r.ok = old.ok /\ r.failed = old.failed /\ (r.err => old.err) /\ KeyFits(r)
  BY <1>1, NextScopeRow
<1> HIDE DEF old, u, r
<1>6. Honest(r, saw[t])
  BY <1>1, <1>5, ApiRow DEF ApiPcs, CountPcs
<1>7. StepCounted(old, r, i, u)
  <2>1. /\ used'[1][i]["platform"] = used[1][i]["platform"] - 1 /\ used'[1][i][u] = used[1][i][u] /\ real' = real
    BY <1>1, <1>2, <1>3, <1>4, CountedTypes DEF SourcesInv
  <2> QED
    BY <1>1, <1>5, <2>1 DEF StepCounted, CountingStep
<1>8. CounterTables /\ OthersKept(i, u)
  BY <1>1, <1>4 DEF SourcesInv, SourcesTyped, CounterTables, HistoryTables, OthersKept, HistoryKept
<1>9. saw' = [saw EXCEPT ![t] = saw[t]] /\ saw[t] \in SUBSET (Sources \X Outcomes)
  BY <1>1, TheSearch
<1>10. /\ Who(t) = u /\ i \in 1..Len(Scopes) /\ StepCounted(search[t], r, i, u) /\ Goes(t, r)
       /\ search[t].pc \in CountPcs => search[t].scope = i
       /\ r.pc \in CountPcs => r.scope = i
       /\ UNCHANGED <<sscene, cached, today, own, health>>
  BY <1>1, <1>2, <1>5, <1>7 DEF u, old, CountPcs
<1>11. u \in Askers /\ r \in SearchRow /\ KeyFits(r)
  BY <1>2, <1>5
<1> HIDE DEF i
<1> QED
  BY <1>6, <1>8, <1>9, <1>10, <1>11, CountingSearch

LEMMA CountForAllHolds == ASSUME SourcesInv, NEW t \in Searches, CountForAll(t) PROVE SourcesInv'
<1> DEFINE old == search[t]
           u == Who(t)
           i == old.scope
           count == used[1][i]["platform"]
<1>1. /\ old \in SearchRow /\ Honest(old, saw[t]) /\ KeyFits(old) /\ old.pc = "total"
      /\ Bump(old, "platform", 1) /\ UNCHANGED <<sscene, cached, today, own, health, events, saw>>
  BY TheSearch DEF CountForAll, SearchAt
<1>2. i \in 1..Len(Scopes) /\ old.key = "platform" /\ old.day = 1 /\ u \in Askers
  BY <1>1, WhoAsks DEF KeyFits, CountPcs, SearchRow, SourcesInv
<1>3. u \in Counters /\ u # "platform" /\ "platform" \in Counters /\ 1 \in Int
  BY <1>2, SourceAssumption DEF Counters
<1>4. /\ used' \in [Days -> [1..Len(Scopes) -> [Counters -> Int]]]
      /\ \A j \in 1..Len(Scopes), e \in Counters :
            used'[1][j][e] = IF j = i /\ e = "platform" THEN used[1][j][e] + 1 ELSE used[1][j][e]
  BY <1>1, <1>2, <1>3, Bumped DEF SourcesInv
<1>5. used'[1][i]["platform"] = count + 1 /\ used'[1][i][u] = used[1][i][u]
  BY <1>2, <1>3, <1>4
<1>6. \/ count + 1 > TotalCap /\ Goes(t, NextScope(old)) /\ UNCHANGED real
      \/ ~(count + 1 > TotalCap) /\ Goes(t, [old EXCEPT !.pc = "call"]) /\ Charge(t, old, 1)
  BY <1>2 DEF CountForAll, CountOf, Moves
<1>7. saw' = [saw EXCEPT ![t] = saw[t]] /\ saw[t] \in SUBSET (Sources \X Outcomes)
  BY <1>1, TheSearch
<1>8. count \in Int /\ TotalCap \in Nat
  BY <1>2, CountedTypes, SourceAssumption DEF SourcesInv
<1> HIDE DEF count
<1>9. CASE Goes(t, NextScope(old)) /\ UNCHANGED real
  <2> DEFINE r == NextScope(old)
  <2>1. /\ r \in SearchRow /\ r.pc = "api" /\ r.ok = old.ok /\ r.failed = old.failed /\ (r.err => old.err) /\ KeyFits(r)
    BY <1>1, NextScopeRow
  <2> HIDE DEF old, u, r
  <2>2. Honest(r, saw[t])
    BY <1>1, <2>1, ApiRow DEF ApiPcs, CountPcs
  <2>3. StepCounted(old, r, i, u)
    BY <1>1, <1>5, <1>9, <2>1 DEF StepCounted, CountingStep, count
  <2>4. CounterTables /\ OthersKept(i, u)
    BY <1>4, <1>9 DEF SourcesInv, SourcesTyped, CounterTables, HistoryTables, OthersKept, HistoryKept
  <2>5. /\ Who(t) = u /\ i \in 1..Len(Scopes) /\ StepCounted(search[t], r, i, u) /\ Goes(t, r)
        /\ search[t].pc \in CountPcs => search[t].scope = i
        /\ r.pc \in CountPcs => r.scope = i
        /\ UNCHANGED <<sscene, cached, today, own, health>>
    BY <1>1, <1>2, <1>9, <2>1, <2>3 DEF u, old, r, CountPcs
  <2>6. u \in Askers /\ r \in SearchRow /\ KeyFits(r)
    BY <1>2, <2>1
  <2> HIDE DEF i
  <2> QED
    BY <1>7, <2>2, <2>4, <2>5, <2>6, CountingSearch
<1>10. CASE ~(count + 1 > TotalCap) /\ Goes(t, [old EXCEPT !.pc = "call"]) /\ Charge(t, old, 1)
  <2> DEFINE r == [old EXCEPT !.pc = "call"]
  <2>1. /\ r \in SearchRow /\ r.pc = "call" /\ r.ok = old.ok /\ r.failed = old.failed
    BY <1>1 DEF SearchRow, SearchPcs, CountPcs
  <2>2. (r.err => old.err) /\ r.scope = i /\ r.key = "platform"
    BY <1>1, <1>2 DEF SearchRow
  <2>3. KeyFits(r)
    BY <1>2, <2>1, <2>2 DEF KeyFits
  <2>4. ChargedTo(t, old) = {<<u, "platform">>, <<"platform", "platform">>}
    BY <1>2 DEF ChargedTo
  <2>5. /\ real' \in [Days -> [1..Len(Scopes) -> [Ledger -> Int]]]
        /\ \A d \in Days, j \in 1..Len(Scopes), c \in Ledger : d # 1 => real'[d][j][c] = 0
        /\ \A j \in 1..Len(Scopes), c \in Ledger :
              real'[1][j][c] = IF j = i /\ c \in ChargedTo(t, old) THEN real[1][j][c] + 1 ELSE real[1][j][c]
    BY <1>2, <1>3, <1>10, Charged DEF SourcesInv
  <2>6. /\ <<u, "byok">> \in Ledger /\ <<u, "platform">> \in Ledger /\ <<"platform", "platform">> \in Ledger
        /\ <<u, "byok">> # <<u, "platform">> /\ <<u, "byok">> # <<"platform", "platform">>
        /\ \A c \in Counters, k \in {"byok", "platform"} : <<c, k>> \in Ledger
    BY <1>3 DEF Ledger
  <2>7. /\ real'[1][i][<<u, "platform">>] = real[1][i][<<u, "platform">>] + 1
        /\ real'[1][i][<<"platform", "platform">>] = real[1][i][<<"platform", "platform">>] + 1
        /\ real'[1][i][<<u, "byok">>] = real[1][i][<<u, "byok">>]
    <3>1. <<u, "platform">> \in ChargedTo(t, old) /\ <<"platform", "platform">> \in ChargedTo(t, old)
          /\ <<u, "byok">> \notin ChargedTo(t, old)
      BY <2>4
    <3> QED
      BY <1>2, <2>5, <2>6, <3>1
  <2>8. OthersKept(i, u)
    <3>1. \A c \in Counters, k \in {"byok", "platform"} :
             c \notin {u, "platform"} => <<c, k>> \notin ChargedTo(t, old) /\ <<c, k>> \in Ledger
      BY <2>4, <2>6
    <3>2. \A j \in 1..Len(Scopes), c \in Counters, k \in {"byok", "platform"} :
             j # i \/ c \notin {u, "platform"} => real'[1][j][<<c, k>>] = real[1][j][<<c, k>>]
      BY <2>5, <2>6, <3>1
    <3> QED
      BY <1>4, <3>2 DEF OthersKept, HistoryKept
  <2>9. CounterTables
    BY <1>4, <2>5 DEF CounterTables, HistoryTables
  <2> HIDE DEF old, u, r
  <2>10. Honest(r, saw[t])
    BY <1>1, <2>1, <2>2, ApiRow DEF ApiPcs, CountPcs
  <2>11. StepCounted(old, r, i, u)
    <3>1. count + 1 <= TotalCap
      BY <1>8, <1>10
    <3> QED
      BY <1>1, <1>5, <2>1, <2>2, <2>7, <3>1 DEF StepCounted, CountingStep, count
  <2>12. /\ Who(t) = u /\ i \in 1..Len(Scopes) /\ StepCounted(search[t], r, i, u) /\ Goes(t, r)
         /\ search[t].pc \in CountPcs => search[t].scope = i
         /\ r.pc \in CountPcs => r.scope = i
         /\ UNCHANGED <<sscene, cached, today, own, health>>
    BY <1>1, <1>2, <1>10, <2>2, <2>11 DEF u, old, r
  <2>13. u \in Askers /\ r \in SearchRow /\ KeyFits(r)
    BY <1>2, <2>1, <2>3
  <2> HIDE DEF i
  <2> QED
    BY <1>7, <2>8, <2>9, <2>10, <2>12, <2>13, CountingSearch
<1> QED
  BY <1>6, <1>9, <1>10


\* A charge to one key: the user's line grows by n, and on the shared key everybody's too.
LEMMA OwnCharge ==
    ASSUME SourcesInv, NEW t \in Searches, NEW r, r.day = 1, r.scope \in 1..Len(Scopes), NEW n \in Int, Charge(t, r, n),
           NEW u \in Askers, u = Who(t), r.key \in {"byok", "platform"}
    PROVE  /\ HistoryTables /\ HistoryKept(r.scope, u)
           /\ r.key = "byok" =>
                 /\ real'[1][r.scope][<<u, "byok">>] = real[1][r.scope][<<u, "byok">>] + n
                 /\ real'[1][r.scope][<<u, "platform">>] = real[1][r.scope][<<u, "platform">>]
                 /\ real'[1][r.scope][<<"platform", "platform">>] = real[1][r.scope][<<"platform", "platform">>]
           /\ r.key = "platform" =>
                 /\ real'[1][r.scope][<<u, "byok">>] = real[1][r.scope][<<u, "byok">>]
                 /\ real'[1][r.scope][<<u, "platform">>] = real[1][r.scope][<<u, "platform">>] + n
                 /\ real'[1][r.scope][<<"platform", "platform">>] = real[1][r.scope][<<"platform", "platform">>] + n
<1> DEFINE i == r.scope
<1>1. /\ real' \in [Days -> [1..Len(Scopes) -> [Ledger -> Int]]]
      /\ \A d \in Days, j \in 1..Len(Scopes), c \in Ledger : d # 1 => real'[d][j][c] = 0
      /\ \A j \in 1..Len(Scopes), c \in Ledger :
            real'[1][j][c] = IF j = i /\ c \in ChargedTo(t, r) THEN real[1][j][c] + n ELSE real[1][j][c]
  <2>1. SourcesTyped
    BY DEF SourcesInv
  <2>2. r.day = 1 /\ r.scope \in 1..Len(Scopes) /\ n \in Int /\ Charge(t, r, n)
    OBVIOUS
  <2> QED
    BY <2>1, <2>2, Charged, SMTT(60)
<1>2. u # "platform" /\ u \in Counters /\ "platform" \in Counters
  BY SourceAssumption DEF Counters
<1>3. \A c \in Counters, k \in {"byok", "platform"} : <<c, k>> \in Ledger
  BY DEF Ledger
<1>4. /\ r.key = "byok" => ChargedTo(t, r) = {<<u, "byok">>}
      /\ r.key = "platform" => ChargedTo(t, r) = {<<u, "platform">>, <<"platform", "platform">>}
  BY DEF ChargedTo
<1>5. \A c \in Counters, k \in {"byok", "platform"} : c \notin {u, "platform"} => <<c, k>> \notin ChargedTo(t, r)
  BY <1>4
<1>6. HistoryTables
  BY <1>1 DEF HistoryTables
<1>7. HistoryKept(i, u)
  <2>1. ASSUME NEW j \in 1..Len(Scopes), NEW c \in Counters, NEW k \in {"byok", "platform"},
               j # i \/ c \notin {u, "platform"}
        PROVE  real'[1][j][<<c, k>>] = real[1][j][<<c, k>>]
    <3>1. <<c, k>> \in Ledger /\ (j # i \/ <<c, k>> \notin ChargedTo(t, r))
      BY <1>3, <1>5, <2>1
    <3> QED
      BY <1>1, <3>1
  <2> QED
    BY <2>1 DEF HistoryKept
<1>8. ASSUME r.key = "byok"
      PROVE  /\ real'[1][i][<<u, "byok">>] = real[1][i][<<u, "byok">>] + n
             /\ real'[1][i][<<u, "platform">>] = real[1][i][<<u, "platform">>]
             /\ real'[1][i][<<"platform", "platform">>] = real[1][i][<<"platform", "platform">>]
  <2>1. /\ <<u, "byok">> \in ChargedTo(t, r) /\ <<u, "platform">> \notin ChargedTo(t, r)
        /\ <<"platform", "platform">> \notin ChargedTo(t, r)
    BY <1>4, <1>8
  <2>2. <<u, "byok">> \in Ledger /\ <<u, "platform">> \in Ledger /\ <<"platform", "platform">> \in Ledger
    BY <1>2, <1>3
  <2> QED
    BY <1>1, <2>1, <2>2
<1>9. ASSUME r.key = "platform"
      PROVE  /\ real'[1][i][<<u, "byok">>] = real[1][i][<<u, "byok">>]
             /\ real'[1][i][<<u, "platform">>] = real[1][i][<<u, "platform">>] + n
             /\ real'[1][i][<<"platform", "platform">>] = real[1][i][<<"platform", "platform">>] + n
  <2>1. /\ <<u, "byok">> \notin ChargedTo(t, r) /\ <<u, "platform">> \in ChargedTo(t, r)
        /\ <<"platform", "platform">> \in ChargedTo(t, r)
    BY <1>4, <1>9
  <2>2. <<u, "byok">> \in Ledger /\ <<u, "platform">> \in Ledger /\ <<"platform", "platform">> \in Ledger
    BY <1>2, <1>3
  <2> QED
    BY <1>1, <2>1, <2>2
<1> QED
  BY <1>6, <1>7, <1>8, <1>9

LEMMA CountForUserHolds == ASSUME SourcesInv, NEW t \in Searches, CountForUser(t) PROVE SourcesInv'
<1> DEFINE old == search[t]
           u == Who(t)
           i == old.scope
           key == Resolved(u, i)
           asked == [old EXCEPT !.key = key, !.day = today]
           count == used[1][i][u]
<1>1. /\ old \in SearchRow /\ Honest(old, saw[t]) /\ old.pc = "api" /\ old.scope <= Len(Scopes)
      /\ UNCHANGED <<sscene, cached, today, own, health, events, saw>> /\ today = 1
  BY TheSearch DEF CountForUser, SearchAt, SourcesInv, SourcesTyped
<1>2. i \in 1..Len(Scopes) /\ u \in Askers
  BY <1>1, WhoAsks DEF SearchRow, Position, SourcesInv
<1>3. key \in {"none", "byok", "platform"}
  BY DEF Resolved
<1>4. /\ asked \in SearchRow /\ asked.pc = "api" /\ asked.ok = old.ok /\ asked.failed = old.failed
      /\ asked.key = key /\ asked.day = 1 /\ asked.scope = i
  <2> HIDE DEF key
  <2> QED
    BY <1>1, <1>3 DEF SearchRow
<1>5. asked.err => old.err
  <2> HIDE DEF key
  <2> QED
    BY <1>1 DEF SearchRow
<1>6. Honest(asked, saw[t])
  <2> HIDE DEF asked, old
  <2> QED
    BY <1>1, <1>4, <1>5, ApiRow DEF ApiPcs, CountPcs
<1>7. saw' = [saw EXCEPT ![t] = saw[t]] /\ saw[t] \in SUBSET (Sources \X Outcomes)
  BY <1>1, TheSearch
<1>8. \/ Goes(t, NextScope(asked)) /\ UNCHANGED <<used, real>>
      \/ /\ UsableKey(u, i) /\ Bump(asked, u, 1)
         /\ \/ Goes(t, NextScope(asked)) /\ UNCHANGED real
            \/ ~(CountOf(asked, u) > Cap(key)) /\ key = "byok" /\ Goes(t, [asked EXCEPT !.pc = "call"])
               /\ Charge(t, asked, 1)
            \/ ~(CountOf(asked, u) > Cap(key)) /\ key # "byok" /\ Goes(t, [asked EXCEPT !.pc = "total"])
               /\ UNCHANGED real
  BY <1>4 DEF CountForUser
<1>9. u \in Counters /\ u # "platform" /\ 1 \in Int /\ OwnCap \in Nat /\ SharedCap \in Nat
  BY <1>2, SourceAssumption DEF Counters
<1> DEFINE next == NextScope(asked)
<1>10. /\ next \in SearchRow /\ next.pc = "api" /\ next.ok = old.ok /\ next.failed = old.failed /\ (next.err => old.err)
       /\ KeyFits(next)
  BY <1>4, <1>5, NextScopeRow
<1>11. Honest(next, saw[t])
  <2> HIDE DEF next, asked, old
  <2> QED
    BY <1>1, <1>10, ApiRow DEF ApiPcs, CountPcs
<1>12. ASSUME Bump(asked, u, 1)
       PROVE  /\ used' \in [Days -> [1..Len(Scopes) -> [Counters -> Int]]]
              /\ \A j \in 1..Len(Scopes), c \in Counters :
                    j # i \/ c \notin {u, "platform"} => used'[1][j][c] = used[1][j][c]
              /\ used'[1][i][u] = count + 1 /\ used'[1][i]["platform"] = used[1][i]["platform"]
  <2>1. /\ used' \in [Days -> [1..Len(Scopes) -> [Counters -> Int]]]
        /\ \A j \in 1..Len(Scopes), e \in Counters :
              used'[1][j][e] = IF j = i /\ e = u THEN used[1][j][e] + 1 ELSE used[1][j][e]
    <3> HIDE DEF asked
    <3> QED
      BY <1>2, <1>4, <1>9, <1>12, Bumped DEF SourcesInv
  <2>2. "platform" \in Counters
    BY DEF Counters
  <2> QED
    BY <1>2, <1>9, <2>1, <2>2
<1>13. count \in Int /\ CountOf(asked, u) = count + 1
  BY <1>2, <1>4, CountedTypes DEF SourcesInv, CountOf
<1>14. /\ \A c \in Counters, k \in {"byok", "platform"} : <<c, k>> \in Ledger
       /\ real \in [Days -> [1..Len(Scopes) -> [Ledger -> Int]]]
       /\ \A d \in Days, j \in 1..Len(Scopes), c \in Ledger : d # 1 => real[d][j][c] = 0
  BY DEF Ledger, SourcesInv, SourcesTyped
<1>15. UsableKey(u, i) => key \in {"byok", "platform"}
  BY <1>3 DEF UsableKey
<1>16. /\ Who(t) = u /\ old = search[t]
  OBVIOUS
<1> HIDE DEF old, u, key, asked, next, count
<1>17. CASE Goes(t, NextScope(asked)) /\ UNCHANGED <<used, real>>
  <2>1. next.pc \notin CountPcs /\ Goes(t, next)
    BY <1>10, <1>17 DEF CountPcs, next
  <2>2. UNCHANGED <<sscene, today, used, own, saw, real>> /\ cached' = cached /\ health' = health
    BY <1>1, <1>17
  <2>3. /\ cached' \in [blob : {"none", "empty", "jobs"}, failed : BOOLEAN, lock : BOOLEAN]
        /\ health' \in [Sources -> [fails : Nat, hot : BOOLEAN, on : BOOLEAN]]
    BY <2>2, TablesTyped
  <2> QED
    BY <1>10, <1>11, <2>1, <2>2, <2>3, QuietMove
<1>18. CASE Bump(asked, u, 1) /\ Goes(t, NextScope(asked)) /\ UNCHANGED real
  <2>1. StepCounted(old, next, i, u)
    <3>1. used'[1][i][u] = used[1][i][u] + 1 /\ used'[1][i]["platform"] = used[1][i]["platform"]
      BY <1>12, <1>18 DEF count
    <3> QED
      BY <1>1, <1>10, <1>18, <3>1 DEF StepCounted, CountingStep
  <2>2. CounterTables
    BY <1>12, <1>14, <1>18 DEF CounterTables, HistoryTables
  <2>3. OthersKept(i, u)
    BY <1>12, <1>18 DEF OthersKept, HistoryKept
  <2>4. /\ Who(t) = u /\ i \in 1..Len(Scopes) /\ StepCounted(search[t], next, i, u) /\ Goes(t, next)
        /\ search[t].pc \in CountPcs => search[t].scope = i
        /\ next.pc \in CountPcs => next.scope = i
        /\ UNCHANGED <<sscene, cached, today, own, health>>
    BY <1>1, <1>2, <1>10, <1>16, <1>18, <2>1 DEF next, CountPcs
  <2>5. u \in Askers /\ next \in SearchRow /\ KeyFits(next)
    BY <1>2, <1>10
  <2> HIDE DEF i
  <2> QED
    BY <1>7, <1>11, <2>2, <2>3, <2>4, <2>5, CountingSearch
<1>19. CASE /\ UsableKey(u, i) /\ Bump(asked, u, 1) /\ ~(CountOf(asked, u) > Cap(key)) /\ key = "byok"
            /\ Goes(t, [asked EXCEPT !.pc = "call"]) /\ Charge(t, asked, 1)
  <2> DEFINE r == [asked EXCEPT !.pc = "call"]
  <2>1. r \in SearchRow /\ r.pc = "call" /\ r.ok = old.ok /\ r.failed = old.failed /\ r.scope = i /\ r.key = "byok"
    BY <1>4, <1>19 DEF SearchRow, SearchPcs, CountPcs
  <2>2. (r.err => old.err)
    BY <1>4, <1>5 DEF SearchRow
  <2>3. KeyFits(r)
    BY <1>2, <2>1 DEF KeyFits
  <2> HIDE DEF r
  <2>4. Honest(r, saw[t])
    BY <1>1, <2>1, <2>2, ApiRow DEF ApiPcs, CountPcs
  <2>5. /\ CounterTables /\ OthersKept(i, u)
        /\ real'[1][i][<<u, "byok">>] = real[1][i][<<u, "byok">>] + 1
        /\ real'[1][i][<<u, "platform">>] = real[1][i][<<u, "platform">>]
        /\ real'[1][i][<<"platform", "platform">>] = real[1][i][<<"platform", "platform">>]
    <3>1. asked.day = 1 /\ asked.scope \in 1..Len(Scopes) /\ Charge(t, asked, 1) /\ asked.key = "byok"
      BY <1>2, <1>4, <1>19
    <3>2. asked.scope = i
      BY <1>4
    <3>3. PICK q : q = asked
      OBVIOUS
    <3>4. q.day = 1 /\ q.scope \in 1..Len(Scopes) /\ Charge(t, q, 1) /\ q.key = "byok"
      BY <3>1, <3>3
    <3>5. u \in Askers /\ u = Who(t) /\ 1 \in Int /\ q.key \in {"byok", "platform"}
      BY <1>2, <1>16, <3>4
    <3>6. /\ HistoryTables /\ HistoryKept(q.scope, u)
          /\ real'[1][q.scope][<<u, "byok">>] = real[1][q.scope][<<u, "byok">>] + 1
          /\ real'[1][q.scope][<<u, "platform">>] = real[1][q.scope][<<u, "platform">>]
          /\ real'[1][q.scope][<<"platform", "platform">>] = real[1][q.scope][<<"platform", "platform">>]
      BY <3>4, <3>5, OwnCharge
    <3>7. q.scope = i
      BY <3>2, <3>3
    <3>8. /\ HistoryTables /\ HistoryKept(i, u)
          /\ real'[1][i][<<u, "byok">>] = real[1][i][<<u, "byok">>] + 1
          /\ real'[1][i][<<u, "platform">>] = real[1][i][<<u, "platform">>]
          /\ real'[1][i][<<"platform", "platform">>] = real[1][i][<<"platform", "platform">>]
      <4> HIDE DEF i
      <4> QED
        BY <3>6, <3>7
    <3> QED
      BY <1>12, <1>19, <3>8 DEF CounterTables, OthersKept
  <2>6. StepCounted(old, r, i, u)
    <3>1. used'[1][i][u] = used[1][i][u] + 1 /\ used'[1][i]["platform"] = used[1][i]["platform"]
      BY <1>12, <1>19 DEF count
    <3>2. used[1][i][u] + 1 <= OwnCap
      BY <1>9, <1>13, <1>19 DEF Cap, count
    <3> QED
      BY <1>1, <2>1, <2>5, <3>1, <3>2 DEF StepCounted, CountingStep
  <2>7. /\ Who(t) = u /\ i \in 1..Len(Scopes) /\ StepCounted(search[t], r, i, u) /\ Goes(t, r)
        /\ search[t].pc \in CountPcs => search[t].scope = i
        /\ r.pc \in CountPcs => r.scope = i
        /\ UNCHANGED <<sscene, cached, today, own, health>>
    BY <1>1, <1>2, <1>16, <1>19, <2>1, <2>6 DEF r, CountPcs
  <2>8. u \in Askers /\ r \in SearchRow /\ KeyFits(r)
    BY <1>2, <2>1, <2>3
  <2> HIDE DEF i
  <2> QED
    BY <1>7, <2>4, <2>5, <2>7, <2>8, CountingSearch
<1>20. CASE /\ UsableKey(u, i) /\ Bump(asked, u, 1) /\ ~(CountOf(asked, u) > Cap(key)) /\ key # "byok"
            /\ Goes(t, [asked EXCEPT !.pc = "total"]) /\ UNCHANGED real
  <2> DEFINE r == [asked EXCEPT !.pc = "total"]
  <2>1. r \in SearchRow /\ r.pc = "total" /\ r.ok = old.ok /\ r.failed = old.failed /\ r.scope = i /\ r.key = "platform"
    BY <1>4, <1>15, <1>20 DEF SearchRow, SearchPcs, CountPcs
  <2>2. (r.err => old.err)
    BY <1>4, <1>5 DEF SearchRow
  <2>3. KeyFits(r)
    BY <1>2, <2>1 DEF KeyFits
  <2> HIDE DEF r
  <2>4. Honest(r, saw[t])
    BY <1>1, <2>1, <2>2, ApiRow DEF ApiPcs, CountPcs
  <2>5. StepCounted(old, r, i, u)
    <3>1. used'[1][i][u] = used[1][i][u] + 1 /\ used'[1][i]["platform"] = used[1][i]["platform"]
      BY <1>12, <1>20 DEF count
    <3>2. used[1][i][u] + 1 <= SharedCap
      BY <1>9, <1>13, <1>20 DEF Cap, count
    <3> QED
      BY <1>1, <1>20, <2>1, <3>1, <3>2 DEF StepCounted, CountingStep
  <2>6. CounterTables
    BY <1>12, <1>14, <1>20 DEF CounterTables, HistoryTables
  <2>7. OthersKept(i, u)
    BY <1>12, <1>20 DEF OthersKept, HistoryKept
  <2>8. /\ Who(t) = u /\ i \in 1..Len(Scopes) /\ StepCounted(search[t], r, i, u) /\ Goes(t, r)
        /\ search[t].pc \in CountPcs => search[t].scope = i
        /\ r.pc \in CountPcs => r.scope = i
        /\ UNCHANGED <<sscene, cached, today, own, health>>
    BY <1>1, <1>2, <1>16, <1>20, <2>1, <2>5 DEF r, CountPcs
  <2>9. u \in Askers /\ r \in SearchRow /\ KeyFits(r)
    BY <1>2, <2>1, <2>3
  <2> HIDE DEF i
  <2> QED
    BY <1>7, <2>4, <2>6, <2>7, <2>8, <2>9, CountingSearch
<1> QED
  BY <1>8, <1>17, <1>18, <1>19, <1>20


LEMMA AskApiHolds == ASSUME SourcesInv, NEW t \in Searches, AskApi(t) PROVE SourcesInv'
<1> DEFINE old == search[t]
           u == Who(t)
           i == old.scope
           good == {"api"}
           none == {}
<1>1. /\ old \in SearchRow /\ Honest(old, saw[t]) /\ KeyFits(old) /\ old.pc = "call"
      /\ UNCHANGED <<sscene, cached, today, used, own, health, events>> /\ today = 1
  BY TheSearch DEF AskApi, SearchAt, SourcesInv, SourcesTyped
<1>2. i \in 1..Len(Scopes) /\ old.key \in {"byok", "platform"} /\ old.day = 1 /\ u \in Askers
  BY <1>1, WhoAsks DEF KeyFits, CountPcs, SearchRow, SourcesInv
<1>3. good \in SUBSET Sources /\ none \in SUBSET Sources /\ "api" \in Sources
  BY DEF Sources
<1>4. PICK a \in ApiAnswers :
         /\ IF a = "error" THEN Saw(t, none, good) ELSE Saw(t, good, none)
         /\ IF a = "error"
            THEN /\ Goes(t, [old EXCEPT !.pc = "refund", !.err = TRUE, !.day = today])
                 /\ Charge(t, old, -1)
            ELSE /\ \/ Goes(t, AfterPlace([old EXCEPT !.ok = @ \cup good]))
                    \/ Goes(t, NextScope([old EXCEPT !.ok = @ \cup good]))
                 /\ UNCHANGED real
  BY DEF AskApi
<1>5. /\ \A s : s \in good <=> s = "api"
      /\ \A s : s \notin none
  OBVIOUS
<1>6. "api" # "feed"
  OBVIOUS
<1>7. Who(t) = u /\ old = search[t]
  OBVIOUS
<1>8. UNCHANGED <<sscene, today, used, own>> /\ cached' = cached /\ health' = health
  BY <1>1
<1>9. /\ cached' \in [blob : {"none", "empty", "jobs"}, failed : BOOLEAN, lock : BOOLEAN]
      /\ health' \in [Sources -> [fails : Nat, hot : BOOLEAN, on : BOOLEAN]]
  BY <1>8, TablesTyped
<1> HIDE DEF old, u, good, none
<1>10. CASE a # "error"
  <2> DEFINE r == [old EXCEPT !.ok = @ \cup good]
  <2>1. r \in SearchRow /\ r.pc = "call" /\ r.ok = old.ok \cup good /\ r.failed = old.failed
    BY <1>1, <1>3 DEF SearchRow
  <2>2. r.err => old.err
    BY <1>1 DEF SearchRow
  <2>3. PICK w \in SUBSET (Sources \X Outcomes) :
           /\ saw' = [saw EXCEPT ![t] = w]
           /\ \A s : <<s, "answered">> \in w <=> <<s, "answered">> \in saw[t] \/ s \in good
           /\ \A s : <<s, "failed">> \in w <=> <<s, "failed">> \in saw[t] \/ s \in none
    BY <1>3, <1>4, <1>10, SawMore
  <2>4. (Goes(t, AfterPlace(r)) \/ Goes(t, NextScope(r))) /\ UNCHANGED real
    BY <1>4, <1>10
  <2> HIDE DEF r
  <2>5. Honest(r, w)
    BY <1>1, <1>5, <1>6, <2>1, <2>2, <2>3 DEF Honest, SearchPcs, CountPcs
  <2>6. CASE Goes(t, AfterPlace(r))
    <3>1. /\ AfterPlace(r) \in SearchRow /\ AfterPlace(r).pc \in {"board", "feed", "rest"} /\ Honest(AfterPlace(r), w)
      BY <2>1, <2>5, NextPlace
    <3>2. AfterPlace(r).pc \notin CountPcs
      BY <3>1 DEF CountPcs
    <3> QED
      BY <1>8, <1>9, <2>3, <2>4, <2>6, <3>1, <3>2, QuietSearch
  <2>7. CASE Goes(t, NextScope(r))
    <3> DEFINE n == NextScope(r)
    <3>1. /\ n \in SearchRow /\ n.pc = "api" /\ n.ok = r.ok /\ n.failed = r.failed /\ (n.err => r.err)
      BY <2>1, NextScopeRow
    <3>2. Goes(t, n)
      BY <2>7
    <3> HIDE DEF n
    <3>3. Honest(n, w) /\ n.pc \notin CountPcs
      BY <2>1, <2>5, <3>1, ApiRow DEF ApiPcs, CountPcs
    <3> QED
      BY <1>8, <1>9, <2>3, <2>4, <3>1, <3>2, <3>3, QuietSearch
  <2> QED
    BY <2>4, <2>6, <2>7
<1>11. CASE a = "error"
  <2> DEFINE r == [old EXCEPT !.pc = "refund", !.err = TRUE, !.day = today]
  <2>1. Goes(t, r) /\ Charge(t, old, -1) /\ Saw(t, none, good)
    BY <1>4, <1>11
  <2>2. /\ r \in SearchRow /\ r.pc = "refund" /\ r.ok = old.ok /\ r.failed = old.failed /\ r.scope = i
        /\ r.key = old.key
    BY <1>1 DEF SearchRow, SearchPcs, CountPcs
  <2>3. KeyFits(r)
    BY <1>2, <2>2 DEF KeyFits
  <2>4. PICK w \in SUBSET (Sources \X Outcomes) :
           /\ saw' = [saw EXCEPT ![t] = w]
           /\ \A s : <<s, "answered">> \in w <=> <<s, "answered">> \in saw[t] \/ s \in none
           /\ \A s : <<s, "failed">> \in w <=> <<s, "failed">> \in saw[t] \/ s \in good
    BY <1>3, <2>1, SawMore
  <2> HIDE DEF r
  <2>5. Honest(r, w)
    BY <1>1, <1>5, <2>2, <2>4 DEF Honest, SearchPcs, CountPcs
  <2>6. -1 \in Int
    OBVIOUS
  <2>7. PICK q : q = old
    OBVIOUS
  <2>8. /\ used' \in [Days -> [1..Len(Scopes) -> [Counters -> Int]]] /\ used' = used
    BY <1>1 DEF SourcesInv, SourcesTyped
  <2>9. q.day = 1 /\ q.scope \in 1..Len(Scopes) /\ Charge(t, q, -1) /\ q.key \in {"byok", "platform"}
    BY <1>2, <2>1, <2>7
  <2>10. u \in Askers /\ u = Who(t)
    BY <1>2, <1>7
  <2>11. /\ HistoryTables /\ HistoryKept(q.scope, u)
         /\ q.key = "byok" =>
               /\ real'[1][q.scope][<<u, "byok">>] = real[1][q.scope][<<u, "byok">>] + (-1)
               /\ real'[1][q.scope][<<u, "platform">>] = real[1][q.scope][<<u, "platform">>]
               /\ real'[1][q.scope][<<"platform", "platform">>] = real[1][q.scope][<<"platform", "platform">>]
         /\ q.key = "platform" =>
               /\ real'[1][q.scope][<<u, "byok">>] = real[1][q.scope][<<u, "byok">>]
               /\ real'[1][q.scope][<<u, "platform">>] = real[1][q.scope][<<u, "platform">>] + (-1)
               /\ real'[1][q.scope][<<"platform", "platform">>] = real[1][q.scope][<<"platform", "platform">>] + (-1)
    BY <2>6, <2>9, <2>10, OwnCharge
  <2>12. q.scope = i /\ q.key = old.key
    BY <2>7
  <2>13. StepCounted(old, r, i, u)
    <3>1. used' = used
      BY <1>1
    <3>2. CASE q.key = "byok"
      <4>1. /\ real'[1][i][<<u, "byok">>] = real[1][i][<<u, "byok">>] - 1
            /\ real'[1][i][<<u, "platform">>] = real[1][i][<<u, "platform">>]
            /\ real'[1][i][<<"platform", "platform">>] = real[1][i][<<"platform", "platform">>]
        BY <1>2, <2>11, <2>12, <3>2, CountedTypes DEF SourcesInv
      <4> QED
        BY <1>1, <2>2, <2>12, <3>1, <3>2, <4>1 DEF StepCounted, CountingStep
    <3>3. CASE q.key = "platform"
      <4>1. /\ real'[1][i][<<u, "byok">>] = real[1][i][<<u, "byok">>]
            /\ real'[1][i][<<u, "platform">>] = real[1][i][<<u, "platform">>] - 1
            /\ real'[1][i][<<"platform", "platform">>] = real[1][i][<<"platform", "platform">>] - 1
        BY <1>2, <2>11, <2>12, <3>3, CountedTypes DEF SourcesInv
      <4> QED
        BY <1>1, <2>2, <2>12, <3>1, <3>3, <4>1 DEF StepCounted, CountingStep
    <3> QED
      BY <2>9, <3>2, <3>3
  <2>14. CounterTables /\ OthersKept(i, u)
    <3>1. HistoryTables /\ HistoryKept(i, u)
      <4> HIDE DEF i
      <4> QED
        BY <2>11, <2>12
    <3> QED
      BY <2>8, <3>1 DEF CounterTables, OthersKept
  <2>15. /\ i \in 1..Len(Scopes) /\ StepCounted(search[t], r, i, u)
         /\ search[t].pc \in CountPcs => search[t].scope = i
         /\ r.pc \in CountPcs => r.scope = i
         /\ UNCHANGED <<sscene, cached, today, own, health>>
    BY <1>1, <1>2, <1>7, <2>2, <2>13
  <2> HIDE DEF i
  <2> QED
    BY <2>1, <2>2, <2>3, <2>4, <2>5, <2>10, <2>14, <2>15, CountingSearch
<1> QED
  BY <1>10, <1>11

LEMMA ApiDoneHolds == ASSUME SourcesInv, NEW t \in Searches, ApiDone(t) PROVE SourcesInv'
<1> DEFINE old == search[t]
           blamed == IF old.err /\ "api" \notin old.ok THEN {"api"} ELSE {}
           r == [old EXCEPT !.failed = @ \cup blamed]
<1>1. /\ old \in SearchRow /\ Honest(old, saw[t]) /\ old.pc = "api" /\ Goes(t, AfterPlace(r))
      /\ UNCHANGED <<sscene, cached, today, used, own, health, events, saw, real>>
  BY TheSearch DEF ApiDone, SearchAt
<1>2. blamed \subseteq {"api"} /\ (blamed # {} => old.err) /\ blamed \subseteq Sources
  BY DEF Sources
<1> HIDE DEF old, blamed
<1>3. r \in SearchRow /\ r.pc = "api" /\ r.ok = old.ok /\ r.failed = old.failed \cup blamed
  BY <1>1, <1>2 DEF SearchRow
<1>4. r.err => old.err
  BY <1>1 DEF SearchRow
<1> HIDE DEF r
<1>5. Honest(r, saw[t])
  BY <1>1, <1>2, <1>3, <1>4 DEF Honest, SearchPcs, CountPcs
<1>6. AfterPlace(r) \in SearchRow /\ AfterPlace(r).pc \in {"board", "feed", "rest"} /\ Honest(AfterPlace(r), saw[t])
  BY <1>3, <1>5, NextPlace
<1>7. AfterPlace(r).pc \notin CountPcs
  BY <1>6 DEF CountPcs
<1>8. UNCHANGED <<sscene, today, used, own, saw, real>> /\ cached' = cached /\ health' = health
  BY <1>1
<1>9. /\ cached' \in [blob : {"none", "empty", "jobs"}, failed : BOOLEAN, lock : BOOLEAN]
      /\ health' \in [Sources -> [fails : Nat, hot : BOOLEAN, on : BOOLEAN]]
  BY <1>8, TablesTyped
<1> QED
  BY <1>1, <1>6, <1>7, <1>8, <1>9, QuietMove


----------------------------------------------------------------------------
LEMMA SourcesInit == SInit => SourcesInv
<1> SUFFICES ASSUME SInit PROVE SourcesInv
  OBVIOUS
<1>1. sscene \in SourceScenes /\ sscene \in SourceScene
  BY SourceAssumption DEF SInit
<1>2. \A t \in Searches : search[t] = Unstarted /\ saw[t] = {}
  BY DEF SInit
<1>3. Unstarted \in SearchRow
  <2>1. <<>> \in HealthRead
    BY DEF HealthRead
  <2>2. 1 \in Position /\ 0 \in Tally
    BY Numbers
  <2> QED
    BY <2>1, <2>2 DEF Unstarted, SearchRow, SearchPcs
<1>4. Unstarted.pc = "idle" /\ Unstarted.failed = {} /\ ~Unstarted.err
  BY DEF Unstarted
<1>5. KeyFits(Unstarted)
  BY <1>4 DEF KeyFits, CountPcs
<1>6. Honest(Unstarted, {})
  BY <1>4 DEF Honest, SearchPcs, CountPcs
<1>7. /\ \A d \in Days, i \in 1..Len(Scopes), c \in Ledger : real[d][i][c] = 0
      /\ \A d \in Days, i \in 1..Len(Scopes), c \in Counters : used[d][i][c] = 0
  BY DEF SInit
<1>8. SourcesTyped
  <2>1. search \in [Searches -> SearchRow] /\ saw \in [Searches -> SUBSET (Sources \X Outcomes)]
    BY <1>3 DEF SInit
  <2>2. used \in [Days -> [1..Len(Scopes) -> [Counters -> Int]]] /\ real \in [Days -> [1..Len(Scopes) -> [Ledger -> Int]]]
    BY DEF SInit
  <2>3. own \in [Askers -> SUBSET STRING] /\ sscene.fails \in Nat
    BY <1>1 DEF SInit, SourceScene
  <2>4. health \in [Sources -> [fails : Nat, hot : BOOLEAN, on : BOOLEAN]]
    BY <2>3 DEF SInit
  <2>5. \A t \in Searches : KeyFits(search[t])
    BY <1>2, <1>5
  <2>6. cached \in [blob : {"none", "empty", "jobs"}, failed : BOOLEAN, lock : BOOLEAN] /\ today = 1
    BY DEF SInit
  <2> QED
    BY <1>1, <1>7, <2>1, <2>2, <2>3, <2>4, <2>5, <2>6 DEF SourcesTyped
<1>9. AllHonest
  BY <1>2, <1>6 DEF AllHonest
<1>10. CallsCounted
  <2>1. /\ \A i, u : Between(i, u) = {} /\ Refunding(i, u) = {}
        /\ \A i, u, k : Calling(i, u, k) = {}
        /\ \A i : Returning(i) = {}
    BY <1>2, <1>4 DEF Between, Refunding, Calling, Returning
  <2>2. Cardinality({}) = 0
    BY FS_EmptySet
  <2>3. UserFits(0, 0, 0, 0, 0) /\ AllFits(0, 0, 0)
    BY SourceAssumption DEF UserFits, AllFits
  <2>4. 1 \in Days /\ "platform" \in Counters /\ \A u \in Askers : u \in Counters
    BY SourceAssumption DEF Days, Counters
  <2>5. /\ <<"platform", "platform">> \in Ledger
        /\ \A u \in Askers : <<u, "byok">> \in Ledger /\ <<u, "platform">> \in Ledger
    BY <2>4 DEF Ledger
  <2>6. ASSUME NEW i \in 1..Len(Scopes) PROVE AllCounted(i)
    BY <1>7, <2>1, <2>2, <2>3, <2>4, <2>5 DEF AllCounted
  <2>7. ASSUME NEW i \in 1..Len(Scopes), NEW u \in Askers PROVE UserCounted(i, u)
    <3>1. real[1][i][<<u, "byok">>] = 0 /\ real[1][i][<<u, "platform">>] = 0 /\ used[1][i][u] = 0
      BY <1>7, <2>4, <2>5
    <3>2. /\ Between(i, u) = {} /\ Refunding(i, u) = {}
          /\ Calling(i, u, "byok") = {} /\ Calling(i, u, "platform") = {}
      BY <2>1
    <3>3. /\ Cardinality(Between(i, u)) = 0 /\ Cardinality(Refunding(i, u)) = 0
          /\ Cardinality(Calling(i, u, "byok")) = 0 /\ Cardinality(Calling(i, u, "platform")) = 0
      BY <2>2, <3>2
    <3> DEFINE mine == real[1][i][<<u, "byok">>]
               shared == real[1][i][<<u, "platform">>]
               count == used[1][i][u]
               waiting == Cardinality(Between(i, u))
               back == Cardinality(Refunding(i, u))
               calls == Cardinality(Calling(i, u, "byok"))
               sharedCalls == Cardinality(Calling(i, u, "platform"))
    <3>4. mine = 0 /\ shared = 0 /\ count = 0 /\ waiting = 0 /\ back = 0 /\ calls = 0 /\ sharedCalls = 0
      BY <3>1, <3>3
    <3> HIDE DEF mine, shared, count, waiting, back, calls, sharedCalls
    <3>5. UserFits(mine, shared, waiting, back, count) /\ calls <= mine /\ sharedCalls <= shared
      BY <3>4, SourceAssumption DEF UserFits
    <3> QED
      BY <3>5 DEF UserCounted, mine, shared, count, waiting, back, calls, sharedCalls
  <2> QED
    BY <2>6, <2>7 DEF CallsCounted
<1> QED
  BY <1>8, <1>9, <1>10 DEF SourcesInv

LEMMA SourcesNext == ASSUME OneDay, SourcesInv, [SNext]_svars PROVE SourcesInv'
<1>1. CASE SNext
  <2>1. ASSUME NEW t \in Searches, SourceStep(t) PROVE SourcesInv'
    <3>1. CASE Plan(t) \/ BoardsDone(t) \/ AskBoards(t)
      BY <3>1, PlanHolds, BoardsDoneHolds, AskBoardsHolds
    <3>2. CASE CountForUser(t) \/ CountForAll(t) \/ AskApi(t) \/ GiveBack(t) \/ GiveBackAll(t) \/ ApiDone(t)
      BY <3>2, CountForUserHolds, CountForAllHolds, AskApiHolds, GiveBackHolds, GiveBackAllHolds, ApiDoneHolds
    <3>3. CASE ReadFeed(t) \/ CheckFailed(t) \/ LockFeed(t) \/ FetchFeed(t)
      BY <3>3, ReadFeedHolds, CheckFailedHolds, LockFeedHolds, FetchFeedHolds
    <3>4. CASE MarkFailed(t) \/ UnlockFeed(t) \/ StoreFeed(t) \/ PollFeed(t)
      BY <3>4, MarkFailedHolds, UnlockFeedHolds, StoreFeedHolds, PollFeedHolds
    <3>5. CASE ReadRest(t) \/ ReadHealthy(t) \/ MarkSuccess(t) \/ ReadFailing(t) \/ MarkFailure(t)
      BY <3>5, ReadRestHolds, ReadHealthyHolds, MarkSuccessHolds, ReadFailingHolds, MarkFailureHolds
    <3> QED
      BY <2>1, <3>1, <3>2, <3>3, <3>4, <3>5 DEF SourceStep
  <2>2. ASSUME NEW t \in Searches, WorkerDies(t) PROVE SourcesInv'
    BY <2>2, WorkerDiesHolds
  <2>3. CASE Expires
    BY <2>3, ExpiresHolds
  <2>4. CASE NewDay
    BY <2>4, NoMidnight
  <2>5. ASSUME NEW u \in Askers, NEW i \in 1..Len(Scopes), SavesKey(u, i) PROVE SourcesInv'
    BY <2>5, SavesKeyHolds
  <2>6. ASSUME NEW s \in sscene.wanted, Health(s) PROVE SourcesInv'
    <3>1. s \in Sources
      BY SceneTyped DEF SourcesInv
    <3> QED
      BY <2>6, <3>1, HealthHolds
  <2> QED
    BY <1>1, <2>1, <2>2, <2>3, <2>4, <2>5, <2>6 DEF SNext
<1>2. CASE UNCHANGED svars
  <2>1. UNCHANGED <<sscene, search, cached, today, used, own, health, saw, real>>
    BY <1>2 DEF svars
  <2>2. /\ cached' \in [blob : {"none", "empty", "jobs"}, failed : BOOLEAN, lock : BOOLEAN]
        /\ health' \in [Sources -> [fails : Nat, hot : BOOLEAN, on : BOOLEAN]]
        /\ own' \in [Askers -> SUBSET STRING]
    BY <2>1, TablesTyped DEF SourcesInv, SourcesTyped
  <2> QED
    BY <2>1, <2>2, TablesChange
<1> QED
  BY <1>1, <1>2

\* The situation of a behaviour stays, so that a day without midnight was one before.
LEMMA SceneStays == [SNext]_svars /\ OneDay' => OneDay
<1> SUFFICES ASSUME [SNext]_svars PROVE sscene' = sscene
  BY DEF OneDay
<1>1. ASSUME NEW t \in Searches, SourceStep(t) PROVE sscene' = sscene
  <2>1. CASE Plan(t) \/ BoardsDone(t) \/ AskBoards(t)
    BY <2>1 DEF Plan, BoardsDone, AskBoards
  <2>2. CASE CountForUser(t) \/ CountForAll(t) \/ AskApi(t) \/ GiveBack(t) \/ GiveBackAll(t) \/ ApiDone(t)
    BY <2>2 DEF CountForUser, CountForAll, AskApi, GiveBack, GiveBackAll, ApiDone
  <2>3. CASE ReadFeed(t) \/ CheckFailed(t) \/ LockFeed(t) \/ FetchFeed(t)
    BY <2>3 DEF ReadFeed, CheckFailed, LockFeed, FetchFeed
  <2>4. CASE MarkFailed(t) \/ UnlockFeed(t) \/ StoreFeed(t) \/ PollFeed(t)
    BY <2>4 DEF MarkFailed, UnlockFeed, StoreFeed, PollFeed
  <2>5. CASE ReadRest(t) \/ ReadHealthy(t) \/ MarkSuccess(t) \/ ReadFailing(t) \/ MarkFailure(t)
    BY <2>5 DEF ReadRest, ReadHealthy, MarkSuccess, ReadFailing, MarkFailure
  <2> QED
    BY <1>1, <2>1, <2>2, <2>3, <2>4, <2>5 DEF SourceStep
<1>2. ASSUME NEW t \in Searches, WorkerDies(t) PROVE sscene' = sscene
  BY <1>2 DEF WorkerDies
<1>3. CASE Expires \/ NewDay \/ UNCHANGED svars
  BY <1>3 DEF Expires, NewDay, svars
<1>4. ASSUME NEW u \in Askers, NEW i \in 1..Len(Scopes), SavesKey(u, i) PROVE sscene' = sscene
  BY <1>4 DEF SavesKey
<1>5. ASSUME NEW s \in sscene.wanted, Health(s) PROVE sscene' = sscene
  BY <1>5 DEF Health
<1> QED
  BY <1>1, <1>2, <1>3, <1>4, <1>5 DEF SNext

LEMMA SourcesSettle == SourcesInv => SourcesCounted
<1> SUFFICES ASSUME SourcesInv PROVE SourcesCounted
  OBVIOUS
<1>1. QuotaHolds
  <2> SUFFICES ASSUME NEW d \in Days, NEW i \in 1..Len(Scopes)
               PROVE  /\ \A u \in Askers : real[d][i][<<u, "byok">>] <= OwnCap /\ real[d][i][<<u, "platform">>] <= SharedCap
                      /\ real[d][i][<<"platform", "platform">>] <= TotalCap
    BY DEF QuotaHolds
  <2>1. CASE d # 1
    <3>1. /\ <<"platform", "platform">> \in Ledger
          /\ \A u \in Askers : <<u, "byok">> \in Ledger /\ <<u, "platform">> \in Ledger
      BY DEF Ledger, Counters
    <3>2. \A c \in Ledger : real[d][i][c] = 0
      BY <2>1 DEF SourcesInv, SourcesTyped
    <3> QED
      BY <3>1, <3>2, SourceAssumption
  <2>2. CASE d = 1
    <3>1. AllCounted(i) /\ \A u \in Askers : UserCounted(i, u)
      BY DEF SourcesInv, CallsCounted
    <3>2. real[1][i][<<"platform", "platform">>] <= TotalCap
      BY <3>1 DEF AllCounted, AllFits
    <3>3. ASSUME NEW u \in Askers
          PROVE  real[1][i][<<u, "byok">>] <= OwnCap /\ real[1][i][<<u, "platform">>] <= SharedCap
      <4> DEFINE waiting == Cardinality(Between(i, u))
      <4>1. waiting \in Nat
        BY CountedSets, CardinalityOf
      <4>2. real[1][i][<<u, "platform">>] \in Int
        BY CountedTypes DEF SourcesInv
      <4>3. real[1][i][<<u, "byok">>] <= OwnCap /\ real[1][i][<<u, "platform">>] + waiting <= SharedCap
        BY <3>1 DEF UserCounted, UserFits
      <4> HIDE DEF waiting
      <4> QED
        BY <4>1, <4>2, <4>3, SourceAssumption
    <3> QED
      BY <2>2, <3>2, <3>3
  <2> QED
    BY <2>1, <2>2
<1>2. BlamedForOwnFailure
  <2> SUFFICES ASSUME NEW t \in Searches, search[t].pc \in {"blame", "blaming"},
                      NEW s \in search[t].failed \cup (IF search[t].pc = "blaming" THEN DOMAIN search[t].rows ELSE {})
               PROVE  <<s, "failed">> \in saw[t] /\ <<s, "answered">> \notin saw[t]
    BY DEF BlamedForOwnFailure
  <2>1. Honest(search[t], saw[t])
    BY TheSearch
  <2> QED
    BY <2>1 DEF Honest
<1> QED
  BY <1>1, <1>2 DEF SourcesCounted

\* Between two midnights, in every interleaving of any number of searches of any
\* users: the calls that were answered or are out stay within each user's cap and
\* within the platform's, and no source is blamed for a failure the search did not
\* see itself (source_limits.py:91-110, job_sources.py:208-256). After midnight a
\* refund goes to the new day, which may then have a call more: the hypothesis.
THEOREM CallsStayInQuota == SSpec => [](OneDay => SourcesCounted)
<1>1. SInit => (OneDay => SourcesInv)
  BY SourcesInit
<1>2. (OneDay => SourcesInv) /\ [SNext]_svars => (OneDay => SourcesInv)'
  BY SourcesNext, SceneStays
<1>3. (OneDay => SourcesInv) => (OneDay => SourcesCounted)
  BY SourcesSettle
<1> QED
  BY <1>1, <1>2, <1>3, PTL DEF SSpec

----------------------------------------------------------------------------
LEMMA NatMin ==
    ASSUME NEW S, S \subseteq Nat, S # {}
    PROVE  \E x \in S : \A y \in S : x <= y
<1>1. IsWellFoundedOn(OpToRel(<, Nat), Nat)
  BY NatLessThanWellFounded
<1>2. PICK x \in S : \A y \in S : <<y, x>> \notin OpToRel(<, Nat)
  BY <1>1, WFMin
<1>3. \A y \in S : ~(y < x)
  BY <1>2 DEF OpToRel
<1> QED
  BY <1>3

----------------------------------------------------------------------------
(***************************************************************************)
(* Alerts: what a run shows is seen from then on, so a job is in one digest *)
(* unless two runs were about to show it at the same moment: for any        *)
(* alerts, ticks, workers, days and faults.                                 *)
(***************************************************************************)

AlertRow == [exists : BOOLEAN, enabled : BOOLEAN, next : 0..MaxDay + 1]
BeatRow == [pc : {"idle", "claim", "again", "queue"}, todo : SUBSET Alerts, alert : Alerts \cup {"none"},
            read : Nat, won : SUBSET Alerts]
AlertTask == [pc : {"idle", "admit", "triage", "score", "keep", "mail"}, alert : Alerts \cup {"none"}, run : Nat,
              fresh : SUBSET Offers, kept : SUBSET Offers]
RunRow == [alert : Alerts \cup {"none"}, status : {"none", "running", "done", "skipped", "failed", "deleted"},
           jobs : SUBSET Offers, emailed : BOOLEAN]
AlertLog == [claims : [Alerts -> Nat], sent : [Offers -> Nat], shared : SUBSET Offers, faults : Nat]

BeatsRight(beats) ==
    /\ beats \in [Beats -> BeatRow]
    /\ \A b \in Beats : beats[b].pc = "claim" => beats[b].alert \in Alerts

\* Each task at work has a run of its own, which nobody has ended.
RunsOwned(doing, runs) ==
    /\ doing \in [Workers -> AlertTask] /\ runs \in [1..MaxRuns -> RunRow]
    /\ \A w \in Workers : doing[w].pc # "idle" =>
           /\ doing[w].run \in 1..MaxRuns
           /\ runs[doing[w].run].status \in {"running", "done", "deleted"}
           /\ \A v \in Workers : doing[v].pc # "idle" /\ doing[v].run = doing[w].run => v = w

\* What a task is about to show was not shown, what it is about to mail was
\* and is not mailed yet; neither is another task's.
OfferHeld(j, doing, seen, n) ==
    /\ n <= 1 /\ (n = 1 => j \in seen)
    /\ \A w \in Workers : j \in doing[w].fresh =>
           j \notin seen /\ n = 0 /\ \A v \in Workers : j \in doing[v].fresh => v = w
    /\ \A w \in Workers : j \in doing[w].kept =>
           j \in seen /\ n = 0 /\ \A v \in Workers : j \in doing[v].kept => v = w

OffersHeld(doing, seen, shared, sent) ==
    \A j \in Offers \ shared : OfferHeld(j, doing, seen, sent[j])

AlertsInv ==
    /\ ascene \in AlertScene /\ day \in 1..MaxDay /\ day <= ascene.days /\ uses \in 0..Quota
    /\ alert \in [Alerts -> AlertRow] /\ \A a \in Alerts : alert[a].enabled => alert[a].exists
    /\ queue \in [Alerts -> Nat] /\ BeatsRight(beat)
    /\ RunsOwned(task, run) /\ shown \subseteq Offers /\ alog \in AlertLog
    /\ OffersHeld(task, shown, alog.shared, alog.sent)

AlertsRest == UNCHANGED <<ascene, day, uses, alert, queue, beat>>


LEMMA AlertsStart == AlertsInit => AlertsInv
<1> SUFFICES ASSUME AlertsInit PROVE AlertsInv
  OBVIOUS
<1>1. ascene \in AlertScene /\ day = 1 /\ uses = 0 /\ MaxDay \in Nat /\ Quota \in Nat /\ 1 <= ascene.days /\ 1 <= MaxDay
  BY AlertConstants DEF AlertsInit, AlertScene
<1>2. alert \in [Alerts -> AlertRow] /\ \A a \in Alerts : alert[a].enabled => alert[a].exists
  BY <1>1 DEF AlertsInit, AlertRow, NoAlert
<1>3. queue \in [Alerts -> Nat] /\ BeatsRight(beat)
  BY DEF AlertsInit, BeatsRight, BeatRow, IdleBeat
<1>4. task \in [Workers -> AlertTask] /\ run \in [1..MaxRuns -> RunRow]
  BY DEF AlertsInit, AlertTask, IdleTask, RunRow, NoRun
<1>5. RunsOwned(task, run)
  BY <1>4 DEF AlertsInit, RunsOwned, IdleTask
<1>6. shown = {} /\ alog \in AlertLog /\ \A j \in Offers : alog.sent[j] = 0
  BY DEF AlertsInit, AlertLog, NoLog
<1>7. \A w \in Workers : task[w].fresh = {} /\ task[w].kept = {}
  BY DEF AlertsInit, IdleTask
<1>8. OffersHeld(task, shown, alog.shared, alog.sent)
  BY <1>6, <1>7 DEF OffersHeld, OfferHeld
<1> QED
  BY <1>1, <1>2, <1>3, <1>5, <1>6, <1>8 DEF AlertsInv

\* What is not at the user's jobs keeps them as they are.
LEMMA ClaimsNoted ==
    ASSUME NEW log \in AlertLog, NEW a \in Alerts, NEW n \in Nat
    PROVE  /\ [log EXCEPT !.claims[a] = n] \in AlertLog
           /\ [log EXCEPT !.claims[a] = n].sent = log.sent
           /\ [log EXCEPT !.claims[a] = n].shared = log.shared
  BY DEF AlertLog

LEMMA FaultNoted ==
    ASSUME NEW log \in AlertLog
    PROVE  /\ [log EXCEPT !.faults = @ + 1] \in AlertLog
           /\ [log EXCEPT !.faults = @ + 1].sent = log.sent
           /\ [log EXCEPT !.faults = @ + 1].shared = log.shared
  BY DEF AlertLog

LEMMA SaveHolds == ASSUME AlertsInv, NEW a \in Alerts, NEW on \in BOOLEAN, Save(a, on) PROVE AlertsInv'
<1>1. alog' \in AlertLog /\ alog'.sent = alog.sent /\ alog'.shared = alog.shared
  BY ClaimsNoted DEF AlertsInv, Save
<1>2. MaxDay \in Nat /\ day + 1 \in 0..MaxDay + 1
  BY AlertConstants DEF AlertsInv
<1>3. alert' \in [Alerts -> AlertRow] /\ \A x \in Alerts : alert'[x].enabled => alert'[x].exists
  BY <1>2 DEF AlertsInv, Save, AlertRow
<1> QED
  BY <1>1, <1>3 DEF AlertsInv, Save

LEMMA DeleteHolds == ASSUME AlertsInv, NEW a \in Alerts, Delete(a) PROVE AlertsInv'
<1>1. alog' \in AlertLog /\ alog'.sent = alog.sent /\ alog'.shared = alog.shared
  BY ClaimsNoted DEF AlertsInv, Delete
<1>2. alert' \in [Alerts -> AlertRow] /\ \A x \in Alerts : alert'[x].enabled => alert'[x].exists
  BY AlertConstants DEF AlertsInv, Delete, AlertRow, NoAlert
<1>3. run' \in [1..MaxRuns -> RunRow] /\ \A i \in 1..MaxRuns : run'[i].status \in {run[i].status, "deleted"}
  BY DEF AlertsInv, Delete, RunsOwned, RunRow, NoRun
<1>4. RunsOwned(task, run')
  BY <1>3 DEF AlertsInv, RunsOwned
<1> QED
  BY <1>1, <1>2, <1>4 DEF AlertsInv, Delete

LEMMA RunNowHolds == ASSUME AlertsInv, NEW a \in Alerts, RunNow(a) PROVE AlertsInv'
  BY DEF AlertsInv, RunNow

LEMMA DayPassesHolds == ASSUME AlertsInv, DayPasses PROVE AlertsInv'
<1>1. alog' \in AlertLog /\ alog'.sent = alog.sent /\ alog'.shared = alog.shared
  BY DEF AlertsInv, DayPasses, AlertLog
<1>2. day' \in 1..MaxDay /\ day' <= ascene.days /\ uses' \in 0..Quota
  BY AlertConstants DEF AlertsInv, DayPasses, AlertScene
<1> QED
  BY <1>1, <1>2 DEF AlertsInv, DayPasses

----------------------------------------------------------------------------
(* Ticks *)

LEMMA BeatReadsHolds == ASSUME AlertsInv, NEW b \in Beats, BeatReads(b) PROVE AlertsInv'
<1>1. PICK a \in Alerts : beat' = [beat EXCEPT ![b] = [IdleBeat EXCEPT !.pc = "claim", !.alert = a,
                      !.read = alert[a].next, !.todo = {x \in Alerts : Due(x)} \ {a}]]
  BY DEF BeatReads
<1>2. alert[a].next \in Nat
  BY AlertConstants DEF AlertsInv, AlertRow
<1>3. BeatsRight(beat')
  BY <1>1, <1>2 DEF AlertsInv, BeatsRight, BeatRow, IdleBeat
<1> QED
  BY <1>3 DEF AlertsInv, BeatReads

LEMMA BeatClaimsHolds == ASSUME AlertsInv, NEW b \in Beats, BeatClaims(b) PROVE AlertsInv'
<1> DEFINE t == beat[b]
           left == [t EXCEPT !.pc = IF t.todo = {} THEN "queue" ELSE "again", !.alert = "none", !.read = 0]
<1>1. t \in BeatRow /\ left \in BeatRow /\ left.pc # "claim" /\ t.alert \in Alerts
  BY DEF AlertsInv, BeatsRight, BeatRow, BeatClaims
<1>2. CASE alert[t.alert].exists /\ alert[t.alert].next = t.read 
  <2>1. /\ alert' = [alert EXCEPT ![t.alert].next = day + 1]
        /\ beat' = [beat EXCEPT ![b] = [left EXCEPT !.won = @ \cup {t.alert}]]
        /\ alog' = [alog EXCEPT !.claims[t.alert] = @ + 1]
    BY <1>2 DEF BeatClaims
  <2>2. alog' \in AlertLog /\ alog'.sent = alog.sent /\ alog'.shared = alog.shared
    BY <1>1, <2>1 DEF AlertsInv, AlertLog
  <2>3. MaxDay \in Nat /\ day + 1 \in 0..MaxDay + 1
    BY AlertConstants DEF AlertsInv
  <2>4. alert' \in [Alerts -> AlertRow] /\ \A x \in Alerts : alert'[x].enabled => alert'[x].exists
    BY <1>1, <2>1, <2>3 DEF AlertsInv, AlertRow
  <2>5. /\ [left EXCEPT !.won = @ \cup {t.alert}] \in BeatRow
        /\ [left EXCEPT !.won = @ \cup {t.alert}].pc # "claim"
    BY <1>1 DEF BeatRow
  <2>6. BeatsRight(beat')
    BY <2>1, <2>5 DEF AlertsInv, BeatsRight
  <2> QED
    BY <2>2, <2>4, <2>6 DEF AlertsInv, BeatClaims
<1>3. CASE ~(alert[t.alert].exists /\ alert[t.alert].next = t.read)
  <2>1. beat' = [beat EXCEPT ![b] = left] /\ UNCHANGED <<alert, alog>>
    BY <1>3 DEF BeatClaims
  <2>2. BeatsRight(beat')
    BY <1>1, <2>1 DEF AlertsInv, BeatsRight
  <2> QED
    BY <2>1, <2>2 DEF AlertsInv, BeatClaims
<1> QED
  BY <1>2, <1>3

LEMMA BeatReadsAgainHolds == ASSUME AlertsInv, NEW b \in Beats, BeatReadsAgain(b) PROVE AlertsInv'
<1> DEFINE t == beat[b]
<1>1. t \in BeatRow
  BY DEF AlertsInv, BeatsRight
<1>2. PICK a \in t.todo :
         IF alert[a].exists
         THEN beat' = [beat EXCEPT ![b] = [t EXCEPT !.pc = "claim", !.alert = a,
                                              !.read = alert[a].next, !.todo = @ \ {a}]]
         ELSE beat' = [beat EXCEPT ![b] = IdleBeat]
  BY DEF BeatReadsAgain
<1>3. a \in Alerts /\ alert[a].next \in Nat
  BY <1>1, AlertConstants DEF BeatRow, AlertsInv, AlertRow
<1>4. IdleBeat \in BeatRow /\ IdleBeat.pc # "claim"
  BY DEF IdleBeat, BeatRow
<1>5. [t EXCEPT !.pc = "claim", !.alert = a, !.read = alert[a].next, !.todo = @ \ {a}] \in BeatRow
  BY <1>1, <1>3 DEF BeatRow
<1>6. [t EXCEPT !.pc = "claim", !.alert = a, !.read = alert[a].next, !.todo = @ \ {a}].alert = a
  BY <1>1 DEF BeatRow
<1>7. BeatsRight(beat')
  BY <1>2, <1>3, <1>4, <1>5, <1>6 DEF AlertsInv, BeatsRight
<1> QED
  BY <1>7 DEF AlertsInv, BeatReadsAgain

LEMMA BeatQueuesHolds == ASSUME AlertsInv, NEW b \in Beats, BeatQueues(b) PROVE AlertsInv'
<1>1. queue' \in [Alerts -> Nat]
  BY DEF AlertsInv, BeatQueues
<1>2. BeatsRight(beat')
  BY DEF AlertsInv, BeatQueues, BeatsRight, BeatRow, IdleBeat
<1> QED
  BY <1>1, <1>2 DEF AlertsInv, BeatQueues

LEMMA BeatDiesHolds == ASSUME AlertsInv, NEW b \in Beats, BeatDies(b) PROVE AlertsInv'
<1>1. alog' \in AlertLog /\ alog'.sent = alog.sent /\ alog'.shared = alog.shared
  BY FaultNoted DEF AlertsInv, BeatDies
<1>2. BeatsRight(beat')
  BY DEF AlertsInv, BeatDies, BeatsRight, BeatRow, IdleBeat
<1> QED
  BY <1>1, <1>2 DEF AlertsInv, BeatDies

----------------------------------------------------------------------------
(* Runs *)

\* What a task does to its run: an ended one is no run of a task.
RunGoes(i, new) ==
    /\ new \in [1..MaxRuns -> RunRow]
    /\ \A k \in 1..MaxRuns : k # i => new[k] = run[k]

LEMMA TaskIdles ==
    ASSUME AlertsInv, NEW w \in Workers, NEW new, RunGoes(task[w].run, new), task[w].pc # "idle"
    PROVE  RunsOwned([task EXCEPT ![w] = IdleTask], new)
<1>1. IdleTask \in AlertTask /\ IdleTask.pc = "idle"
  BY DEF IdleTask, AlertTask
<1> QED
  BY <1>1 DEF RunGoes, AlertsInv, RunsOwned

LEMMA TaskGoesOn ==
    ASSUME AlertsInv, NEW w \in Workers, NEW new, RunGoes(task[w].run, new), task[w].pc # "idle",
           new[task[w].run].status \in {"running", "done", "deleted"},
           NEW t \in AlertTask, t.run = task[w].run
    PROVE  RunsOwned([task EXCEPT ![w] = t], new)
  BY DEF RunGoes, AlertsInv, RunsOwned

\* A task that shows nothing new and forgets what it mails takes nothing from others.
LEMMA NothingHeld ==
    ASSUME AlertsInv, NEW w \in Workers, NEW t, t.fresh = {}, t.kept \subseteq task[w].kept
    PROVE  OffersHeld([task EXCEPT ![w] = t], shown, alog.shared, alog.sent)
<1>1. task \in [Workers -> AlertTask]
  BY DEF AlertsInv, RunsOwned
<1> DEFINE u == [task EXCEPT ![w] = t]
<1>2. \A v \in Workers : u[v].fresh \subseteq task[v].fresh /\ u[v].kept \subseteq task[v].kept
  BY <1>1
<1> HIDE DEF u
<1>3. SUFFICES ASSUME NEW j \in Offers \ alog.shared PROVE OfferHeld(j, u, shown, alog.sent[j])
  BY DEF OffersHeld, u
<1>4. OfferHeld(j, task, shown, alog.sent[j])
  BY DEF AlertsInv, OffersHeld
<1> QED
  BY <1>2, <1>4 DEF OfferHeld

LEMMA RunEnds ==
    ASSUME AlertsInv, NEW w \in Workers, task[w].pc # "idle",
           NEW status \in {"none", "running", "done", "skipped", "failed", "deleted"}
    PROVE  RunGoes(task[w].run, RunIs(w, status))
<1> DEFINE i == task[w].run
<1>1. run \in [1..MaxRuns -> RunRow] /\ i \in 1..MaxRuns
  BY DEF AlertsInv, RunsOwned
<1> DEFINE row == [run[i] EXCEPT !.status = IF @ = "deleted" THEN @ ELSE status]
<1>2. row \in RunRow
  <2>1. run[i] \in RunRow
    BY <1>1
  <2> HIDE DEF i
  <2>2. (IF run[i].status = "deleted" THEN run[i].status ELSE status)
           \in {"none", "running", "done", "skipped", "failed", "deleted"}
    BY <2>1
  <2> QED
    BY <2>1, <2>2 DEF RunRow
<1>3. RunIs(w, status) = [run EXCEPT ![i] = row]
  BY <1>1 DEF RunIs
<1> HIDE DEF i, row
<1>4. RunGoes(i, [run EXCEPT ![i] = row])
  BY <1>1, <1>2 DEF RunGoes
<1> QED
  BY <1>3, <1>4 DEF i

LEMMA SameRuns == ASSUME AlertsInv, NEW i PROVE RunGoes(i, run)
  BY DEF AlertsInv, RunsOwned, RunGoes

LEMMA NextRunIsFree ==
    ASSUME \E i \in 1..MaxRuns : run[i].status = "none"
    PROVE  NextRun \in 1..MaxRuns /\ run[NextRun].status = "none"
<1> DEFINE S == {i \in 1..MaxRuns : run[i].status = "none"}
<1>1. S \subseteq Nat /\ S # {}
  OBVIOUS
<1>2. PICK i \in S : \A k \in S : i <= k
  BY <1>1, NatMin
<1>3. i \in 1..MaxRuns /\ run[i].status = "none" /\ \A k \in 1..MaxRuns : k < i => run[k].status # "none"
  BY <1>1, <1>2
<1> HIDE DEF S
<1> QED
  BY <1>3 DEF NextRun

LEMMA StartHolds == ASSUME AlertsInv, NEW w \in Workers, NEW a \in Alerts, Start(w, a) PROVE AlertsInv'
<1>1. queue' \in [Alerts -> Nat]
  BY DEF AlertsInv, Start
<1>2. CASE alert[a].exists
  <2> DEFINE new == [NoRun EXCEPT !.alert = a, !.status = "running"]
             t == [IdleTask EXCEPT !.pc = "admit", !.alert = a, !.run = NextRun]
  <2>1. run' = [run EXCEPT ![NextRun] = new] /\ task' = [task EXCEPT ![w] = t]
    BY <1>2 DEF Start
  <2>2. NextRun \in 1..MaxRuns /\ run[NextRun].status = "none"
    BY NextRunIsFree DEF Start
  <2>3. new \in RunRow /\ new.status = "running"
    BY DEF NoRun, RunRow
  <2>4. t \in AlertTask /\ t.pc = "admit" /\ t.run = NextRun /\ t.fresh = {} /\ t.kept = {}
    <3>1. MaxRuns \in Nat
      BY AlertConstants
    <3>2. NextRun \in Nat
      BY <2>2, <3>1
    <3> QED
      BY <3>2 DEF IdleTask, AlertTask
  <2> HIDE DEF new, t
  <2>5. RunsOwned(task', run')
    <3>1. RunsOwned(task, run)
      BY DEF AlertsInv
    <3>2. task' \in [Workers -> AlertTask] /\ run' \in [1..MaxRuns -> RunRow]
      BY <2>1, <2>2, <2>3, <2>4, <3>1 DEF RunsOwned
    <3>3. /\ task'[w] = t /\ \A v \in Workers : v # w => task'[v] = task[v]
          /\ run'[NextRun] = new /\ \A i \in 1..MaxRuns : i # NextRun => run'[i] = run[i]
      BY <2>1, <2>2, <3>1 DEF RunsOwned
    <3>4. \A v \in Workers : task[v].pc # "idle" => task[v].run # NextRun
      BY <2>2, <3>1 DEF RunsOwned
    <3> QED
      BY <2>2, <2>3, <2>4, <3>1, <3>2, <3>3, <3>4 DEF RunsOwned
  <2>6. OffersHeld(task', shown, alog.shared, alog.sent)
    BY <2>1, <2>4, NothingHeld
  <2> QED
    BY <1>1, <2>5, <2>6 DEF AlertsInv, Start
<1>3. CASE ~alert[a].exists
  BY <1>1, <1>3 DEF AlertsInv, Start
<1> QED
  BY <1>2, <1>3

LEMMA AdmitHolds == ASSUME AlertsInv, NEW w \in Workers, Admit(w) PROVE AlertsInv'
<1>1. task[w] \in AlertTask /\ task[w].pc = "admit" /\ task[w].run \in 1..MaxRuns
      /\ run[task[w].run].status \in {"running", "done", "deleted"}
  BY DEF AlertsInv, RunsOwned, Admit, At
<1>2. CASE uses < Quota /\ uses' = uses + 1 /\ task' = [task EXCEPT ![w].pc = "triage"] /\ UNCHANGED run
  <2> DEFINE t == [task[w] EXCEPT !.pc = "triage"]
  <2>1. task' = [task EXCEPT ![w] = t]
    BY <1>2
  <2>2. t \in AlertTask /\ t.run = task[w].run /\ t.fresh = task[w].fresh /\ t.kept = task[w].kept
    BY <1>1 DEF AlertTask
  <2> HIDE DEF t
  <2>3. RunsOwned(task', run)
    BY <1>1, <2>1, <2>2, SameRuns, TaskGoesOn
  <2>4. \A v \in Workers : task'[v].fresh = task[v].fresh /\ task'[v].kept = task[v].kept
    BY <2>1, <2>2 DEF AlertsInv, RunsOwned
  <2>5. OffersHeld(task', shown, alog.shared, alog.sent)
    BY <2>4 DEF AlertsInv, OffersHeld, OfferHeld
  <2>6. uses' \in 0..Quota
    BY <1>2, AlertConstants DEF AlertsInv
  <2> QED
    BY <1>2, <2>3, <2>5, <2>6 DEF AlertsInv, Admit
<1>3. CASE run' = RunIs(w, "skipped") /\ Finish(w) /\ UNCHANGED uses
  <2>1. RunsOwned(task', run')
    BY <1>1, <1>3, RunEnds, TaskIdles DEF Finish
  <2>2. OffersHeld(task', shown, alog.shared, alog.sent)
    BY <1>3, NothingHeld DEF Finish, IdleTask
  <2> QED
    BY <1>3, <2>1, <2>2 DEF AlertsInv, Admit
<1> QED
  BY <1>2, <1>3 DEF Admit

LEMMA TriageHolds == ASSUME AlertsInv, NEW w \in Workers, Triage(w) PROVE AlertsInv'
<1>1. PICK found \in SUBSET Offers :
        /\ task' = [task EXCEPT ![w].fresh = found \ shown, ![w].pc = "score"]
        /\ alog' = [alog EXCEPT !.shared = @ \cup
                {j \in found \ shown : \E v \in Workers \ {w} : j \in task[v].fresh}]
  BY DEF Triage
<1> DEFINE fresh == found \ shown
           t == [task[w] EXCEPT !.fresh = fresh, !.pc = "score"]
           shared == alog.shared \cup {j \in fresh : \E v \in Workers \ {w} : j \in task[v].fresh}
<1>2. task[w] \in AlertTask /\ task[w].pc = "triage" /\ task[w].run \in 1..MaxRuns
      /\ run[task[w].run].status \in {"running", "done", "deleted"}
  BY DEF AlertsInv, RunsOwned, Triage, At
<1>3. task' = [task EXCEPT ![w] = t]
  BY <1>1, <1>2 DEF AlertTask, AlertsInv, RunsOwned
<1>4. t \in AlertTask /\ t.run = task[w].run /\ t.fresh = fresh /\ t.kept = task[w].kept
  BY <1>2 DEF AlertTask
<1>5. alog' \in AlertLog /\ alog'.sent = alog.sent /\ alog'.shared = shared
  BY <1>1 DEF AlertsInv, AlertLog
<1> HIDE DEF t
<1>6. RunsOwned(task', run)
  BY <1>2, <1>3, <1>4, SameRuns, TaskGoesOn
<1>7. /\ task'[w].fresh = fresh /\ task'[w].kept = task[w].kept
      /\ \A v \in Workers \ {w} : task'[v] = task[v]
  BY <1>3, <1>4 DEF AlertsInv, RunsOwned
<1>8. ASSUME NEW j \in Offers \ shared PROVE OfferHeld(j, task', shown, alog.sent[j])
  <2>1. OfferHeld(j, task, shown, alog.sent[j]) /\ alog.sent[j] \in Nat
    BY <1>8 DEF AlertsInv, OffersHeld, AlertLog
  <2>2. j \in fresh => j \notin shown /\ alog.sent[j] = 0 /\ \A v \in Workers \ {w} : j \notin task[v].fresh
    BY <1>8, <2>1 DEF OfferHeld
  <2>3. \A v \in Workers : j \in task'[v].kept <=> j \in task[v].kept
    BY <1>7
  <2>4. \A v \in Workers : j \in task'[v].fresh <=> (v = w /\ j \in fresh) \/ (v # w /\ j \in task[v].fresh)
    BY <1>7
  <2> HIDE DEF fresh, shared
  <2>5. ASSUME NEW v \in Workers, j \in task'[v].fresh
        PROVE  j \notin shown /\ alog.sent[j] = 0 /\ \A x \in Workers : j \in task'[x].fresh => x = v
    BY <2>1, <2>2, <2>4, <2>5 DEF OfferHeld
  <2> QED
    BY <2>1, <2>3, <2>5 DEF OfferHeld
<1>9. OffersHeld(task', shown, alog'.shared, alog'.sent)
  BY <1>5, <1>8 DEF OffersHeld
<1> QED
  BY <1>5, <1>6, <1>9 DEF AlertsInv, Triage

LEMMA ScoreHolds == ASSUME AlertsInv, NEW w \in Workers, Score(w) PROVE AlertsInv'
<1>0. PICK scored \in SUBSET task[w].fresh : \E kept \in SUBSET scored :
         /\ shown' = shown \cup scored
         /\ task' = [task EXCEPT ![w].fresh = {}, ![w].kept = kept, ![w].pc = "keep"]
  BY DEF Score
<1>1. PICK kept \in SUBSET scored :
         /\ shown' = shown \cup scored
         /\ task' = [task EXCEPT ![w].fresh = {}, ![w].kept = kept, ![w].pc = "keep"]
  BY <1>0
<1> DEFINE t == [task[w] EXCEPT !.fresh = {}, !.kept = kept, !.pc = "keep"]
<1>2. task[w] \in AlertTask /\ task[w].pc = "score" /\ task[w].run \in 1..MaxRuns
      /\ run[task[w].run].status \in {"running", "done", "deleted"}
  BY DEF AlertsInv, RunsOwned, Score, At
<1>3. scored \subseteq Offers /\ kept \subseteq scored /\ scored \subseteq task[w].fresh
  BY <1>2 DEF AlertTask
<1>4. task' = [task EXCEPT ![w] = t]
  BY <1>1, <1>2 DEF AlertTask, AlertsInv, RunsOwned
<1>5. t \in AlertTask /\ t.run = task[w].run /\ t.fresh = {} /\ t.kept = kept
  BY <1>2, <1>3 DEF AlertTask
<1> HIDE DEF t
<1>6. RunsOwned(task', run)
  BY <1>2, <1>4, <1>5, SameRuns, TaskGoesOn
<1>7. /\ task'[w].fresh = {} /\ task'[w].kept = kept
      /\ \A v \in Workers : v # w => task'[v] = task[v]
  BY <1>4, <1>5 DEF AlertsInv, RunsOwned
<1>8. ASSUME NEW j \in Offers \ alog.shared PROVE OfferHeld(j, task', shown', alog.sent[j])
  <2>1. OfferHeld(j, task, shown, alog.sent[j])
    BY DEF AlertsInv, OffersHeld
  <2>2. j \in scored => /\ j \notin shown /\ alog.sent[j] = 0
                        /\ \A v \in Workers : v # w => j \notin task[v].fresh
                        /\ \A v \in Workers : j \notin task[v].kept
    BY <1>3, <2>1 DEF OfferHeld
  <2>3. \A v \in Workers : j \in task'[v].fresh <=> v # w /\ j \in task[v].fresh
    BY <1>7
  <2>4. \A v \in Workers : j \in task'[v].kept <=> (v = w /\ j \in kept) \/ (v # w /\ j \in task[v].kept)
    BY <1>7
  <2>5. j \in shown' <=> j \in shown \/ j \in scored
    BY <1>1
  <2>6. j \in kept => j \in scored
    BY <1>3
  <2>7. ASSUME NEW v \in Workers, j \in task'[v].fresh
        PROVE  j \notin shown' /\ alog.sent[j] = 0 /\ \A x \in Workers : j \in task'[x].fresh => x = v
    BY <2>1, <2>2, <2>3, <2>5, <2>7 DEF OfferHeld
  <2>8. ASSUME NEW v \in Workers, j \in task'[v].kept
        PROVE  j \in shown' /\ alog.sent[j] = 0 /\ \A x \in Workers : j \in task'[x].kept => x = v
    BY <2>1, <2>2, <2>4, <2>5, <2>6, <2>8 DEF OfferHeld
  <2> QED
    BY <2>1, <2>5, <2>7, <2>8 DEF OfferHeld
<1>9. OffersHeld(task', shown', alog.shared, alog.sent)
  BY <1>8 DEF OffersHeld
<1>10. shown' \subseteq Offers
  BY <1>1, <1>3 DEF AlertsInv
<1> QED
  BY <1>6, <1>9, <1>10 DEF AlertsInv, Score

LEMMA KeepHolds == ASSUME AlertsInv, NEW w \in Workers, Keep(w) PROVE AlertsInv'
<1>1. task[w] \in AlertTask /\ task[w].pc = "keep" /\ task[w].run \in 1..MaxRuns
      /\ run[task[w].run].status \in {"running", "done", "deleted"} /\ run \in [1..MaxRuns -> RunRow]
  BY DEF AlertsInv, RunsOwned, Keep, At
<1>2. CASE Finish(w) /\ UNCHANGED run
  <2>1. RunsOwned(task', run')
    BY <1>1, <1>2, SameRuns, TaskIdles DEF Finish
  <2>2. OffersHeld(task', shown, alog.shared, alog.sent)
    BY <1>2, NothingHeld DEF Finish, IdleTask
  <2> QED
    BY <2>1, <2>2 DEF AlertsInv, Keep
<1>3. CASE run' = [run EXCEPT ![task[w].run].status = "done", ![task[w].run].jobs = task[w].kept]
  <2>1. RunGoes(task[w].run, run') /\ run'[task[w].run].status = "done"
    BY <1>1, <1>3 DEF RunGoes, RunRow, AlertTask
  <2>2. CASE Finish(w)
    <3>1. RunsOwned(task', run')
      BY <1>1, <2>1, <2>2, TaskIdles DEF Finish
    <3>2. OffersHeld(task', shown, alog.shared, alog.sent)
      BY <2>2, NothingHeld DEF Finish, IdleTask
    <3> QED
      BY <3>1, <3>2 DEF AlertsInv, Keep
  <2>3. CASE task' = [task EXCEPT ![w].pc = "mail"]
    <3> DEFINE t == [task[w] EXCEPT !.pc = "mail"]
    <3>1. task' = [task EXCEPT ![w] = t]
      BY <2>3
    <3>2. t \in AlertTask /\ t.run = task[w].run /\ t.fresh = task[w].fresh /\ t.kept = task[w].kept
      BY <1>1 DEF AlertTask
    <3> HIDE DEF t
    <3>3. RunsOwned(task', run')
      BY <1>1, <2>1, <3>1, <3>2, TaskGoesOn
    <3>4. \A v \in Workers : task'[v].fresh = task[v].fresh /\ task'[v].kept = task[v].kept
      BY <3>1, <3>2 DEF AlertsInv, RunsOwned
    <3>5. OffersHeld(task', shown, alog.shared, alog.sent)
      BY <3>4 DEF AlertsInv, OffersHeld, OfferHeld
    <3> QED
      BY <3>3, <3>5 DEF AlertsInv, Keep
  <2> QED
    BY <1>3, <2>2, <2>3, <1>1 DEF Keep
<1> QED
  BY <1>2, <1>3 DEF Keep

LEMMA MailHolds == ASSUME AlertsInv, NEW w \in Workers, Mail(w) PROVE AlertsInv'
<1>1. task[w] \in AlertTask /\ task[w].pc = "mail" /\ task[w].run \in 1..MaxRuns
      /\ run[task[w].run].status \in {"running", "done", "deleted"} /\ run \in [1..MaxRuns -> RunRow]
  BY DEF AlertsInv, RunsOwned, Mail, At
<1>2. task' = [task EXCEPT ![w] = IdleTask]
  BY DEF Mail, Finish
<1>3. CASE UNCHANGED <<run, alog>>
  <2>1. RunsOwned(task', run')
    BY <1>1, <1>2, <1>3, SameRuns, TaskIdles
  <2>2. OffersHeld(task', shown, alog.shared, alog.sent)
    BY <1>2, NothingHeld DEF IdleTask
  <2> QED
    BY <1>3, <2>1, <2>2 DEF AlertsInv, Mail
<1>4. CASE /\ alog' = [alog EXCEPT !.sent = [j \in Offers |-> IF j \in task[w].kept /\ @[j] < 2
                                                              THEN @[j] + 1 ELSE @[j]]]
           /\ run' = [run EXCEPT ![task[w].run].emailed = (run[task[w].run].status = "done")]
  <2>1. RunGoes(task[w].run, run')
    <3> DEFINE i == task[w].run
               r == [run[i] EXCEPT !.emailed = (run[i].status = "done")]
    <3>1. run' = [run EXCEPT ![i] = r]
      BY <1>4
    <3>2. run[i] \in RunRow /\ (run[i].status = "done") \in BOOLEAN
      BY <1>1
    <3>3. r \in RunRow
      BY <3>2 DEF RunRow
    <3> HIDE DEF r
    <3> QED
      BY <1>1, <3>1, <3>3 DEF RunGoes
  <2>2. RunsOwned(task', run')
    BY <1>1, <1>2, <2>1, TaskIdles
  <2>3. /\ alog' \in AlertLog /\ alog'.shared = alog.shared
        /\ \A j \in Offers : alog'.sent[j] = IF j \in task[w].kept /\ alog.sent[j] < 2
                                             THEN alog.sent[j] + 1 ELSE alog.sent[j]
    BY <1>4 DEF AlertsInv, AlertLog
  <2>4. /\ task'[w].fresh = {} /\ task'[w].kept = {} /\ \A v \in Workers : v # w => task'[v] = task[v]
    BY <1>2 DEF AlertsInv, RunsOwned, IdleTask
  <2>5. ASSUME NEW j \in Offers \ alog.shared PROVE OfferHeld(j, task', shown, alog'.sent[j])
    <3>1. OfferHeld(j, task, shown, alog.sent[j])
      BY DEF AlertsInv, OffersHeld
    <3>2. CASE j \in task[w].kept
      <4>1. j \in shown /\ alog'.sent[j] = 1 /\ \A v \in Workers : v # w => j \notin task[v].kept
        BY <2>3, <3>1, <3>2 DEF OfferHeld
      <4>2. \A v \in Workers : j \notin task[v].fresh
        BY <4>1, <3>1 DEF OfferHeld
      <4> QED
        BY <2>4, <4>1, <4>2 DEF OfferHeld
    <3>3. CASE j \notin task[w].kept
      <4>1. alog'.sent[j] = alog.sent[j]
        BY <2>3, <3>3
      <4>2. \A v \in Workers : /\ j \in task'[v].fresh => j \in task[v].fresh
                               /\ j \in task'[v].kept => j \in task[v].kept
        BY <2>4
      <4> QED
        BY <3>1, <4>1, <4>2 DEF OfferHeld
    <3> QED
      BY <3>2, <3>3
  <2>6. OffersHeld(task', shown, alog'.shared, alog'.sent)
    BY <2>3, <2>5 DEF OffersHeld
  <2> QED
    BY <2>2, <2>3, <2>6 DEF AlertsInv, Mail
<1> QED
  BY <1>3, <1>4 DEF Mail

LEMMA FailHolds == ASSUME AlertsInv, NEW w \in Workers, Fail(w) PROVE AlertsInv'
<1>1. alog' \in AlertLog /\ alog'.sent = alog.sent /\ alog'.shared = alog.shared
  BY FaultNoted DEF AlertsInv, Fail
<1>2. RunsOwned(task', run')
  BY RunEnds, TaskIdles DEF Fail, Finish
<1>3. OffersHeld(task', shown, alog.shared, alog.sent)
  BY NothingHeld DEF Fail, Finish, IdleTask
<1> QED
  BY <1>1, <1>2, <1>3 DEF AlertsInv, Fail

LEMMA CrashHolds == ASSUME AlertsInv, NEW w \in Workers, Crash(w) PROVE AlertsInv'
<1>1. alog' \in AlertLog /\ alog'.sent = alog.sent /\ alog'.shared = alog.shared
  BY FaultNoted DEF AlertsInv, Crash
<1>2. RunsOwned(task', run')
  BY SameRuns, TaskIdles DEF Crash, Finish, At
<1>3. OffersHeld(task', shown, alog.shared, alog.sent)
  BY NothingHeld DEF Crash, Finish, IdleTask
<1> QED
  BY <1>1, <1>2, <1>3 DEF AlertsInv, Crash

LEMMA AlertsStep == ASSUME AlertsInv, AlertsNext PROVE AlertsInv'
<1>1. ASSUME NEW a \in Alerts, (\E on \in BOOLEAN : Save(a, on)) \/ Delete(a) \/ RunNow(a) PROVE AlertsInv'
  BY <1>1, SaveHolds, DeleteHolds, RunNowHolds
<1>2. ASSUME NEW b \in Beats, Beat(b) \/ BeatDies(b) PROVE AlertsInv'
  BY <1>2, BeatReadsHolds, BeatClaimsHolds, BeatReadsAgainHolds, BeatQueuesHolds, BeatDiesHolds DEF Beat
<1>3. ASSUME NEW w \in Workers, (\E a \in Alerts : Start(w, a)) \/ Work(w) \/ Fail(w) \/ Crash(w)
      PROVE  AlertsInv'
  BY <1>3, StartHolds, AdmitHolds, TriageHolds, ScoreHolds, KeepHolds, MailHolds, FailHolds, CrashHolds DEF Work
<1> QED
  BY <1>1, <1>2, <1>3, DayPassesHolds DEF AlertsNext

LEMMA AlertsAreQuiet == ASSUME AlertsInv, UNCHANGED avars PROVE AlertsInv'
  BY DEF AlertsInv, avars

LEMMA AlertsKept == AlertsInv => SentOnce /\ AlertTypeOK
<1> SUFFICES ASSUME AlertsInv PROVE SentOnce /\ AlertTypeOK
  OBVIOUS
<1>1. SentOnce
  BY DEF AlertsInv, SentOnce, OffersHeld, OfferHeld
<1>2. \A b \in Beats : beat[b].pc \in {"idle", "claim", "again", "queue"}
  BY DEF AlertsInv, BeatsRight, BeatRow
<1>3. \A w \in Workers : /\ task[w].pc \in {"idle", "admit", "triage", "score", "keep", "mail"}
                         /\ task[w].pc # "idle" => run[task[w].run].status \in {"running", "done", "deleted"}
  BY DEF AlertsInv, RunsOwned, AlertTask
<1>4. \A a \in Alerts : alert[a].next \in 0..MaxDay + 1 /\ (alert[a].enabled => alert[a].exists)
  BY DEF AlertsInv, AlertRow
<1> QED
  BY <1>1, <1>2, <1>3, <1>4 DEF AlertsInv, AlertTypeOK

THEOREM AlertsAreMailedOnce == AlertsSpec => [](SentOnce /\ AlertTypeOK)
<1>1. AlertsInv /\ [AlertsNext]_avars => AlertsInv'
  BY AlertsStep, AlertsAreQuiet
<1> QED
  BY <1>1, AlertsStart, AlertsKept, PTL DEF AlertsSpec

----------------------------------------------------------------------------
(***************************************************************************)
(* The crawl: the host's counter says what is read, so the crawls and the   *)
(* live checks of a host stay within its slots, for any boards, crawls and  *)
(* deaths.                                                                  *)
(***************************************************************************)

CrawlRow == [pc : {"idle", "enter", "fetch", "search", "write", "queue"}, tag : Seq(Seq(Jobs)), gone : 0..GoneAfter,
             read : SUBSET Jobs, offset : Nat, total : Nat, complete : BOOLEAN,
             answer : {"none", "search", "same", "list", "gone", "error"}, fresh : SUBSET Jobs]
CompanyRow == [active : BOOLEAN, due : BOOLEAN, tag : Seq(Seq(Jobs)), gone : 0..GoneAfter + 1,
               followers : 0..Cardinality(Users), named : BOOLEAN]
CrawlLog == [changes : Nat, deaths : Nat, lost : Nat, hidden : BOOLEAN, outlived : BOOLEAN]
JobRows == [Jobs -> {"none", "open", "closed"}]

\* A company that is on has not been missed too often.
CompanyRight(c) ==
    /\ c \in CompanyRow /\ (c.active => c.gone <= GoneAfter)
    /\ c.tag = NoTag \/ cscene.kind = "etag"

CrawlTables ==
    /\ cscene \in CrawlScene /\ board \in [jobs : Seq(Jobs), gone : BOOLEAN]
    /\ CompanyRight(company) /\ job \in JobRows /\ enabled \in BOOLEAN /\ full \in BOOLEAN
    /\ tick \in {"idle", "queue"} /\ tasks \in 0..Cardinality(Crawlers) /\ matches \subseteq SUBSET Jobs
    /\ crawl \in [Processes -> CrawlRow] /\ clog \in CrawlLog

Reads(r) == r.pc \in {"fetch", "search"}
Readers(rows) == {c \in Processes : Reads(rows[c])}
CrawlReaders(rows) == {c \in Crawlers : Reads(rows[c])}

\* The counter h of the host, with n reading it, m of them crawls.
CounterRight(h, n, m, log) ==
    /\ "slow" \notin cscene.events => h = n + log.lost
    /\ log.outlived \/ (n <= h /\ m <= HostSlots /\ n <= HostSlots + LiveSlots)

SlotsRight(h, rows, log) ==
    h \in Int /\ CounterRight(h, Cardinality(Readers(rows)), Cardinality(CrawlReaders(rows)), log)

CrawlInv == CrawlTables /\ SlotsRight(host, crawl, clog)

\* What became of the jobs that a task carries to the followers.
Carries(c) ==
    /\ \A d \in Processes : d # c => crawl'[d].fresh = crawl[d].fresh
    /\ \/ crawl'[c].fresh \subseteq crawl[c].fresh /\ matches' = matches
       \/ crawl'[c].fresh \subseteq {j \in Jobs : job[j] = "none" /\ job'[j] # "none"} /\ matches' = matches
       \/ crawl'[c].fresh = {} /\ matches' \subseteq matches \cup {crawl[c].fresh}
Carried == (\A j \in Jobs : job[j] # "none" => job'[j] # "none") /\ \E c \in Processes : Carries(c)

----------------------------------------------------------------------------

LEMMA CrawlNumbers ==
    /\ HostSlots \in Nat /\ LiveSlots \in Nat /\ GoneAfter \in Nat /\ MaxJobs \in Nat
    /\ Cardinality(Users) \in Nat /\ Cardinality(Crawlers) \in Nat \ {0}
    /\ IsFiniteSet(Processes) /\ IsFiniteSet(Crawlers) /\ Crawlers \subseteq Processes
    /\ Cardinality(Processes) \in Nat \ {0}
<1>1. IsFiniteSet(Processes) /\ Crawlers \subseteq Processes /\ Crawlers # {} /\ IsFiniteSet(Users)
  BY CrawlConstants, FollowConstants DEF Processes
<1>2. IsFiniteSet(Crawlers) /\ Processes # {}
  BY <1>1, FS_Subset
<1>3. Cardinality(Crawlers) \in Nat /\ Cardinality(Processes) \in Nat /\ Cardinality(Users) \in Nat
      /\ Cardinality(Crawlers) # 0 /\ Cardinality(Processes) # 0
  BY <1>1, <1>2, FS_CardinalityType, FS_EmptySet
<1> QED
  BY <1>1, <1>2, <1>3, CrawlConstants

LEMMA ReadersCounted ==
    ASSUME NEW rows
    PROVE  /\ IsFiniteSet(Readers(rows)) /\ Cardinality(Readers(rows)) \in Nat
           /\ IsFiniteSet(CrawlReaders(rows)) /\ Cardinality(CrawlReaders(rows)) \in Nat
           /\ Cardinality(CrawlReaders(rows)) <= Cardinality(Readers(rows))
<1>1. Readers(rows) \subseteq Processes /\ CrawlReaders(rows) \subseteq Readers(rows)
  BY CrawlNumbers DEF Readers, CrawlReaders
<1> QED
  BY <1>1, CrawlNumbers, FS_Subset, FS_CardinalityType

LEMMA SameReaders ==
    ASSUME NEW rows \in [Processes -> CrawlRow], NEW c \in Processes, NEW s, Reads(s) <=> Reads(rows[c])
    PROVE  /\ Readers([rows EXCEPT ![c] = s]) = Readers(rows)
           /\ CrawlReaders([rows EXCEPT ![c] = s]) = CrawlReaders(rows)
<1> DEFINE new == [rows EXCEPT ![c] = s]
<1>1. \A d \in Processes : new[d] = IF d = c THEN s ELSE rows[d]
  OBVIOUS
<1>2. \A d \in Processes : Reads(new[d]) <=> Reads(rows[d])
  BY <1>1
<1> HIDE DEF new
<1>3. Readers(new) = Readers(rows) /\ CrawlReaders(new) = CrawlReaders(rows)
  BY <1>2, CrawlNumbers DEF Readers, CrawlReaders
<1> QED
  BY <1>3 DEF new

LEMMA MoreReaders ==
    ASSUME NEW rows \in [Processes -> CrawlRow], NEW c \in Processes, NEW s, Reads(s), ~Reads(rows[c])
    PROVE  /\ Cardinality(Readers([rows EXCEPT ![c] = s])) = Cardinality(Readers(rows)) + 1
           /\ c \in Crawlers => Cardinality(CrawlReaders([rows EXCEPT ![c] = s])) = Cardinality(CrawlReaders(rows)) + 1
           /\ c \notin Crawlers => CrawlReaders([rows EXCEPT ![c] = s]) = CrawlReaders(rows)
<1> DEFINE new == [rows EXCEPT ![c] = s]
<1>1. \A d \in Processes : new[d] = IF d = c THEN s ELSE rows[d]
  OBVIOUS
<1>2. \A d \in Processes : Reads(new[d]) <=> d = c \/ Reads(rows[d])
  BY <1>1
<1> HIDE DEF new
<1>3. Readers(new) = Readers(rows) \cup {c} /\ c \notin Readers(rows)
  BY <1>2 DEF Readers
<1>4. c \in Crawlers => CrawlReaders(new) = CrawlReaders(rows) \cup {c} /\ c \notin CrawlReaders(rows)
  BY <1>2, CrawlNumbers DEF CrawlReaders
<1>5. c \notin Crawlers => CrawlReaders(new) = CrawlReaders(rows)
  BY <1>2, CrawlNumbers DEF CrawlReaders
<1>6. Cardinality(Readers(new)) = Cardinality(Readers(rows)) + 1
  BY <1>3, ReadersCounted, FS_AddElement
<1>7. c \in Crawlers => Cardinality(CrawlReaders(new)) = Cardinality(CrawlReaders(rows)) + 1
  BY <1>4, ReadersCounted, FS_AddElement
<1> QED
  BY <1>5, <1>6, <1>7 DEF new

LEMMA FewerReaders ==
    ASSUME NEW rows \in [Processes -> CrawlRow], NEW c \in Processes, NEW s, ~Reads(s), Reads(rows[c])
    PROVE  /\ Cardinality(Readers([rows EXCEPT ![c] = s])) = Cardinality(Readers(rows)) - 1
           /\ Cardinality(CrawlReaders([rows EXCEPT ![c] = s])) <= Cardinality(CrawlReaders(rows))
<1> DEFINE new == [rows EXCEPT ![c] = s]
<1>1. \A d \in Processes : new[d] = IF d = c THEN s ELSE rows[d]
  OBVIOUS
<1>2. \A d \in Processes : Reads(new[d]) <=> d # c /\ Reads(rows[d])
  BY <1>1
<1> HIDE DEF new
<1>3. Readers(new) = Readers(rows) \ {c} /\ c \in Readers(rows)
  BY <1>2 DEF Readers
<1>4. CrawlReaders(new) \subseteq CrawlReaders(rows)
  BY <1>2, CrawlNumbers DEF CrawlReaders
<1>5. Cardinality(Readers(new)) = Cardinality(Readers(rows)) - 1
  BY <1>3, ReadersCounted, FS_RemoveElement
<1>6. Cardinality(CrawlReaders(new)) <= Cardinality(CrawlReaders(rows))
  BY <1>4, ReadersCounted, FS_Subset
<1> QED
  BY <1>5, <1>6 DEF new

\* A crawl goes on that starts no reading and ends none.
LEMMA SlotsStay ==
    ASSUME CrawlInv, NEW c \in Processes, NEW s, Reads(s) <=> Reads(crawl[c]),
           NEW log, log.lost = clog.lost, log.outlived = clog.outlived
    PROVE  SlotsRight(host, [crawl EXCEPT ![c] = s], log)
<1>1. crawl \in [Processes -> CrawlRow]
  BY DEF CrawlInv, CrawlTables
<1> QED
  BY <1>1, SameReaders DEF CrawlInv, SlotsRight, CounterRight

\* A reading that ends gives its slot back.
LEMMA SlotGiven ==
    ASSUME CrawlInv, NEW c \in Processes, NEW s, ~Reads(s), Reads(crawl[c]),
           NEW log, log.lost = clog.lost, log.outlived = clog.outlived
    PROVE  SlotsRight(host - 1, [crawl EXCEPT ![c] = s], log)
<1>1. crawl \in [Processes -> CrawlRow] /\ clog.lost \in Nat
  BY DEF CrawlInv, CrawlTables, CrawlLog
<1>2. /\ Cardinality(Readers([crawl EXCEPT ![c] = s])) = Cardinality(Readers(crawl)) - 1
      /\ Cardinality(CrawlReaders([crawl EXCEPT ![c] = s])) <= Cardinality(CrawlReaders(crawl))
  BY <1>1, FewerReaders
<1>3. /\ Cardinality(Readers(crawl)) \in Nat /\ Cardinality(CrawlReaders(crawl)) \in Nat
      /\ Cardinality(CrawlReaders([crawl EXCEPT ![c] = s])) \in Nat
  BY ReadersCounted
<1> QED
  BY <1>1, <1>2, <1>3, CrawlNumbers DEF CrawlInv, SlotsRight, CounterRight
LEMMA NothingCarried == UNCHANGED <<job, crawl, matches>> => Carried
<1> SUFFICES ASSUME UNCHANGED <<job, crawl, matches>> PROVE Carried
  OBVIOUS
<1>1. PICK c : c \in Processes
  BY CrawlConstants DEF Processes
<1> QED
  BY <1>1 DEF Carried, Carries

LEMMA CrawlCarries ==
    ASSUME CrawlInv, NEW c \in Processes, NEW s, crawl' = [crawl EXCEPT ![c] = s], s.fresh \subseteq crawl[c].fresh,
           matches' = matches, \A j \in Jobs : job[j] # "none" => job'[j] # "none"
    PROVE  Carried
<1>1. Carries(c)
  BY DEF CrawlInv, CrawlTables, Carries
<1> QED
  BY <1>1 DEF Carried

LEMMA IdleRow == Idle \in CrawlRow /\ Idle.fresh = {} /\ ~Reads(Idle) /\ Idle.pc = "idle"
  BY CrawlNumbers DEF Idle, CrawlRow, Reads, NoTag

----------------------------------------------------------------------------
(* What changes no crawl *)

LEMMA SlotsSame ==
    ASSUME CrawlInv, NEW log, log.lost = clog.lost, log.outlived = clog.outlived
    PROVE  SlotsRight(host, crawl, log)
  BY DEF CrawlInv, SlotsRight, CounterRight

LEMMA ChangeNoted ==
    ASSUME CrawlInv, Change
    PROVE  clog' \in CrawlLog /\ clog'.lost = clog.lost /\ clog'.outlived = clog.outlived
  BY DEF CrawlInv, CrawlTables, CrawlLog, Change

LEMMA PostHolds == ASSUME CrawlInv, NEW j \in Jobs, Post(j) PROVE CrawlInv' /\ Carried
<1>1. clog' \in CrawlLog /\ clog'.lost = clog.lost /\ clog'.outlived = clog.outlived
  BY ChangeNoted DEF Post
<1>2. board' \in [jobs : Seq(Jobs), gone : BOOLEAN]
  <2>1. board.jobs \in Seq(Jobs) /\ <<j>> \in Seq(Jobs)
    BY DEF CrawlInv, CrawlTables
  <2>2. <<j>> \o board.jobs \in Seq(Jobs)
    BY <2>1
  <2>3. board' = [board EXCEPT !.jobs = <<j>> \o board.jobs]
    BY DEF Post
  <2> QED
    BY <2>2, <2>3 DEF CrawlInv, CrawlTables
<1>3. SlotsRight(host, crawl, clog')
  BY <1>1, SlotsSame
<1> QED
  BY <1>1, <1>2, <1>3, NothingCarried DEF CrawlInv, CrawlTables, Post, SlotsRight, CounterRight, CompanyRight

LEMMA WithdrawHolds == ASSUME CrawlInv, NEW j \in Jobs, Withdraw(j) PROVE CrawlInv' /\ Carried
<1>1. clog' \in CrawlLog /\ clog'.lost = clog.lost /\ clog'.outlived = clog.outlived
  BY ChangeNoted DEF Withdraw
<1>2. PICK i \in DOMAIN board.jobs : board' = [board EXCEPT !.jobs = RemoveAt(@, i)]
  BY DEF Withdraw
<1>3. board.jobs \in Seq(Jobs) /\ i \in 1..Len(board.jobs) /\ Len(board.jobs) \in Nat
  BY <1>2 DEF CrawlInv, CrawlTables
<1>4. SubSeq(board.jobs, 1, i - 1) \in Seq(Jobs) /\ SubSeq(board.jobs, i + 1, Len(board.jobs)) \in Seq(Jobs)
  BY <1>3
<1>5. RemoveAt(board.jobs, i) \in Seq(Jobs)
  BY <1>4 DEF RemoveAt
<1>6. board' \in [jobs : Seq(Jobs), gone : BOOLEAN]
  BY <1>2, <1>5 DEF CrawlInv, CrawlTables
<1>7. SlotsRight(host, crawl, clog')
  BY <1>1, SlotsSame
<1> QED
  BY <1>1, <1>6, <1>7, NothingCarried DEF CrawlInv, CrawlTables, Withdraw, SlotsRight, CounterRight, CompanyRight

LEMMA EventHolds == ASSUME CrawlInv, PageMoves \/ IndexFills \/ SetPlatform \/ CrawlNow PROVE CrawlInv' /\ Carried
<1>1. clog' \in CrawlLog /\ clog'.lost = clog.lost /\ clog'.outlived = clog.outlived
  BY ChangeNoted DEF PageMoves, IndexFills, SetPlatform, CrawlNow
<1>2. board' \in [jobs : Seq(Jobs), gone : BOOLEAN] /\ full' \in BOOLEAN /\ enabled' \in BOOLEAN
  BY DEF CrawlInv, CrawlTables, PageMoves, IndexFills, SetPlatform, CrawlNow
<1>3. tasks' \in 0..Cardinality(Crawlers)
  BY CrawlNumbers DEF CrawlInv, CrawlTables, PageMoves, IndexFills, SetPlatform, CrawlNow
<1>4. SlotsRight(host, crawl, clog')
  BY <1>1, SlotsSame
<1>5. UNCHANGED <<cscene, company, job, host, tick, matches, crawl>>
  BY DEF PageMoves, IndexFills, SetPlatform, CrawlNow
<1> QED
  BY <1>1, <1>2, <1>3, <1>4, <1>5, NothingCarried DEF CrawlInv, CrawlTables, SlotsRight, CounterRight, CompanyRight

LEMMA SetActiveHolds == ASSUME CrawlInv, SetActive PROVE CrawlInv' /\ Carried
<1>1. clog' \in CrawlLog /\ clog'.lost = clog.lost /\ clog'.outlived = clog.outlived
  <2>1. PICK h \in BOOLEAN : clog' = [clog EXCEPT !.changes = @ + 1, !.hidden = h]
    <3> DEFINE hid == clog.hidden \/ (~company.active /\ company.tag # NoTag)
    <3>1. hid \in BOOLEAN /\ clog' = [clog EXCEPT !.changes = @ + 1, !.hidden = hid]
      BY DEF SetActive
    <3> QED
      BY <3>1, Zenon
  <2>2. clog \in CrawlLog
    BY DEF CrawlInv, CrawlTables
  <2>3. clog.changes + 1 \in Nat
    BY <2>2 DEF CrawlLog
  <2>4. clog' \in CrawlLog
    BY <2>1, <2>2, <2>3 DEF CrawlLog
  <2> QED
    BY <2>1, <2>2, <2>4 DEF CrawlLog
<1>2. CompanyRight(company')
  <2>1. company \in CompanyRow /\ (company.active => company.gone <= GoneAfter)
        /\ (company.tag = NoTag \/ cscene.kind = "etag") /\ cscene' = cscene
    BY DEF CrawlInv, CrawlTables, CompanyRight, SetActive
  <2>2. CASE company.active
    <3>1. company' = [company EXCEPT !.active = FALSE]
      BY <2>2 DEF SetActive
    <3> QED
      BY <2>1, <3>1 DEF CompanyRight, CompanyRow
  <2>3. CASE ~company.active
    <3>1. company' = [company EXCEPT !.active = TRUE, !.gone = 0, !.due = TRUE]
      BY <2>3 DEF SetActive
    <3>2. 0 \in 0..GoneAfter + 1 /\ 0 <= GoneAfter
      BY CrawlNumbers
    <3>3. company' \in CompanyRow /\ company'.gone = 0 /\ company'.tag = company.tag
      BY <2>1, <3>1, <3>2 DEF CompanyRow
    <3> QED
      BY <2>1, <3>2, <3>3 DEF CompanyRight
  <2> QED
    BY <2>2, <2>3
<1>3. SlotsRight(host, crawl, clog')
  BY <1>1, SlotsSame
<1> QED
  BY <1>1, <1>2, <1>3, NothingCarried DEF CrawlInv, CrawlTables, SetActive, SlotsRight, CounterRight, CompanyRight

LEMMA PurgeHolds == ASSUME CrawlInv, NEW j \in Jobs, PurgeClosed(j) PROVE CrawlInv'
<1>1. job' \in JobRows
  BY DEF CrawlInv, CrawlTables, JobRows, PurgeClosed
<1> QED
  BY <1>1 DEF CrawlInv, CrawlTables, PurgeClosed, SlotsRight, CounterRight, CompanyRight

LEMMA TimeHolds == ASSUME CrawlInv, TimePasses \/ TickClaims \/ TickQueues PROVE CrawlInv' /\ Carried
<1>1. CompanyRight(company')
  BY DEF CrawlInv, CrawlTables, CompanyRight, CompanyRow, TimePasses, TickClaims, TickQueues
<1>2. tasks' \in 0..Cardinality(Crawlers) /\ tick' \in {"idle", "queue"}
  <2>1. Crawlers \cap cscene.processes \subseteq Crawlers /\ IsFiniteSet(Crawlers)
    BY CrawlNumbers
  <2>2. Cardinality(Crawlers \cap cscene.processes) <= Cardinality(Crawlers)
        /\ Cardinality(Crawlers \cap cscene.processes) \in Nat /\ Cardinality(Crawlers) \in Nat
    BY <2>1, FS_Subset, FS_CardinalityType
  <2> QED
    BY <2>2 DEF CrawlInv, CrawlTables, TimePasses, TickClaims, TickQueues
<1>3. UNCHANGED <<cscene, board, job, enabled, full, host, matches, crawl, clog>>
  BY DEF TimePasses, TickClaims, TickQueues
<1> QED
  BY <1>1, <1>2, <1>3, NothingCarried DEF CrawlInv, CrawlTables, SlotsRight, CounterRight, CompanyRight

LEMMA TickDiesHolds == ASSUME CrawlInv, TickDies PROVE CrawlInv' /\ Carried
<1>1. clog' \in CrawlLog /\ clog'.lost = clog.lost /\ clog'.outlived = clog.outlived
  BY DEF CrawlInv, CrawlTables, CrawlLog, TickDies
<1>2. SlotsRight(host, crawl, clog')
  BY <1>1, SlotsSame
<1> QED
  BY <1>1, <1>2, NothingCarried DEF CrawlInv, CrawlTables, TickDies, SlotsRight, CounterRight, CompanyRight

LEMMA ExpireHolds == ASSUME CrawlInv, Expire PROVE CrawlInv' /\ Carried
<1> DEFINE read == \E c \in Processes : Reading(c)
<1>1. clog' = [clog EXCEPT !.outlived = @ \/ read] /\ host' = 0 /\ "slow" \in cscene.events
  BY DEF Expire
<1>2. read \in BOOLEAN /\ clog \in CrawlLog
  BY DEF CrawlInv, CrawlTables
<1>3. read \/ Cardinality(Readers(crawl)) = 0
  <2>1. read \/ Readers(crawl) = {}
    BY DEF Readers, Reads, Reading
  <2> QED
    BY <2>1, FS_EmptySet
<1> HIDE DEF read
<1>4. clog' \in CrawlLog /\ (clog'.outlived <=> clog.outlived \/ read)
  BY <1>1, <1>2 DEF CrawlLog
<1>5. SlotsRight(0, crawl, clog')
  <2>1. host \in Int /\ CounterRight(host, Cardinality(Readers(crawl)), Cardinality(CrawlReaders(crawl)), clog)
    BY DEF CrawlInv, SlotsRight
  <2>2. CounterRight(0, Cardinality(Readers(crawl)), Cardinality(CrawlReaders(crawl)), clog')
    BY <1>1, <1>3, <1>4, <2>1 DEF CounterRight
  <2> QED
    BY <2>2 DEF SlotsRight
<1>6. SlotsRight(host', crawl', clog')
  BY <1>1, <1>5 DEF Expire
<1>7. CrawlTables'
  BY <1>4 DEF CrawlInv, CrawlTables, Expire, CompanyRight
<1>8. SlotsRight(host, crawl, clog)'
  BY <1>6, Zenon DEF SlotsRight, CounterRight, Expire, Readers, CrawlReaders
<1> QED
  BY <1>7, <1>8, NothingCarried DEF CrawlInv, Expire

----------------------------------------------------------------------------
(* Crawls *)

\* What a step of a crawl leaves in order besides the crawl.
RestRight ==
    /\ UNCHANGED <<cscene, board, enabled, full>>
    /\ CompanyRight(company') /\ job' \in JobRows /\ tick' \in {"idle", "queue"}
    /\ tasks' \in 0..Cardinality(Crawlers) /\ matches' \subseteq SUBSET Jobs /\ clog' \in CrawlLog

LEMMA CrawlSteps ==
    ASSUME CrawlInv, NEW c \in Processes, NEW s, Step(c, s), s \in CrawlRow, RestRight,
           SlotsRight(host', [crawl EXCEPT ![c] = s], clog')
    PROVE  CrawlInv'
<1>1. crawl' = [crawl EXCEPT ![c] = s]
  BY DEF Step
<1>2. SlotsRight(host', crawl', clog')
  BY <1>1
<1>3. cscene' = cscene
  BY DEF RestRight
<1>4. SlotsRight(host, crawl, clog)'
  BY <1>2, <1>3, Zenon DEF SlotsRight, CounterRight
<1>5. crawl' \in [Processes -> CrawlRow]
  BY <1>1 DEF CrawlInv, CrawlTables
<1> QED
  BY <1>4, <1>5 DEF CrawlInv, CrawlTables, RestRight, CompanyRight

LEMMA CrawlRight ==
    ASSUME CrawlInv, NEW c \in Processes
    PROVE  /\ crawl[c] \in CrawlRow /\ clog \in CrawlLog /\ CompanyRight(company) /\ job \in JobRows
           /\ tick \in {"idle", "queue"} /\ tasks \in 0..Cardinality(Crawlers) /\ matches \subseteq SUBSET Jobs
  BY DEF CrawlInv, CrawlTables

LEMMA NotDue == ASSUME CrawlInv PROVE CompanyRight([company EXCEPT !.due = FALSE])
  BY DEF CrawlInv, CrawlTables, CompanyRight, CompanyRow

LEMMA LoadsHolds ==
    ASSUME CrawlInv, NEW c \in Processes, crawl[c].pc = "idle", Loads(c),
           UNCHANGED <<cscene, board, job, enabled, full, host, tick, matches>>,
           tasks' \in 0..Cardinality(Crawlers), clog' \in CrawlLog, clog'.lost = clog.lost,
           clog'.outlived = clog.outlived
    PROVE  CrawlInv' /\ Carried
<1> DEFINE s == [Idle EXCEPT !.pc = "enter", !.tag = company.tag, !.gone = company.gone]
<1>1. ~Reads(crawl[c])
  BY DEF Reads
<1>2. company.active => s \in CrawlRow /\ s.fresh = {} /\ ~Reads(s)
  <2>1. company.active => company.tag \in Seq(Seq(Jobs)) /\ company.gone \in 0..GoneAfter
    BY CrawlNumbers DEF CrawlInv, CrawlTables, CompanyRight, CompanyRow
  <2> QED
    BY <2>1, IdleRow DEF CrawlRow, Reads, Idle
<1> HIDE DEF s
<1>3. PICK r \in {s, Idle} : Step(c, r) /\ (r = s => company.active)
  <2>1. CASE company.active /\ enabled
    <3>1. Step(c, s)
      BY <2>1 DEF Loads, s
    <3> QED
      BY <2>1, <3>1
  <2>2. CASE ~(company.active /\ enabled)
    <3>1. Step(c, Idle) /\ (Idle = s => FALSE)
      <4>1. s.pc = "enter" /\ Idle.pc = "idle"
        BY DEF s, Idle
      <4> QED
        BY <2>2, <4>1 DEF Loads, Rest
    <3> QED
      BY <3>1
  <2> QED
    BY <2>1, <2>2
<1>4. r \in CrawlRow /\ r.fresh = {} /\ ~Reads(r)
  BY <1>2, <1>3, IdleRow
<1>5. CompanyRight(company')
  BY NotDue DEF Loads, CrawlInv, CrawlTables
<1>6. RestRight
  BY <1>5, CrawlRight DEF RestRight
<1>7. SlotsRight(host', [crawl EXCEPT ![c] = r], clog')
  BY <1>1, <1>4, SlotsStay
<1>8. Carried
  BY <1>3, <1>4, CrawlCarries DEF Step
<1> QED
  BY <1>3, <1>4, <1>6, <1>7, <1>8, CrawlSteps

LEMMA TakeHolds == ASSUME CrawlInv, NEW c \in Processes, Take(c) PROVE CrawlInv' /\ Carried
<1>1. tasks' \in 0..Cardinality(Crawlers) /\ clog' = clog /\ clog \in CrawlLog
  BY CrawlNumbers DEF CrawlInv, CrawlTables, Take
<1> QED
  BY <1>1, LoadsHolds DEF Take

LEMMA CheckLiveHolds == ASSUME CrawlInv, NEW c \in Processes, CheckLive(c) PROVE CrawlInv' /\ Carried
<1>1. tasks' \in 0..Cardinality(Crawlers)
  BY DEF CrawlInv, CrawlTables, CheckLive
<1>2. clog' \in CrawlLog /\ clog'.lost = clog.lost /\ clog'.outlived = clog.outlived
  BY ChangeNoted DEF CheckLive
<1> QED
  BY <1>1, <1>2, LoadsHolds DEF CheckLive

LEMMA SearchLiveHolds == ASSUME CrawlInv, NEW c \in Processes, SearchLive(c) PROVE CrawlInv' /\ Carried
<1> DEFINE s == [Idle EXCEPT !.pc = "enter", !.answer = "search"]
<1>1. s \in CrawlRow /\ s.fresh = {} /\ ~Reads(s) /\ ~Reads(crawl[c])
  BY IdleRow DEF CrawlRow, Reads, SearchLive, Idle
<1>2. clog' \in CrawlLog /\ clog'.lost = clog.lost /\ clog'.outlived = clog.outlived
  BY ChangeNoted DEF SearchLive
<1>3. Step(c, s)
  BY DEF SearchLive
<1> HIDE DEF s
<1>4. RestRight
  BY <1>2, CrawlRight DEF RestRight, SearchLive
<1>5. SlotsRight(host', [crawl EXCEPT ![c] = s], clog')
  BY <1>1, <1>2, SlotsStay DEF SearchLive
<1>6. Carried
  BY <1>1, <1>3, CrawlCarries DEF Step, SearchLive
<1> QED
  BY <1>1, <1>3, <1>4, <1>5, <1>6, CrawlSteps

LEMMA EnterHolds == ASSUME CrawlInv, NEW c \in Processes, Enter(c) PROVE CrawlInv' /\ Carried
<1> DEFINE s == [crawl[c] EXCEPT !.pc = IF crawl[c].answer = "search" THEN "search" ELSE "fetch"]
<1>1. crawl[c] \in CrawlRow
  BY CrawlRight
<1>2. s \in CrawlRow /\ s.fresh = crawl[c].fresh /\ Reads(s) /\ ~Reads(crawl[c])
  BY <1>1 DEF CrawlRow, Reads, Enter
<1>3. Step(c, s) /\ host' = host + 1 /\ host < Limit(c)
      /\ UNCHANGED <<cscene, board, company, job, enabled, full, tick, tasks, matches, clog>>
  BY DEF Enter
<1> HIDE DEF s
<1>4. RestRight
  BY <1>3, CrawlRight DEF RestRight
<1>5. SlotsRight(host + 1, [crawl EXCEPT ![c] = s], clog)
  <2> DEFINE new == [crawl EXCEPT ![c] = s]
             n == Cardinality(Readers(crawl))
             m == Cardinality(CrawlReaders(crawl))
  <2>1. /\ Cardinality(Readers(new)) = n + 1
        /\ c \in Crawlers => Cardinality(CrawlReaders(new)) = m + 1
        /\ c \notin Crawlers => Cardinality(CrawlReaders(new)) = m
    BY <1>2, MoreReaders DEF CrawlInv, CrawlTables
  <2>2. n \in Nat /\ m \in Nat /\ m <= n
    BY ReadersCounted
  <2>3. c \in Crawlers => host < HostSlots
    BY <1>3, CrawlConstants DEF Limit
  <2>4. host < HostSlots + LiveSlots
    BY <1>3, CrawlNumbers DEF Limit, CrawlInv, SlotsRight
  <2>5. host \in Int /\ CounterRight(host, n, m, clog) /\ clog.lost \in Nat
    BY CrawlRight DEF CrawlInv, SlotsRight, CrawlLog
  <2> HIDE DEF new, n, m
  <2>6. CounterRight(host + 1, Cardinality(Readers(new)), Cardinality(CrawlReaders(new)), clog)
    BY <2>1, <2>2, <2>3, <2>4, <2>5, CrawlNumbers DEF CounterRight
  <2> QED
    BY <2>5, <2>6 DEF SlotsRight, new
<1>6. Carried
  BY <1>2, <1>3, CrawlCarries DEF Step
<1> QED
  BY <1>2, <1>3, <1>4, <1>5, <1>6, CrawlSteps

LEMMA RefuseHolds == ASSUME CrawlInv, NEW c \in Processes, Refuse(c) PROVE CrawlInv' /\ Carried
<1>1. CompanyRight(company')
  BY NotDue, CrawlRight DEF Refuse
<1>2. Step(c, Idle) /\ ~Reads(crawl[c])
      /\ UNCHANGED <<cscene, board, job, enabled, full, host, tick, tasks, matches, clog>>
  BY DEF Refuse, Rest, Reads
<1>3. RestRight
  BY <1>1, <1>2, CrawlRight DEF RestRight
<1>4. SlotsRight(host', [crawl EXCEPT ![c] = Idle], clog')
  BY <1>2, IdleRow, SlotsStay
<1>5. Carried
  BY <1>2, IdleRow, CrawlCarries DEF Step
<1> QED
  BY <1>2, <1>3, <1>4, <1>5, IdleRow, CrawlSteps

----------------------------------------------------------------------------
(* What a crawl reads *)

\* A crawl reads on and its slot stays, or its answer is in and it gives its slot back.
LEMMA ReadOn ==
    ASSUME CrawlInv, NEW c \in Processes, NEW s \in CrawlRow, Step(c, s), s.fresh = crawl[c].fresh,
           Reads(s), Reads(crawl[c]), UNCHANGED <<cscene, board, company, job, enabled, full, host, tick, tasks, matches, clog>>
    PROVE  CrawlInv' /\ Carried
<1>1. RestRight
  BY CrawlRight DEF RestRight
<1>2. SlotsRight(host', [crawl EXCEPT ![c] = s], clog')
  BY SlotsStay
<1>3. Carried
  BY CrawlCarries DEF Step
<1> QED
  BY <1>1, <1>2, <1>3, CrawlSteps

LEMMA ReadDone ==
    ASSUME CrawlInv, NEW c \in Processes, NEW s \in CrawlRow, Step(c, s), s.fresh \subseteq crawl[c].fresh,
           ~Reads(s), Reads(crawl[c]), host' = host - 1,
           UNCHANGED <<cscene, board, company, job, enabled, full, tick, tasks, matches>>,
           clog' \in CrawlLog, clog'.lost = clog.lost, clog'.outlived = clog.outlived
    PROVE  CrawlInv' /\ Carried
<1>1. RestRight
  BY CrawlRight DEF RestRight
<1>2. SlotsRight(host', [crawl EXCEPT ![c] = s], clog')
  BY SlotGiven
<1>3. Carried
  BY CrawlCarries DEF Step
<1> QED
  BY <1>1, <1>2, <1>3, CrawlSteps

LEMMA ListedJobs == ASSUME CrawlInv PROVE Listed \subseteq Jobs /\ board.jobs \in Seq(Jobs)
<1>1. board.jobs \in Seq(Jobs)
  BY DEF CrawlInv, CrawlTables
<1>2. \A i \in DOMAIN board.jobs : board.jobs[i] \in Jobs
  BY <1>1
<1> QED
  BY <1>1, <1>2 DEF Listed, ToSet

LEMMA AnsweredHolds ==
    ASSUME CrawlInv, NEW c \in Processes, Reads(crawl[c]), NEW read, read \subseteq Jobs,
           NEW answer \in {"same", "gone", "search"}, Answered(c, answer, read)
    PROVE  CrawlInv' /\ Carried
<1> DEFINE s == [crawl[c] EXCEPT !.pc = "write", !.answer = answer, !.read = read]
<1>1. s \in CrawlRow /\ s.fresh = crawl[c].fresh /\ ~Reads(s)
  BY CrawlRight DEF CrawlRow, Reads
<1>2. Step(c, s) /\ host' = host - 1
      /\ UNCHANGED <<cscene, board, company, job, enabled, full, tick, tasks, matches, clog>>
  BY DEF Answered
<1> HIDE DEF s
<1> QED
  BY <1>1, <1>2, CrawlRight, ReadDone

LEMMA FetchListHolds == ASSUME CrawlInv, NEW c \in Processes, FetchList(c) PROVE CrawlInv' /\ Carried
<1>1. PICK read \in Capped(Listed) :
         Step(c, [crawl[c] EXCEPT !.pc = "write", !.answer = "list", !.read = read,
                                  !.tag = Tag(board.jobs), !.complete = (read = Listed)])
  BY DEF FetchList
<1> DEFINE s == [crawl[c] EXCEPT !.pc = "write", !.answer = "list", !.read = read,
                                  !.tag = Tag(board.jobs), !.complete = (read = Listed)]
<1>2. read \subseteq Jobs /\ Tag(board.jobs) \in Seq(Seq(Jobs)) /\ (read = Listed) \in BOOLEAN
  BY ListedJobs DEF Capped, Tag
<1>3. crawl[c] \in CrawlRow
  BY CrawlRight
<1>4. s \in CrawlRow /\ s.fresh = crawl[c].fresh /\ ~Reads(s)
  BY <1>2, <1>3 DEF CrawlRow, Reads
<1>5. Reads(crawl[c]) /\ host' = host - 1
      /\ UNCHANGED <<cscene, board, company, job, enabled, full, tick, tasks, matches, clog>>
  BY DEF FetchList, Asks304, Reads
<1> HIDE DEF s
<1> QED
  BY <1>1, <1>4, <1>5, CrawlRight, ReadDone DEF s

LEMMA PageRight ==
    ASSUME CrawlInv, NEW c \in Processes
    PROVE  PageRead(c) \in CrawlRow /\ PageRead(c).fresh = crawl[c].fresh /\ PageRead(c).pc = crawl[c].pc
<1> DEFINE read == crawl[c].read \cup {board.jobs[i] : i \in {crawl[c].offset + 1} \cap DOMAIN board.jobs}
           offset == crawl[c].offset + 1
           total == IF crawl[c].total = 0 THEN Len(board.jobs) ELSE crawl[c].total
<1>1. crawl[c] \in CrawlRow
  BY CrawlRight
<1>2. read \subseteq Jobs /\ offset \in Nat /\ total \in Nat
  <2>1. board.jobs \in Seq(Jobs)
    BY ListedJobs
  <2>2. \A i \in DOMAIN board.jobs : board.jobs[i] \in Jobs
    BY <2>1
  <2>3. crawl[c].read \subseteq Jobs /\ crawl[c].offset \in Nat /\ crawl[c].total \in Nat
    BY <1>1 DEF CrawlRow
  <2>4. Len(board.jobs) \in Nat
    BY <2>1
  <2> QED
    BY <2>2, <2>3, <2>4
<1>3. PageRead(c) = [crawl[c] EXCEPT !.read = read, !.offset = offset, !.total = total]
  BY DEF PageRead
<1> HIDE DEF read, offset, total
<1> QED
  BY <1>1, <1>2, <1>3 DEF CrawlRow

LEMMA FetchPageHolds == ASSUME CrawlInv, NEW c \in Processes, FetchPage(c) PROVE CrawlInv' /\ Carried
<1>1. Reads(crawl[c]) /\ Reads(PageRead(c))
  BY PageRight DEF FetchPage, Reads
<1> QED
  BY <1>1, PageRight, ReadOn DEF FetchPage

LEMMA FetchLastPageHolds == ASSUME CrawlInv, NEW c \in Processes, FetchLastPage(c) PROVE CrawlInv' /\ Carried
<1> DEFINE next == PageRead(c)
           s == [next EXCEPT !.pc = "write", !.answer = "list", !.offset = 0, !.total = 0,
                            !.complete = next.total <= MaxJobs]
<1>1. next \in CrawlRow /\ next.fresh = crawl[c].fresh
  BY PageRight
<1>2. Step(c, s) /\ Reads(crawl[c]) /\ host' = host - 1
      /\ UNCHANGED <<cscene, board, company, job, enabled, full, tick, tasks, matches, clog>>
  BY DEF FetchLastPage, Reads
<1>3. (next.total <= MaxJobs) \in BOOLEAN
  OBVIOUS
<1> HIDE DEF next
<1>4. s \in CrawlRow /\ s.fresh = crawl[c].fresh /\ ~Reads(s)
  BY <1>1, <1>3 DEF CrawlRow, Reads
<1> HIDE DEF s
<1> QED
  BY <1>2, <1>4, CrawlRight, ReadDone

LEMMA FetchFailsHolds == ASSUME CrawlInv, NEW c \in Processes, FetchFails(c) PROVE CrawlInv' /\ Carried
<1> DEFINE s == [crawl[c] EXCEPT !.pc = "write", !.answer = "error"]
<1>1. s \in CrawlRow /\ s.fresh = crawl[c].fresh /\ ~Reads(s)
  BY CrawlRight DEF CrawlRow, Reads
<1>2. clog' \in CrawlLog /\ clog'.lost = clog.lost /\ clog'.outlived = clog.outlived
  BY CrawlRight DEF FetchFails, CrawlLog
<1>3. Step(c, s) /\ Reads(crawl[c]) /\ host' = host - 1
      /\ UNCHANGED <<cscene, board, company, job, enabled, full, tick, tasks, matches>>
  BY DEF FetchFails, Reads
<1> HIDE DEF s
<1> QED
  BY <1>1, <1>2, <1>3, ReadDone

LEMMA FetchSearchHolds == ASSUME CrawlInv, NEW c \in Processes, FetchSearch(c) PROVE CrawlInv' /\ Carried
<1>1. Reads(crawl[c])
  BY DEF FetchSearch, Reads
<1>2. CASE board.gone
  <2>1. Step(c, Idle) /\ host' = host - 1
        /\ UNCHANGED <<cscene, board, company, job, enabled, full, tick, tasks, matches, clog>>
    BY <1>2 DEF FetchSearch, Rest
  <2> QED
    BY <1>1, <2>1, IdleRow, CrawlRight, ReadDone
<1>3. CASE ~board.gone
  <2>1. PICK read \in SUBSET Listed : Answered(c, "search", read)
    BY <1>3 DEF FetchSearch
  <2>2. read \subseteq Jobs
    BY <2>1, ListedJobs
  <2> QED
    BY <1>1, <2>1, <2>2, AnsweredHolds
<1> QED
  BY <1>2, <1>3

LEMMA FetchSameHolds == ASSUME CrawlInv, NEW c \in Processes, FetchSame(c) \/ FetchGone(c) PROVE CrawlInv' /\ Carried
<1>1. Reads(crawl[c]) /\ {} \subseteq Jobs
  BY DEF FetchSame, FetchGone, Asks304, Reads
<1> QED
  BY <1>1, AnsweredHolds DEF FetchSame, FetchGone

----------------------------------------------------------------------------
(* What a crawl writes *)

LEMMA WriteStep ==
    ASSUME CrawlInv, NEW c \in Processes, NEW s \in CrawlRow, Step(c, s), ~Reads(s), ~Reads(crawl[c]),
           RestRight, host' = host, clog'.lost = clog.lost, clog'.outlived = clog.outlived
    PROVE  CrawlInv'
<1>1. SlotsRight(host', [crawl EXCEPT ![c] = s], clog')
  BY SlotsStay
<1> QED
  BY <1>1, CrawlSteps

LEMMA JobsUpserted ==
    ASSUME CrawlInv, NEW read, read \subseteq Jobs, NEW closed, closed \subseteq OpenJobs, job' = Upserted(read, closed)
    PROVE  /\ job' \in JobRows /\ \A j \in Jobs : job[j] # "none" => job'[j] # "none"
           /\ Fresh(read) \subseteq {j \in Jobs : job[j] = "none" /\ job'[j] # "none"}
<1>1. job \in JobRows
  BY DEF CrawlInv, CrawlTables
<1>2. \A j \in Jobs : job'[j] = CASE j \in closed -> "closed"
                                  [] j \in read /\ (job[j] # "none" \/ ~full) -> "open"
                                  [] OTHER -> job[j]
  BY DEF Upserted
<1>3. job' \in [Jobs -> {"none", "open", "closed"}]
  <2>1. \A j \in Jobs : job[j] \in {"none", "open", "closed"}
    BY <1>1 DEF JobRows
  <2> QED
    BY <2>1 DEF Upserted
<1>4. \A j \in Jobs : j \in closed => job[j] = "open"
  BY DEF OpenJobs
<1>5. \A j \in Jobs : job[j] # "none" => job'[j] # "none"
  BY <1>2
<1>6. Fresh(read) \subseteq {j \in Jobs : job[j] = "none" /\ job'[j] # "none"}
  BY <1>2, <1>4 DEF Fresh
<1> QED
  BY <1>3, <1>5, <1>6 DEF JobRows

LEMMA ClosingOpen == ASSUME NEW c \in Processes, NEW closed \in Closing(c) PROVE closed \subseteq OpenJobs
  BY DEF Closing

LEMMA WriteListHolds == ASSUME CrawlInv, NEW c \in Processes, WriteList(c) PROVE CrawlInv' /\ Carried
<1> DEFINE read == crawl[c].read
           row == [Idle EXCEPT !.pc = "queue", !.fresh = Fresh(read)]
<1>1. crawl[c] \in CrawlRow /\ read \subseteq Jobs /\ ~Reads(crawl[c])
  BY CrawlRight DEF CrawlRow, WriteList, Reads
<1>2. PICK closed \in Closing(c) : job' = Upserted(read, closed)
  BY DEF WriteList
<1>3. /\ job' \in JobRows /\ \A j \in Jobs : job[j] # "none" => job'[j] # "none"
      /\ Fresh(read) \subseteq {j \in Jobs : job[j] = "none" /\ job'[j] # "none"}
  BY <1>1, <1>2, ClosingOpen, JobsUpserted
<1>4. CompanyRight(company')
  <2>1. PICK named \in {TRUE, company.named} :
           company' = [company EXCEPT !.due = FALSE, !.gone = Recovered(c), !.named = named,
                                      !.tag = IF cscene.kind = "etag" THEN crawl[c].tag ELSE NoTag]
    BY DEF WriteList
  <2> DEFINE gone == Recovered(c)
             tag == IF cscene.kind = "etag" THEN crawl[c].tag ELSE NoTag
  <2>2. company \in CompanyRow /\ (company.active => company.gone <= GoneAfter) /\ cscene' = cscene
    BY CrawlRight DEF CompanyRight, WriteList
  <2>3. tag \in Seq(Seq(Jobs)) /\ (tag = NoTag \/ cscene.kind = "etag")
    BY <1>1 DEF CrawlRow, NoTag
  <2>4. gone \in 0..GoneAfter + 1 /\ (company.active => gone <= GoneAfter)
    BY <2>2, CrawlNumbers DEF Recovered, CompanyRow
  <2>5. named \in BOOLEAN
    BY <2>1, <2>2 DEF CompanyRow
  <2>6. company' = [company EXCEPT !.due = FALSE, !.gone = gone, !.named = named, !.tag = tag]
    BY <2>1
  <2> HIDE DEF gone, tag
  <2>7. company' \in CompanyRow /\ company'.gone = gone /\ company'.tag = tag /\ company'.active = company.active
    BY <2>2, <2>3, <2>4, <2>5, <2>6 DEF CompanyRow
  <2> QED
    BY <2>2, <2>3, <2>4, <2>7 DEF CompanyRight
<1>5. clog' \in CrawlLog /\ clog'.lost = clog.lost /\ clog'.outlived = clog.outlived
  <2> DEFINE hid == full /\ \E j \in read : job[j] = "none"
  <2>1. clog' = [clog EXCEPT !.hidden = hid] /\ clog \in CrawlLog /\ hid \in BOOLEAN
    BY CrawlRight DEF WriteList
  <2> HIDE DEF hid
  <2> QED
    BY <2>1 DEF CrawlLog
<1>6. UNCHANGED <<cscene, board, enabled, full, host, tick, tasks, matches>>
  BY DEF WriteList
<1>7. RestRight
  BY <1>3, <1>4, <1>5, <1>6, CrawlRight DEF RestRight
<1>8. row \in CrawlRow /\ row.fresh = Fresh(read) /\ ~Reads(row)
  <2>1. Fresh(read) \subseteq Jobs
    BY <1>3
  <2> QED
    BY <2>1, IdleRow DEF CrawlRow, Reads, Idle
<1> HIDE DEF row
<1>9. CASE Fresh(read) = {}
  <2>1. Step(c, Idle)
    BY <1>9 DEF WriteList, Rest
  <2>2. CrawlInv'
    BY <1>1, <1>5, <1>6, <1>7, <2>1, IdleRow, WriteStep
  <2>3. Carried
    BY <1>3, <1>6, <2>1, IdleRow, CrawlCarries DEF Step
  <2> QED
    BY <2>2, <2>3
<1>10. CASE Fresh(read) # {}
  <2>1. Step(c, row)
    BY <1>10 DEF WriteList, row
  <2>2. CrawlInv'
    BY <1>1, <1>5, <1>6, <1>7, <1>8, <2>1, WriteStep
  <2>3. crawl' = [crawl EXCEPT ![c] = row] /\ crawl \in [Processes -> CrawlRow]
    BY <2>1 DEF Step, CrawlInv, CrawlTables
  <2>4. crawl'[c].fresh = Fresh(read) /\ \A d \in Processes : d # c => crawl'[d].fresh = crawl[d].fresh
    BY <1>8, <2>3
  <2>5. Carries(c)
    BY <1>3, <1>6, <2>4 DEF Carries
  <2> QED
    BY <1>3, <2>2, <2>5 DEF Carried
<1> QED
  BY <1>9, <1>10

LEMMA WriteSameHolds == ASSUME CrawlInv, NEW c \in Processes, WriteSame(c) PROVE CrawlInv' /\ Carried
<1>1. ~Reads(crawl[c]) /\ Step(c, Idle)
      /\ UNCHANGED <<cscene, board, job, enabled, full, host, tick, tasks, matches>>
  BY DEF WriteSame, Reads, Rest
<1>2. CompanyRight(company')
  <2> DEFINE gone == Recovered(c)
             tag == IF company.named THEN company.tag ELSE NoTag
  <2>1. company \in CompanyRow /\ (company.active => company.gone <= GoneAfter) /\ cscene' = cscene
        /\ (company.tag = NoTag \/ cscene.kind = "etag")
    BY CrawlRight DEF CompanyRight, WriteSame
  <2>2. tag \in Seq(Seq(Jobs)) /\ (tag = NoTag \/ cscene.kind = "etag")
    BY <2>1 DEF CompanyRow, NoTag
  <2>3. gone \in 0..GoneAfter + 1 /\ (company.active => gone <= GoneAfter)
    BY <2>1, CrawlNumbers DEF Recovered, CompanyRow
  <2>4. company' = [company EXCEPT !.due = FALSE, !.gone = gone, !.tag = tag]
    BY DEF WriteSame
  <2> HIDE DEF gone, tag
  <2>5. company' \in CompanyRow /\ company'.gone = gone /\ company'.tag = tag /\ company'.active = company.active
    BY <2>1, <2>2, <2>3, <2>4 DEF CompanyRow
  <2> QED
    BY <2>1, <2>2, <2>3, <2>5 DEF CompanyRight
<1>3. clog' \in CrawlLog /\ clog'.lost = clog.lost /\ clog'.outlived = clog.outlived
  <2> DEFINE hid == clog.hidden /\ company.named
  <2>1. clog' = [clog EXCEPT !.hidden = hid] /\ clog \in CrawlLog /\ hid \in BOOLEAN
    BY CrawlRight DEF WriteSame, CompanyRight, CompanyRow
  <2> HIDE DEF hid
  <2> QED
    BY <2>1 DEF CrawlLog
<1>4. RestRight
  BY <1>1, <1>2, <1>3, CrawlRight DEF RestRight
<1>5. Carried
  BY <1>1, IdleRow, CrawlCarries DEF Step
<1> QED
  BY <1>1, <1>3, <1>4, <1>5, IdleRow, WriteStep

LEMMA WriteGoneHolds == ASSUME CrawlInv, NEW c \in Processes, WriteGone(c) PROVE CrawlInv' /\ Carried
<1> DEFINE gone == crawl[c].gone + 1
<1>1. ~Reads(crawl[c]) /\ Step(c, Idle)
      /\ UNCHANGED <<cscene, board, enabled, full, host, tick, tasks, matches, clog>>
  BY DEF WriteGone, Reads, Rest
<1>2. gone \in 0..GoneAfter + 1
  BY CrawlRight, CrawlNumbers DEF CrawlRow
<1>3. company \in CompanyRow /\ (company.tag = NoTag \/ cscene.kind = "etag")
  BY CrawlRight DEF CompanyRight
<1>4. CompanyRight(company') /\ job' \in JobRows /\ \A j \in Jobs : job[j] # "none" => job'[j] # "none"
  <2>1. CASE gone >= GoneAfter
    <3>1. company' = [company EXCEPT !.gone = gone, !.active = FALSE]
          /\ job' = [j \in Jobs |-> IF job[j] = "open" THEN "closed" ELSE job[j]]
      BY <2>1 DEF WriteGone
    <3>2. job' \in JobRows /\ \A j \in Jobs : job[j] # "none" => job'[j] # "none"
      BY <3>1, CrawlRight DEF JobRows
    <3> HIDE DEF gone
    <3>3. company' \in CompanyRow /\ ~company'.active /\ company'.tag = company.tag
      BY <1>2, <1>3, <3>1 DEF CompanyRow
    <3> QED
      BY <1>1, <1>3, <3>2, <3>3 DEF CompanyRight
  <2>2. CASE ~(gone >= GoneAfter)
    <3>1. company' = [company EXCEPT !.gone = gone, !.due = FALSE] /\ job' = job
      BY <2>2 DEF WriteGone
    <3>2. gone <= GoneAfter
      BY <1>2, <2>2, CrawlNumbers
    <3> HIDE DEF gone
    <3>3. company' \in CompanyRow /\ company'.gone = gone /\ company'.tag = company.tag
      BY <1>2, <1>3, <3>1 DEF CompanyRow
    <3> QED
      BY <1>1, <1>3, <3>1, <3>2, <3>3, CrawlRight DEF CompanyRight
  <2> QED
    BY <2>1, <2>2
<1>5. RestRight
  BY <1>1, <1>4, CrawlRight DEF RestRight
<1>6. Carried
  BY <1>1, <1>4, IdleRow, CrawlCarries DEF Step
<1> QED
  BY <1>1, <1>5, <1>6, IdleRow, WriteStep

LEMMA WriteFailedHolds == ASSUME CrawlInv, NEW c \in Processes, WriteFailed(c) PROVE CrawlInv' /\ Carried
<1>1. ~Reads(crawl[c]) /\ Step(c, Idle) /\ company' = [company EXCEPT !.due = FALSE]
      /\ UNCHANGED <<cscene, board, job, enabled, full, host, tick, tasks, matches, clog>>
  BY DEF WriteFailed, Reads, Rest
<1>2. CompanyRight(company')
  BY <1>1, NotDue
<1>3. RestRight
  BY <1>1, <1>2, CrawlRight DEF RestRight
<1>4. Carried
  BY <1>1, IdleRow, CrawlCarries DEF Step
<1> QED
  BY <1>1, <1>3, <1>4, IdleRow, WriteStep

LEMMA WriteSearchHolds == ASSUME CrawlInv, NEW c \in Processes, WriteSearch(c) PROVE CrawlInv' /\ Carried
<1>1. ~Reads(crawl[c]) /\ Step(c, Idle) /\ job' = Upserted(crawl[c].read, {})
      /\ UNCHANGED <<cscene, board, company, enabled, full, host, tick, tasks, matches, clog>>
  BY DEF WriteSearch, Reads, Rest
<1>2. crawl[c].read \subseteq Jobs /\ {} \subseteq OpenJobs
  BY CrawlRight DEF CrawlRow
<1>3. job' \in JobRows /\ \A j \in Jobs : job[j] # "none" => job'[j] # "none"
  BY <1>1, <1>2, JobsUpserted
<1>4. RestRight
  BY <1>1, <1>3, CrawlRight DEF RestRight
<1>5. Carried
  BY <1>1, <1>3, IdleRow, CrawlCarries DEF Step
<1> QED
  BY <1>1, <1>4, <1>5, IdleRow, WriteStep

LEMMA QueueMatchHolds == ASSUME CrawlInv, NEW c \in Processes, QueueMatch(c) PROVE CrawlInv' /\ Carried
<1>1. ~Reads(crawl[c]) /\ Step(c, Idle)
      /\ UNCHANGED <<cscene, board, company, job, enabled, full, host, tick, tasks, clog>>
  BY DEF QueueMatch, Reads, Rest
<1>2. matches' \subseteq matches \cup {crawl[c].fresh}
  BY DEF QueueMatch
<1>3. matches' \subseteq SUBSET Jobs
  BY <1>2, CrawlRight DEF CrawlRow
<1>4. RestRight
  BY <1>1, <1>3, CrawlRight DEF RestRight
<1>5. crawl'[c].fresh = {} /\ \A d \in Processes : d # c => crawl'[d].fresh = crawl[d].fresh
  BY <1>1, IdleRow DEF Step, CrawlInv, CrawlTables
<1>6. Carried
  BY <1>1, <1>2, <1>5 DEF Carried, Carries
<1> QED
  BY <1>1, <1>4, <1>6, IdleRow, WriteStep

LEMMA DieHolds == ASSUME CrawlInv, NEW c \in Processes, Die(c) PROVE CrawlInv' /\ Carried
<1> DEFINE more == IF Reading(c) THEN 1 ELSE 0
<1>1. Step(c, Idle) /\ clog' = [clog EXCEPT !.deaths = clog.deaths + 1, !.lost = clog.lost + more]
      /\ UNCHANGED <<cscene, board, company, job, enabled, full, host, tick, tasks, matches>>
  BY DEF Die, Rest
<1>2. clog \in CrawlLog /\ clog.deaths + 1 \in Nat /\ clog.lost \in Nat /\ clog.lost + more \in Nat
  BY CrawlRight DEF CrawlLog
<1>3. more = IF Reads(crawl[c]) THEN 1 ELSE 0
  BY DEF Reading, Reads
<1> HIDE DEF more
<1>4. clog' \in CrawlLog /\ clog'.lost = clog.lost + more /\ clog'.outlived = clog.outlived
  BY <1>1, <1>2 DEF CrawlLog
<1>5. RestRight
  BY <1>1, <1>4, CrawlRight DEF RestRight
<1>6. SlotsRight(host', [crawl EXCEPT ![c] = Idle], clog')
  <2>1. CASE ~Reads(crawl[c])
    <3>1. clog'.lost = clog.lost /\ clog'.outlived = clog.outlived /\ host' = host
      BY <1>1, <1>2, <1>3, <1>4, <2>1
    <3> QED
      BY <2>1, <3>1, IdleRow, SlotsStay
  <2>2. CASE Reads(crawl[c])
    <3> DEFINE new == [crawl EXCEPT ![c] = Idle]
    <3>1. /\ Cardinality(Readers(new)) = Cardinality(Readers(crawl)) - 1
          /\ Cardinality(CrawlReaders(new)) <= Cardinality(CrawlReaders(crawl))
      BY <2>2, IdleRow, FewerReaders DEF CrawlInv, CrawlTables
    <3>2. /\ Cardinality(Readers(crawl)) \in Nat /\ Cardinality(CrawlReaders(crawl)) \in Nat
          /\ Cardinality(CrawlReaders(new)) \in Nat
      BY ReadersCounted
    <3>3. more = 1 /\ host \in Int
          /\ CounterRight(host, Cardinality(Readers(crawl)), Cardinality(CrawlReaders(crawl)), clog)
      BY <1>3, <2>2 DEF CrawlInv, SlotsRight
    <3> HIDE DEF new
    <3>4. CounterRight(host, Cardinality(Readers(new)), Cardinality(CrawlReaders(new)), clog')
      BY <1>2, <1>4, <3>1, <3>2, <3>3, CrawlNumbers DEF CounterRight
    <3> QED
      BY <1>1, <3>3, <3>4 DEF SlotsRight, new
  <2> QED
    BY <2>1, <2>2
<1>7. Carried
  BY <1>1, IdleRow, CrawlCarries DEF Step
<1> QED
  BY <1>1, <1>5, <1>6, <1>7, IdleRow, CrawlSteps

LEMMA CrawlStep ==
    ASSUME CrawlInv, CrawlNext
    PROVE  CrawlInv' /\ (Carried \/ \E j \in Jobs : PurgeClosed(j))
<1>1. CASE World
  <2>1. CASE \E j \in Jobs : Post(j)
    BY <2>1, PostHolds
  <2>2. CASE \E j \in Jobs : Withdraw(j)
    BY <2>2, WithdrawHolds
  <2>3. CASE \E j \in Jobs : PurgeClosed(j)
    BY <2>3, PurgeHolds
  <2>4. CASE PageMoves \/ IndexFills \/ SetPlatform \/ CrawlNow
    BY <2>4, EventHolds
  <2>5. CASE SetActive
    BY <2>5, SetActiveHolds
  <2> QED
    BY <1>1, <2>1, <2>2, <2>3, <2>4, <2>5 DEF World
<1>2. CASE TimePasses \/ TickClaims \/ TickQueues
  BY <1>2, TimeHolds
<1>3. CASE TickDies
  BY <1>3, TickDiesHolds
<1>4. CASE Expire
  BY <1>4, ExpireHolds
<1>5. ASSUME NEW c \in Processes, Take(c) \/ CheckLive(c) \/ SearchLive(c) \/ FetchFails(c) \/ Die(c)
      PROVE  CrawlInv' /\ Carried
  BY <1>5, TakeHolds, CheckLiveHolds, SearchLiveHolds, FetchFailsHolds, DieHolds
<1>6. ASSUME NEW c \in Processes, Crawl(c) PROVE CrawlInv' /\ Carried
  <2>1. CASE Enter(c) \/ Refuse(c)
    BY <2>1, EnterHolds, RefuseHolds
  <2>2. CASE FetchSame(c) \/ FetchGone(c) \/ FetchList(c)
    BY <2>2, FetchSameHolds, FetchListHolds
  <2>3. CASE FetchPage(c) \/ FetchLastPage(c) \/ FetchSearch(c)
    BY <2>3, FetchPageHolds, FetchLastPageHolds, FetchSearchHolds
  <2>4. CASE WriteList(c) \/ WriteSame(c) \/ WriteGone(c)
    BY <2>4, WriteListHolds, WriteSameHolds, WriteGoneHolds
  <2>5. CASE WriteFailed(c) \/ WriteSearch(c) \/ QueueMatch(c)
    BY <2>5, WriteFailedHolds, WriteSearchHolds, QueueMatchHolds
  <2> QED
    BY <1>6, <2>1, <2>2, <2>3, <2>4, <2>5 DEF Crawl
<1> QED
  BY <1>1, <1>2, <1>3, <1>4, <1>5, <1>6 DEF CrawlNext

LEMMA CrawlStart == Init => CrawlInv
<1> SUFFICES ASSUME Init PROVE CrawlInv
  OBVIOUS
<1>1. company = Registered /\ CompanyRight(company)
  BY CrawlNumbers DEF Init, Registered, CompanyRight, CompanyRow, NoTag
<1>2. crawl \in [Processes -> CrawlRow] /\ \A c \in Processes : ~Reads(crawl[c])
  BY IdleRow DEF Init
<1>3. /\ cscene \in CrawlScene /\ board \in [jobs : Seq(Jobs), gone : BOOLEAN] /\ job \in JobRows
      /\ enabled \in BOOLEAN /\ full \in BOOLEAN /\ tick \in {"idle", "queue"}
      /\ tasks \in 0..Cardinality(Crawlers) /\ matches \subseteq SUBSET Jobs /\ clog \in CrawlLog
  <2>1. cscene \in CrawlScene
    BY CrawlConstants DEF Init
  <2>2. board \in [jobs : Seq(Jobs), gone : BOOLEAN]
    BY DEF Init
  <2>3. clog \in CrawlLog
    BY DEF Init, CrawlLog
  <2>4. tasks \in 0..Cardinality(Crawlers) /\ matches \subseteq SUBSET Jobs
    BY CrawlNumbers DEF Init
  <2> QED
    BY <2>1, <2>2, <2>3, <2>4 DEF Init, JobRows
<1>4. Readers(crawl) = {} /\ CrawlReaders(crawl) = {}
  BY <1>2, CrawlNumbers DEF Readers, CrawlReaders
<1>5. Cardinality(Readers(crawl)) = 0 /\ Cardinality(CrawlReaders(crawl)) = 0
  BY <1>4, FS_EmptySet
<1>6. SlotsRight(host, crawl, clog)
  BY <1>5, CrawlNumbers DEF Init, SlotsRight, CounterRight
<1> QED
  BY <1>1, <1>2, <1>3, <1>6 DEF CrawlInv, CrawlTables

LEMMA CrawlKept == CrawlInv => TypeOK /\ SlotsBounded
<1> SUFFICES ASSUME CrawlInv PROVE TypeOK /\ SlotsBounded
  OBVIOUS
<1>1. Readers(crawl) = {c \in Processes : Reading(c)} /\ CrawlReaders(crawl) = {c \in Crawlers : Reading(c)}
  BY DEF Readers, CrawlReaders, Reads, Reading
<1>2. SlotsBounded
  BY <1>1 DEF CrawlInv, SlotsRight, CounterRight, SlotsBounded
<1>3. "slow" \notin cscene.events => host = Cardinality({c \in Processes : Reading(c)}) + clog.lost
  BY <1>1 DEF CrawlInv, SlotsRight, CounterRight
<1>4. company.gone \in 0..GoneAfter + Cardinality(Processes)
  BY CrawlNumbers DEF CrawlInv, CrawlTables, CompanyRight, CompanyRow
<1>5. \A c \in Processes : crawl[c].pc \in {"idle", "enter", "fetch", "search", "write", "queue"}
  BY DEF CrawlInv, CrawlTables, CrawlRow
<1> QED
  BY <1>2, <1>3, <1>4, <1>5 DEF CrawlInv, CrawlTables, CompanyRight, TypeOK, JobRows

----------------------------------------------------------------------------
(***************************************************************************)
(* The follows: a role is mailed to a follower once, for any users, jobs,   *)
(* digests and crawls.  The argument: a job is carried from the crawl that  *)
(* added its row to the match by one bearer at a time, so it becomes a role *)
(* of a user at most once; the jobs of a digest are roles all together or   *)
(* not at all, so what was sent is marked unless the digest dies; and a     *)
(* role that was mailed and still counts as new is held by the digest that  *)
(* is about to mark it, next to which no other of the user may run.         *)
(***************************************************************************)

FollowRow == [status : {"no", "following", "searching", "not_found"}, id : Nat]
NameRow == [status : {"no", "searching", "not_found"}, id : Nat]
Marks == {"none", "new", "mailed", "seen"}
RequestRow == [pc : {"idle", "follow", "unfollow", "name"}, count : 0..Cardinality(Users), loaded : Nat, id : Nat]
LookRow == [pc : {"idle", "resolve", "attach", "end", "mark"}, user : Users \cup {"none", "search"}, id : Nat]
MatchRow == [pc : {"idle", "add"}, jobs : SUBSET Jobs, users : SUBSET Users]
DigestRow == [pc : {"idle", "send", "mark"}, user : Users \cup {"none"}, jobs : SUBSET Jobs]
FollowLog == [asks : Nat, mailed : [Users -> [Jobs -> Nat]], twice : SUBSET Users]

FollowTables ==
    /\ fscene \in FollowScene
    /\ follow \in [Users -> FollowRow] /\ byname \in [Users -> NameRow]
    /\ hit \in [Users -> [Jobs -> Marks]] /\ probe \in {"none", "miss", "found"}
    /\ request \in [Users -> RequestRow] /\ lookups \subseteq Users \X Nat
    /\ look \in [Lookers -> LookRow] /\ match \in MatchRow
    /\ digest \in [Digests -> DigestRow] /\ flog \in FollowLog

\* A digest is of a user.
DigestBusy(d) == digest[d].pc # "idle"
DigestsOf == \A d \in Digests : DigestBusy(d) => digest[d].user \in Users

Carrying(j) ==
    \/ \E c \in Processes : j \in crawl[c].fresh
    \/ \E S \in matches : j \in S
    \/ j \in match.jobs

\* Its row is there, and no crawl or match carries it to the followers any more.
Passed(j) == job[j] # "none" /\ ~Carrying(j)

CarriedOnce ==
    \A j \in Jobs :
      /\ Carrying(j) => job[j] # "none"
      /\ \A c \in Processes : j \in crawl[c].fresh =>
            /\ \A d \in Processes : j \in crawl[d].fresh => c = d
            /\ \A S \in matches : j \notin S
            /\ j \notin match.jobs
      /\ \A S \in matches : j \in S => j \notin match.jobs /\ \A T \in matches : j \in T => S = T

RolesPassed == \A u \in Users : \A j \in Jobs : hit[u][j] # "none" \/ flog.mailed[u][j] > 0 => Passed(j)

DigestsWhole ==
    \A d \in Digests : DigestBusy(d) =>
      /\ \A j \in digest[d].jobs : Passed(j)
      /\ \/ \A j \in digest[d].jobs : hit[digest[d].user][j] # "none"
         \/ \A j \in digest[d].jobs : hit[digest[d].user][j] = "none"

\* The digests of u, when no two ran at once and none died.
MailedRight(u) ==
    /\ \A d, e \in Digests : DigestBusy(d) /\ DigestBusy(e) /\ digest[d].user = u /\ digest[e].user = u => d = e
    /\ \A d \in Digests : digest[d].pc = "send" /\ digest[d].user = u =>
          \A j \in digest[d].jobs : flog.mailed[u][j] = 0
    /\ \A j \in Jobs : flog.mailed[u][j] <= 1
    /\ \A j \in Jobs : hit[u][j] = "new" /\ flog.mailed[u][j] > 0 =>
          \E d \in Digests : digest[d].pc = "mark" /\ digest[d].user = u /\ j \in digest[d].jobs
MailsRight == clog.deaths = 0 => \A u \in Users : u \notin flog.twice => MailedRight(u)

RolesOnce == CarriedOnce /\ RolesPassed /\ DigestsWhole /\ MailsRight

NoMails ==
    /\ \A d \in Digests : digest[d].pc = "idle"
    /\ \A u \in Users : \A j \in Jobs : flog.mailed[u][j] = 0

FollowInv ==
    /\ FollowTables /\ DigestsOf
    /\ fscene.processes \cap Digests = {} => NoMails
    /\ "purge" \notin cscene.events => RolesOnce

\* A row that is deleted and then added again is another role, which is rightly mailed again.
RolesStay == "purge" \notin cscene.events \/ fscene.processes \cap Digests = {}

----------------------------------------------------------------------------
(* What a crawl changes for the follows *)

LEMMA CrawlDeaths ==
    ASSUME CrawlInv, CrawlNext
    PROVE  cscene' = cscene /\ (clog'.deaths = 0 => clog.deaths = 0)
<1>1. clog \in CrawlLog /\ \A n \in Nat : n + 1 # 0
  BY DEF CrawlInv, CrawlTables
<1>2. Change => clog'.deaths = clog.deaths
  BY <1>1 DEF Change, CrawlLog
<1>3. CASE World
  BY <1>1, <1>2, <1>3 DEF World, Post, Withdraw, PurgeClosed, PageMoves, IndexFills, SetActive, SetPlatform, CrawlNow, CrawlLog
<1>4. CASE TimePasses \/ TickClaims \/ TickQueues \/ TickDies \/ Expire
  BY <1>1, <1>4 DEF TimePasses, TickClaims, TickQueues, TickDies, Expire, CrawlLog
<1>5. ASSUME NEW c \in Processes, Take(c) \/ CheckLive(c) \/ SearchLive(c) \/ FetchFails(c) \/ Die(c)
      PROVE  cscene' = cscene /\ (clog'.deaths = 0 => clog.deaths = 0)
  BY <1>1, <1>2, <1>5 DEF Take, CheckLive, SearchLive, FetchFails, Die, CrawlLog
<1>6. ASSUME NEW c \in Processes, Crawl(c) PROVE cscene' = cscene /\ clog'.deaths = clog.deaths
  <2>1. CASE Enter(c) \/ Refuse(c) \/ FetchSame(c) \/ FetchList(c) \/ FetchPage(c) \/ FetchGone(c)
    BY <2>1 DEF Enter, Refuse, FetchSame, FetchList, FetchPage, FetchGone, Answered
  <2>2. CASE FetchLastPage(c) \/ WriteGone(c) \/ WriteFailed(c) \/ WriteSearch(c) \/ QueueMatch(c)
    BY <2>2 DEF FetchLastPage, WriteGone, WriteFailed, WriteSearch, QueueMatch
  <2>3. CASE FetchSearch(c)
    BY <2>3 DEF FetchSearch, Answered
  <2>4. CASE WriteList(c)
    <3> DEFINE hid == full /\ \E j \in crawl[c].read : job[j] = "none"
    <3>1. clog' = [clog EXCEPT !.hidden = hid] /\ cscene' = cscene
      BY <2>4 DEF WriteList
    <3> HIDE DEF hid
    <3> QED
      BY <1>1, <3>1 DEF CrawlLog
  <2>5. CASE WriteSame(c)
    <3> DEFINE hid == clog.hidden /\ company.named
    <3>1. clog' = [clog EXCEPT !.hidden = hid] /\ cscene' = cscene
      BY <2>5 DEF WriteSame
    <3> HIDE DEF hid
    <3> QED
      BY <1>1, <3>1 DEF CrawlLog
  <2> QED
    BY <1>6, <2>1, <2>2, <2>3, <2>4, <2>5 DEF Crawl
<1> QED
  BY <1>3, <1>4, <1>5, <1>6 DEF CrawlNext

\* What is said of the jobs a crawl carries, for a row that is added once.
LEMMA CarriedStays ==
    ASSUME CrawlInv, CarriedOnce, Carried, match' = match
    PROVE  CarriedOnce' /\ \A j \in Jobs : Passed(j) => Passed(j)'
<1>1. PICK c \in Processes : Carries(c)
  BY DEF Carried
<1>2. \A j \in Jobs : job[j] # "none" => job'[j] # "none"
  BY DEF Carried
<1>3. \A d \in Processes : d # c => crawl'[d].fresh = crawl[d].fresh
  BY <1>1 DEF Carries
<1>4. CASE crawl'[c].fresh \subseteq crawl[c].fresh /\ matches' = matches
  <2>1. \A d \in Processes : \A j \in Jobs : j \in crawl'[d].fresh => j \in crawl[d].fresh
    BY <1>3, <1>4
  <2>2. \A j \in Jobs : Carrying(j)' => Carrying(j)
    BY <1>4, <2>1 DEF Carrying
  <2> QED
    BY <1>2, <1>4, <2>1, <2>2 DEF CarriedOnce, Passed
<1>5. CASE crawl'[c].fresh \subseteq {j \in Jobs : job[j] = "none" /\ job'[j] # "none"} /\ matches' = matches
  <2>1. \A d \in Processes : \A j \in Jobs : j \in crawl'[d].fresh =>
           \/ d = c /\ job[j] = "none" /\ job'[j] # "none" /\ ~Carrying(j)
           \/ d # c /\ j \in crawl[d].fresh
    BY <1>3, <1>5 DEF CarriedOnce
  <2>2. \A j \in Jobs : Carrying(j)' => Carrying(j) \/ (job[j] = "none" /\ job'[j] # "none")
    BY <1>5, <2>1 DEF Carrying
  <2>3. CarriedOnce'
    <3> SUFFICES ASSUME NEW j \in Jobs
                 PROVE  (/\ Carrying(j) => job[j] # "none"
                         /\ \A d \in Processes : j \in crawl[d].fresh =>
                               /\ \A e \in Processes : j \in crawl[e].fresh => d = e
                               /\ \A S \in matches : j \notin S
                               /\ j \notin match.jobs
                         /\ \A S \in matches : j \in S => j \notin match.jobs /\ \A T \in matches : j \in T => S = T)'
      BY DEF CarriedOnce
    <3>1. (Carrying(j) => job[j] # "none")'
      BY <1>2, <2>2 DEF CarriedOnce
    <3>2. ~Carrying(j) => /\ \A d \in Processes : j \notin crawl[d].fresh
                          /\ \A S \in matches : j \notin S
                          /\ j \notin match.jobs
      BY DEF Carrying
    <3>3. /\ \A d \in Processes : j \in crawl[d].fresh =>
               /\ \A e \in Processes : j \in crawl[e].fresh => d = e
               /\ \A S \in matches : j \notin S
               /\ j \notin match.jobs
          /\ \A S \in matches : j \in S => j \notin match.jobs /\ \A T \in matches : j \in T => S = T
      BY DEF CarriedOnce
    <3> QED
      BY <1>5, <2>1, <3>1, <3>2, <3>3
  <2> QED
    BY <1>2, <2>2, <2>3 DEF Passed
<1>6. CASE crawl'[c].fresh = {} /\ matches' \subseteq matches \cup {crawl[c].fresh}
  <2>1. \A d \in Processes : \A j \in Jobs : j \in crawl'[d].fresh => d # c /\ j \in crawl[d].fresh
    BY <1>3, <1>6
  <2>2. \A S \in matches' : S \in matches \/ S = crawl[c].fresh
    BY <1>6
  <2>3. \A j \in Jobs : Carrying(j)' => Carrying(j)
    BY <2>1, <2>2 DEF Carrying
  <2> QED
    BY <1>2, <2>1, <2>2, <2>3 DEF CarriedOnce, Passed
<1> QED
  BY <1>1, <1>4, <1>5, <1>6 DEF Carries

\* Nothing becomes a role and no digest moves.
LEMMA RolesStill ==
    ASSUME RolesOnce, CarriedOnce', \A j \in Jobs : Passed(j) => Passed(j)',
           UNCHANGED <<hit, digest>>, flog'.mailed = flog.mailed, flog'.twice = flog.twice,
           clog'.deaths = 0 => clog.deaths = 0, FollowTables
    PROVE  RolesOnce'
<1>1. RolesPassed'
  BY DEF RolesOnce, RolesPassed
<1>2. DigestsWhole'
  <2>1. \A d \in Digests : digest[d].jobs \subseteq Jobs
    BY DEF FollowTables, DigestRow
  <2> QED
    BY <2>1 DEF RolesOnce, DigestsWhole, DigestBusy
<1>3. MailsRight'
  <2>1. ASSUME NEW u \in Users, MailedRight(u) PROVE MailedRight(u)'
    BY <2>1 DEF MailedRight, DigestBusy
  <2> QED
    BY <2>1 DEF RolesOnce, MailsRight
<1> QED
  BY <1>1, <1>2, <1>3 DEF RolesOnce

LEMMA FollowStill ==
    ASSUME FollowInv, FollowTables', UNCHANGED <<cscene, fscene, job, crawl, matches, match, hit, digest>>,
           flog'.mailed = flog.mailed, flog'.twice = flog.twice, clog'.deaths = 0 => clog.deaths = 0
    PROVE  FollowInv'
<1>1. DigestsOf'
  BY DEF FollowInv, DigestsOf, DigestBusy
<1>2. NoMails => NoMails'
  BY DEF NoMails
<1>3. \A j \in Jobs : Carrying(j)' <=> Carrying(j)
  BY DEF Carrying
<1>4. \A j \in Jobs : Passed(j) => Passed(j)'
  BY <1>3 DEF Passed
<1>5. CarriedOnce => CarriedOnce'
  BY <1>3 DEF CarriedOnce
<1>6. RolesOnce => RolesOnce'
  <2> SUFFICES ASSUME RolesOnce PROVE RolesOnce'
    OBVIOUS
  <2>1. CarriedOnce'
    BY <1>5 DEF RolesOnce
  <2> QED
    BY <1>4, <2>1, RolesStill DEF FollowInv
<1> QED
  BY <1>1, <1>2, <1>6 DEF FollowInv

LEMMA CrawlMovesHolds == ASSUME CrawlInv, FollowInv, CrawlMoves PROVE FollowInv'
<1>1. UNCHANGED <<fscene, follow, byname, probe, request, lookups, look, match, digest, flog>>
      /\ hit' = [u \in Users |-> [j \in Jobs |-> IF job'[j] = "none" THEN "none" ELSE hit[u][j]]]
      /\ CrawlNext
  BY DEF CrawlMoves
<1>2. cscene' = cscene /\ (clog'.deaths = 0 => clog.deaths = 0)
  BY <1>1, CrawlDeaths
<1>3. hit \in [Users -> [Jobs -> Marks]] /\ hit' \in [Users -> [Jobs -> Marks]]
  <2>1. hit \in [Users -> [Jobs -> Marks]]
    BY DEF FollowInv, FollowTables
  <2>2. \A u \in Users : \A j \in Jobs : (IF job'[j] = "none" THEN "none" ELSE hit[u][j]) \in Marks
    BY <2>1 DEF Marks
  <2> QED
    BY <1>1, <2>1, <2>2
<1>4. FollowTables'
  BY <1>1, <1>3 DEF FollowInv, FollowTables
<1>5. DigestsOf' /\ (NoMails => NoMails')
  BY <1>1 DEF FollowInv, DigestsOf, DigestBusy, NoMails
<1>6. ASSUME "purge" \notin cscene.events PROVE RolesOnce'
  <2>1. RolesOnce /\ CarriedOnce
    BY <1>6 DEF FollowInv, RolesOnce
  <2>2. Carried
    BY <1>1, <1>6, CrawlStep DEF PurgeClosed
  <2>3. CarriedOnce' /\ \A j \in Jobs : Passed(j) => Passed(j)'
    BY <1>1, <2>1, <2>2, CarriedStays
  <2>4. hit' = hit
    <3>1. \A u \in Users : \A j \in Jobs : hit[u][j] # "none" => job'[j] # "none"
      BY <2>1, <2>3 DEF RolesOnce, RolesPassed, Passed
    <3>2. \A u \in Users : \A j \in Jobs : hit'[u][j] = hit[u][j]
      BY <1>1, <3>1
    <3>3. \A u \in Users : hit'[u] = hit[u]
      <4>1. \A u \in Users : hit[u] \in [Jobs -> Marks] /\ hit'[u] \in [Jobs -> Marks]
        BY <1>3
      <4> QED
        BY <3>2, <4>1
    <3> QED
      BY <1>3, <3>3
  <2> QED
    BY <1>1, <1>2, <2>1, <2>3, <2>4, RolesStill DEF FollowInv
<1> QED
  BY <1>1, <1>2, <1>4, <1>5, <1>6 DEF FollowInv

----------------------------------------------------------------------------
(* What the follows change for the crawl *)

LEMMA FollowsCrawl ==
    ASSUME CrawlInv, UNCHANGED <<cscene, board, job, enabled, full, host, tick, tasks, crawl>>,
           matches' \subseteq matches, CompanyRight(company'), clog' \in CrawlLog, clog'.lost = clog.lost,
           clog'.outlived = clog.outlived
    PROVE  CrawlInv'
<1>1. SlotsRight(host, crawl, clog')
  BY SlotsSame
<1>2. SlotsRight(host, crawl, clog)'
  BY <1>1, Zenon DEF SlotsRight, CounterRight, Readers, CrawlReaders
<1>3. CrawlTables'
  BY DEF CrawlInv, CrawlTables, CompanyRight
<1> QED
  BY <1>2, <1>3 DEF CrawlInv

LEMMA CompanyStays == ASSUME CrawlInv, CrawlRests, company' = company, matches' \subseteq matches PROVE CrawlInv'
  BY FollowsCrawl DEF CrawlRests, CrawlInv, CrawlTables

LEMMA CompanyCounted ==
    ASSUME CrawlInv, CrawlRests, matches' = matches, NEW n \in 0..Cardinality(Users), NEW m, Recount(n, m)
    PROVE  CrawlInv'
<1> DEFINE k == IF n = m THEN company.followers ELSE n
           due == company.due \/ n > 0
<1>1. company \in CompanyRow /\ (company.active => company.gone <= GoneAfter)
      /\ (company.tag = NoTag \/ cscene.kind = "etag")
  BY DEF CrawlInv, CrawlTables, CompanyRight
<1>2. k \in 0..Cardinality(Users) /\ due \in BOOLEAN
  BY <1>1 DEF CompanyRow
<1>3. company' = [company EXCEPT !.followers = k, !.due = due]
  BY DEF Recount
<1> HIDE DEF k, due
<1>4. CompanyRight(company')
  BY <1>1, <1>2, <1>3 DEF CompanyRight, CompanyRow
<1> QED
  BY <1>4, FollowsCrawl DEF CrawlRests, CrawlInv, CrawlTables

----------------------------------------------------------------------------
(* Requests *)

LEMMA FollowRight ==
    ASSUME FollowInv
    PROVE  /\ FollowTables
           /\ \A u \in Users : /\ follow[u] \in FollowRow /\ byname[u] \in NameRow /\ request[u] \in RequestRow
                               /\ hit[u] \in [Jobs -> Marks] /\ flog.mailed[u] \in [Jobs -> Nat]
           /\ \A l \in Lookers : look[l] \in LookRow
           /\ \A d \in Digests : digest[d] \in DigestRow
           /\ flog \in FollowLog
<1>1. FollowTables
  BY DEF FollowInv
<1> QED
  BY <1>1 DEF FollowTables, FollowLog

LEMMA AsksNoted ==
    ASSUME FollowInv, NEW u, NEW what, Asks(u, what)
    PROVE  flog' \in FollowLog /\ flog'.mailed = flog.mailed /\ flog'.twice = flog.twice
<1>1. flog \in FollowLog /\ flog.asks + 1 \in Nat /\ flog' = [flog EXCEPT !.asks = flog.asks + 1]
  BY FollowRight DEF Asks, FollowLog
<1> QED
  BY <1>1 DEF FollowLog

LEMMA FollowersFinite ==
    ASSUME NEW S, S \subseteq Users
    PROVE  /\ IsFiniteSet(S) /\ Cardinality(S) \in 0..Cardinality(Users)
           /\ \A u \in Users : u \notin S => Cardinality(S) + 1 \in 0..Cardinality(Users)
<1>1. IsFiniteSet(Users) /\ IsFiniteSet(S) /\ Cardinality(S) <= Cardinality(Users) /\ Cardinality(S) \in Nat
      /\ Cardinality(Users) \in Nat
  BY FollowConstants, FS_Subset, FS_CardinalityType
<1>2. ASSUME NEW u \in Users, u \notin S PROVE Cardinality(S) + 1 \in 0..Cardinality(Users)
  <2>1. S \cup {u} \subseteq Users /\ Cardinality(S \cup {u}) = Cardinality(S) + 1
    BY <1>1, <1>2, FS_AddElement
  <2>2. Cardinality(S \cup {u}) <= Cardinality(Users)
    BY <1>1, <2>1, FS_Subset
  <2> QED
    BY <1>1, <2>1, <2>2
<1> QED
  BY <1>1, <1>2

LEMMA RequestSteps ==
    ASSUME FollowInv, CrawlInv, CrawlRests, NEW u \in Users, NEW r \in RequestRow,
           request' = [request EXCEPT ![u] = r], flog' \in FollowLog, flog'.mailed = flog.mailed,
           flog'.twice = flog.twice, UNCHANGED <<fscene, follow, byname, hit, probe, lookups, look, match, digest, company, matches>>
    PROVE  FollowInv' /\ CrawlInv'
<1>1. FollowTables'
  BY FollowRight DEF FollowTables
<1>2. FollowInv'
  BY <1>1, FollowStill DEF CrawlRests
<1> QED
  BY <1>2, CompanyStays

LEMMA FollowHolds == ASSUME FollowInv, CrawlInv, NEW u \in Users, Follow(u) PROVE FollowInv' /\ CrawlInv'
<1> DEFINE r == [NoRequest EXCEPT !.pc = "follow", !.loaded = company.followers, !.count = Cardinality(Followers) + 1]
<1>1. flog' \in FollowLog /\ flog'.mailed = flog.mailed /\ flog'.twice = flog.twice
  BY AsksNoted DEF Follow
<1>2. Cardinality(Followers) + 1 \in 0..Cardinality(Users)
  <2>1. Followers \subseteq Users /\ u \notin Followers
    BY DEF Followers, Follow
  <2> QED
    BY <2>1, FollowersFinite
<1>3. company.followers \in Nat
  BY DEF CrawlInv, CrawlTables, CompanyRight, CompanyRow
<1>4. r \in RequestRow
  BY <1>2, <1>3 DEF RequestRow, NoRequest
<1>5. request' = [request EXCEPT ![u] = r] /\ CrawlRests
      /\ UNCHANGED <<fscene, follow, byname, hit, probe, lookups, look, match, digest, company, matches>>
  BY DEF Follow
<1> HIDE DEF r
<1> QED
  BY <1>1, <1>4, <1>5, RequestSteps

LEMMA UnfollowHolds == ASSUME FollowInv, CrawlInv, NEW u \in Users, Unfollow(u) PROVE FollowInv' /\ CrawlInv'
<1> DEFINE r == [NoRequest EXCEPT !.pc = "unfollow", !.loaded = company.followers,
                                  !.count = Cardinality(Followers \ {u})]
<1>1. flog' \in FollowLog /\ flog'.mailed = flog.mailed /\ flog'.twice = flog.twice
  BY AsksNoted DEF Unfollow
<1>2. Cardinality(Followers \ {u}) \in 0..Cardinality(Users)
  <2>1. Followers \ {u} \subseteq Users
    BY DEF Followers
  <2> QED
    BY <2>1, FollowersFinite
<1>3. company.followers \in Nat
  BY DEF CrawlInv, CrawlTables, CompanyRight, CompanyRow
<1>4. r \in RequestRow
  BY <1>2, <1>3 DEF RequestRow, NoRequest
<1>5. request' = [request EXCEPT ![u] = r] /\ CrawlRests
      /\ UNCHANGED <<fscene, follow, byname, hit, probe, lookups, look, match, digest, company, matches>>
  BY DEF Unfollow
<1> HIDE DEF r
<1> QED
  BY <1>1, <1>4, <1>5, RequestSteps

LEMMA AskNameHolds == ASSUME FollowInv, CrawlInv, NEW u \in Users, AskName(u) PROVE FollowInv' /\ CrawlInv'
<1> DEFINE r == [NoRequest EXCEPT !.pc = "name", !.id = byname[u].id]
<1>1. flog' \in FollowLog /\ flog'.mailed = flog.mailed /\ flog'.twice = flog.twice
  BY AsksNoted DEF AskName
<1>2. r \in RequestRow
  <2>1. byname[u].id \in Nat /\ 0 \in 0..Cardinality(Users)
    BY FollowRight, CrawlNumbers DEF NameRow
  <2> QED
    BY <2>1 DEF RequestRow, NoRequest
<1>3. request' = [request EXCEPT ![u] = r] /\ CrawlRests
      /\ UNCHANGED <<fscene, follow, byname, hit, probe, lookups, look, match, digest, company, matches>>
  BY DEF AskName
<1> HIDE DEF r
<1> QED
  BY <1>1, <1>2, <1>3, RequestSteps

LEMMA NoRequestRight == NoRequest \in RequestRow /\ NoRow \in FollowRow /\ NoRow \in NameRow
  BY CrawlNumbers DEF NoRequest, RequestRow, NoRow, FollowRow, NameRow

LEMMA CommitFollowHolds == ASSUME FollowInv, CrawlInv, NEW u \in Users, CommitFollow(u) PROVE FollowInv' /\ CrawlInv'
<1>1. UNCHANGED <<fscene, byname, hit, probe, lookups, look, match, digest, flog, matches>> /\ CrawlRests
      /\ request' = [request EXCEPT ![u] = NoRequest]
  BY DEF CommitFollow, Answer
<1>2. request' \in [Users -> RequestRow]
  BY <1>1, NoRequestRight, FollowRight DEF FollowTables
<1>3. CASE follow[u].status = "no"
  <2>1. follow' = [follow EXCEPT ![u] = [status |-> "following", id |-> flog.asks]]
        /\ Recount(request[u].count, request[u].loaded)
    BY <1>3 DEF CommitFollow
  <2>2. [status |-> "following", id |-> flog.asks] \in FollowRow
    BY FollowRight DEF FollowLog, FollowRow
  <2>3. follow' \in [Users -> FollowRow]
    BY <2>1, <2>2, FollowRight DEF FollowTables
  <2>4. FollowTables'
    BY <1>1, <1>2, <2>3, FollowRight DEF FollowTables
  <2>5. request[u].count \in 0..Cardinality(Users)
    BY FollowRight DEF RequestRow
  <2>6. CrawlInv'
    BY <1>1, <2>1, <2>5, CompanyCounted
  <2> QED
    BY <1>1, <2>4, <2>6, FollowStill DEF CrawlRests
<1>4. CASE follow[u].status # "no"
  <2>1. follow' = follow /\ company' = company
    BY <1>4 DEF CommitFollow
  <2>2. FollowTables'
    BY <1>1, <1>2, <2>1, FollowRight DEF FollowTables
  <2> QED
    BY <1>1, <2>1, <2>2, FollowStill, CompanyStays DEF CrawlRests
<1> QED
  BY <1>3, <1>4

LEMMA ForgetHolds == ASSUME FollowInv, CrawlInv, NEW u \in Users, Forget(u) PROVE FollowInv' /\ CrawlInv'
<1>1. UNCHANGED <<fscene, follow, hit, probe, request, lookups, look, match, digest, company, matches>> /\ CrawlRests
      /\ byname' = [byname EXCEPT ![u] = NoRow]
  BY DEF Forget
<1>2. flog' \in FollowLog /\ flog'.mailed = flog.mailed /\ flog'.twice = flog.twice
  BY AsksNoted DEF Forget
<1>3. byname' \in [Users -> NameRow]
  BY <1>1, NoRequestRight, FollowRight DEF FollowTables
<1>4. FollowTables'
  BY <1>1, <1>2, <1>3, FollowRight DEF FollowTables
<1> QED
  BY <1>1, <1>2, <1>4, FollowStill, CompanyStays DEF CrawlRests

LEMMA CommitNameHolds == ASSUME FollowInv, CrawlInv, NEW u \in Users, CommitName(u) PROVE FollowInv' /\ CrawlInv'
<1> DEFINE id == IF request[u].id = 0 THEN flog.asks ELSE request[u].id
<1>1. UNCHANGED <<fscene, hit, probe, look, match, digest, flog, company, matches>> /\ CrawlRests
      /\ request' = [request EXCEPT ![u] = NoRequest]
  BY DEF CommitName, Answer
<1>2. id \in Nat
  BY FollowRight DEF FollowLog, RequestRow
<1>3. request' \in [Users -> RequestRow]
  BY <1>1, NoRequestRight, FollowRight DEF FollowTables
<1>4. \/ byname' = [byname EXCEPT ![u] = [status |-> "searching", id |-> id]] /\ follow' = follow
      \/ byname' = [byname EXCEPT ![u].status = "searching"] /\ follow' = follow
      \/ follow' = [follow EXCEPT ![u].status = "searching"] /\ byname' = byname
      \/ follow' = follow /\ byname' = byname
  BY DEF CommitName
<1>5. lookups' \subseteq lookups \cup {<<u, i>> : i \in {id}}
  BY DEF CommitName
<1> HIDE DEF id
<1>6. byname' \in [Users -> NameRow] /\ follow' \in [Users -> FollowRow]
  <2>1. /\ [status |-> "searching", id |-> id] \in NameRow
        /\ [byname[u] EXCEPT !.status = "searching"] \in NameRow
        /\ [follow[u] EXCEPT !.status = "searching"] \in FollowRow
    BY <1>2, FollowRight DEF NameRow, FollowRow
  <2> QED
    BY <1>4, <2>1, FollowRight DEF FollowTables
<1>7. lookups' \subseteq Users \X Nat
  BY <1>2, <1>5, FollowRight DEF FollowTables
<1>8. FollowTables'
  BY <1>1, <1>3, <1>6, <1>7, FollowRight DEF FollowTables
<1> QED
  BY <1>1, <1>8, FollowStill, CompanyStays DEF CrawlRests

----------------------------------------------------------------------------
(* Looking a name up *)

LEMMA LookSteps ==
    ASSUME FollowInv, NEW l \in Lookers, NEW s \in LookRow, LookStep(l, s), probe' \in {"none", "miss", "found"},
           lookups' \subseteq lookups, follow' \in [Users -> FollowRow], byname' \in [Users -> NameRow],
           UNCHANGED <<fscene, hit, request, match, digest, flog>>, UNCHANGED <<cscene, job, crawl, matches, clog>>
    PROVE  FollowInv'
<1>1. look' \in [Lookers -> LookRow]
  BY FollowRight DEF LookStep, FollowTables
<1>2. FollowTables'
  BY <1>1, FollowRight DEF FollowTables
<1> QED
  BY <1>2, FollowStill

LEMMA LookRows ==
    ASSUME FollowInv, NEW l \in Lookers
    PROVE  /\ NoLook \in LookRow /\ AfterResolve(l) \in LookRow
           /\ \A pc \in {"resolve", "attach", "end", "mark"} : [look[l] EXCEPT !.pc = pc] \in LookRow
<1>1. look[l] \in LookRow
  BY FollowRight
<1>2. NoLook \in LookRow
  BY DEF NoLook, LookRow
<1>3. \A pc \in {"resolve", "attach", "end", "mark"} : [look[l] EXCEPT !.pc = pc] \in LookRow
  BY <1>1 DEF LookRow
<1> QED
  BY <1>2, <1>3 DEF AfterResolve

LEMMA StartLookupHolds ==
    ASSUME FollowInv, CrawlInv, NEW l \in Lookers, NEW t \in lookups, StartLookup(l, t[1], t[2])
    PROVE  FollowInv' /\ CrawlInv'
<1>1. t[1] \in Users /\ t[2] \in Nat /\ probe \in {"none", "miss", "found"}
  BY FollowRight DEF FollowTables
<1>2. lookups' \subseteq lookups /\ CrawlRests
      /\ UNCHANGED <<fscene, follow, byname, hit, request, match, digest, flog, company, matches>>
  BY DEF StartLookup
<1>3. follow' \in [Users -> FollowRow] /\ byname' \in [Users -> NameRow]
  BY <1>2, FollowRight DEF FollowTables
<1>4. CrawlInv'
  BY <1>2, CompanyStays
<1>5. CASE byname[t[1]].id = t[2]
  <2>1. LookStep(l, [pc |-> "resolve", user |-> t[1], id |-> t[2]]) /\ probe' \in {"none", "miss", "found"}
    BY <1>1, <1>5 DEF StartLookup
  <2>2. [pc |-> "resolve", user |-> t[1], id |-> t[2]] \in LookRow
    BY <1>1 DEF LookRow
  <2> QED
    BY <1>2, <1>3, <1>4, <2>1, <2>2, LookSteps DEF CrawlRests
<1>6. CASE byname[t[1]].id # t[2]
  <2>1. look' = look /\ probe' = probe
    BY <1>6 DEF StartLookup
  <2>2. FollowTables'
    BY <1>2, <2>1, FollowRight DEF FollowTables
  <2> QED
    BY <1>2, <1>4, <2>1, <2>2, FollowStill DEF CrawlRests
<1> QED
  BY <1>5, <1>6

LEMMA LookSame ==
    ASSUME FollowInv, CrawlInv, NEW l \in Lookers, NEW s \in LookRow, LookStep(l, s), CrawlRests,
           probe' \in {"none", "miss", "found"},
           UNCHANGED <<fscene, follow, byname, hit, request, lookups, match, digest, flog, company, matches>>
    PROVE  FollowInv' /\ CrawlInv'
<1>1. follow' \in [Users -> FollowRow] /\ byname' \in [Users -> NameRow]
  BY FollowRight DEF FollowTables
<1> QED
  BY <1>1, LookSteps, CompanyStays DEF CrawlRests

LEMMA ResolveSeenHolds == ASSUME FollowInv, CrawlInv, NEW l \in Lookers, ResolveSeen(l) PROVE FollowInv' /\ CrawlInv'
<1>1. [NoLook EXCEPT !.pc = "resolve", !.user = "search"] \in LookRow
  BY DEF NoLook, LookRow
<1>2. probe' \in {"none", "miss", "found"}
  BY FollowRight DEF FollowTables, ResolveSeen
<1> QED
  BY <1>1, <1>2, LookSame DEF ResolveSeen

LEMMA ResolveHolds == ASSUME FollowInv, CrawlInv, NEW l \in Lookers, Resolve(l) PROVE FollowInv' /\ CrawlInv'
<1>1. probe' \in {"none", "miss", "found"}
  BY FollowRight DEF FollowTables, Resolve
<1>2. LookStep(l, [look[l] EXCEPT !.pc = "attach"]) \/ LookStep(l, AfterResolve(l))
  BY DEF Resolve
<1>3. CrawlRests
      /\ UNCHANGED <<fscene, follow, byname, hit, request, lookups, match, digest, flog, company, matches>>
  BY DEF Resolve
<1>4. CASE LookStep(l, [look[l] EXCEPT !.pc = "attach"])
  <2>1. [look[l] EXCEPT !.pc = "attach"] \in LookRow
    BY LookRows
  <2> QED
    BY <1>1, <1>3, <1>4, <2>1, LookSame
<1>5. CASE LookStep(l, AfterResolve(l))
  BY <1>1, <1>3, <1>5, LookRows, LookSame
<1> QED
  BY <1>2, <1>4, <1>5

LEMMA AttachHolds == ASSUME FollowInv, CrawlInv, NEW l \in Lookers, Attach(l) PROVE FollowInv' /\ CrawlInv'
<1> DEFINE waiting == {u \in Users : byname[u].status # "no"}
           now == [u \in Users |-> IF u \in waiting /\ follow[u].status = "no"
                                   THEN [byname[u] EXCEPT !.status = "following"] ELSE follow[u]]
           n == Cardinality({u \in Users : now[u].status = "following"})
<1>1. follow' = now /\ byname' = [u \in Users |-> NoRow] /\ Recount(n, company.followers)
      /\ LookStep(l, AfterResolve(l)) /\ CrawlRests
      /\ UNCHANGED <<fscene, hit, probe, request, lookups, match, digest, flog, matches>>
  BY DEF Attach
<1>2. now \in [Users -> FollowRow]
  <2>1. ASSUME NEW u \in Users PROVE [byname[u] EXCEPT !.status = "following"] \in FollowRow /\ follow[u] \in FollowRow
    BY FollowRight DEF FollowRow, NameRow
  <2> QED
    BY <2>1
<1>3. n \in 0..Cardinality(Users)
  BY FollowersFinite
<1> HIDE DEF now, n
<1>4. byname' \in [Users -> NameRow]
  BY <1>1, NoRequestRight
<1>5. probe' \in {"none", "miss", "found"}
  BY <1>1, FollowRight DEF FollowTables
<1>6. CrawlInv'
  BY <1>1, <1>3, CompanyCounted
<1> QED
  BY <1>1, <1>2, <1>4, <1>5, <1>6, LookRows, LookSteps DEF CrawlRests

LEMMA EndLookupHolds == ASSUME FollowInv, CrawlInv, NEW l \in Lookers, EndLookup(l) PROVE FollowInv' /\ CrawlInv'
<1>1. [look[l] EXCEPT !.pc = "mark"] \in LookRow /\ NoLook \in LookRow
  BY LookRows
<1>2. LookStep(l, [look[l] EXCEPT !.pc = "mark"]) \/ LookStep(l, NoLook)
  BY DEF EndLookup
<1>3. probe' \in {"none", "miss", "found"}
  BY FollowRight DEF FollowTables, EndLookup
<1>4. CrawlRests
      /\ UNCHANGED <<fscene, follow, byname, hit, request, lookups, match, digest, flog, company, matches>>
  BY DEF EndLookup
<1> QED
  BY <1>1, <1>2, <1>3, <1>4, LookSame

LEMMA MarkLookupHolds == ASSUME FollowInv, CrawlInv, NEW l \in Lookers, MarkLookup(l) PROVE FollowInv' /\ CrawlInv'
<1> DEFINE u == look[l].user
<1>1. /\ byname' = byname \/ byname' = [byname EXCEPT ![u].status = "not_found"]
      /\ follow' = follow \/ follow' = [follow EXCEPT ![u].status = "not_found"]
  BY DEF MarkLookup
<1>2. LookStep(l, NoLook) /\ CrawlRests
      /\ UNCHANGED <<fscene, hit, probe, request, lookups, match, digest, flog, company, matches>>
  BY DEF MarkLookup
<1> HIDE DEF u
<1>3. byname' \in [Users -> NameRow]
  <2>1. byname \in [Users -> NameRow] /\ (u \in Users => [byname[u] EXCEPT !.status = "not_found"] \in NameRow)
    BY FollowRight DEF FollowTables, NameRow
  <2> QED
    BY <1>1, <2>1
<1>4. follow' \in [Users -> FollowRow]
  <2>1. follow \in [Users -> FollowRow] /\ (u \in Users => [follow[u] EXCEPT !.status = "not_found"] \in FollowRow)
    BY FollowRight DEF FollowTables, FollowRow
  <2> QED
    BY <1>1, <2>1
<1>5. probe' \in {"none", "miss", "found"}
  BY <1>2, FollowRight DEF FollowTables
<1> QED
  BY <1>2, <1>3, <1>4, <1>5, LookRows, LookSteps, CompanyStays DEF CrawlRests

----------------------------------------------------------------------------
(* Roles *)

LEMMA FollowGoes ==
    ASSUME FollowInv, FollowTables', DigestsOf', cscene' = cscene, fscene' = fscene, NoMails => NoMails',
           RolesOnce => RolesOnce'
    PROVE  FollowInv'
  BY DEF FollowInv

\* Roles are seen, or go with the follow.
LEMMA HitsStep ==
    ASSUME FollowTables, RolesOnce, UNCHANGED <<job, crawl, matches, match, digest, clog>>,
           flog'.mailed = flog.mailed, flog'.twice = flog.twice,
           \A u \in Users : \A j \in Jobs : /\ hit'[u][j] # "none" => hit[u][j] # "none"
                                            /\ hit'[u][j] = "new" => hit[u][j] = "new",
           \A u \in Users : \/ \A j \in Jobs : hit'[u][j] = "none"
                            \/ \A j \in Jobs : hit'[u][j] = "none" <=> hit[u][j] = "none",
           DigestsOf
    PROVE  RolesOnce'
<1>1. \A j \in Jobs : Carrying(j)' <=> Carrying(j)
  BY DEF Carrying
<1>2. \A j \in Jobs : Passed(j)' <=> Passed(j)
  BY <1>1 DEF Passed
<1>3. CarriedOnce'
  BY <1>1 DEF RolesOnce, CarriedOnce
<1>4. RolesPassed'
  BY <1>2 DEF RolesOnce, RolesPassed
<1>5. DigestsWhole'
  <2> SUFFICES ASSUME NEW d \in Digests, DigestBusy(d)
               PROVE  /\ \A j \in digest[d].jobs : Passed(j)'
                      /\ \/ \A j \in digest[d].jobs : hit'[digest[d].user][j] # "none"
                         \/ \A j \in digest[d].jobs : hit'[digest[d].user][j] = "none"
    BY DEF DigestsWhole, DigestBusy
  <2>1. digest[d].user \in Users /\ digest[d].jobs \subseteq Jobs
    BY DEF DigestsOf, FollowTables, DigestRow
  <2>2. /\ \A j \in digest[d].jobs : Passed(j)
        /\ \/ \A j \in digest[d].jobs : hit[digest[d].user][j] # "none"
           \/ \A j \in digest[d].jobs : hit[digest[d].user][j] = "none"
    BY DEF RolesOnce, DigestsWhole
  <2>3. CASE \A j \in Jobs : hit'[digest[d].user][j] = "none"
    BY <1>2, <2>1, <2>2, <2>3
  <2>4. CASE \A j \in Jobs : hit'[digest[d].user][j] = "none" <=> hit[digest[d].user][j] = "none"
    BY <1>2, <2>1, <2>2, <2>4
  <2> QED
    BY <2>1, <2>3, <2>4
<1>6. MailsRight'
  <2>1. ASSUME NEW u \in Users, MailedRight(u) PROVE MailedRight(u)'
    BY <2>1 DEF MailedRight, DigestBusy
  <2> QED
    BY <2>1 DEF RolesOnce, MailsRight
<1> QED
  BY <1>3, <1>4, <1>5, <1>6 DEF RolesOnce

LEMMA CommitUnfollowHolds ==
    ASSUME FollowInv, CrawlInv, NEW u \in Users, CommitUnfollow(u) PROVE FollowInv' /\ CrawlInv'
<1>1. /\ follow' = [follow EXCEPT ![u] = NoRow] /\ hit' = [hit EXCEPT ![u] = [j \in Jobs |-> "none"]]
      /\ Recount(request[u].count, request[u].loaded) /\ request' = [request EXCEPT ![u] = NoRequest]
      /\ CrawlRests /\ UNCHANGED <<fscene, byname, probe, lookups, look, match, digest, flog, matches>>
  BY DEF CommitUnfollow, Answer
<1>2. request[u].count \in 0..Cardinality(Users)
  BY FollowRight DEF RequestRow
<1>3. CrawlInv'
  BY <1>1, <1>2, CompanyCounted
<1>4. follow' \in [Users -> FollowRow] /\ request' \in [Users -> RequestRow]
  BY <1>1, NoRequestRight, FollowRight DEF FollowTables
<1>5. [j \in Jobs |-> "none"] \in [Jobs -> Marks] /\ hit \in [Users -> [Jobs -> Marks]]
  BY FollowRight DEF Marks, FollowTables
<1>6. hit' \in [Users -> [Jobs -> Marks]]
  BY <1>1, <1>5
<1>7. FollowTables'
  BY <1>1, <1>4, <1>6, FollowRight DEF FollowTables
<1>8. DigestsOf' /\ (NoMails => NoMails')
  BY <1>1 DEF FollowInv, DigestsOf, DigestBusy, NoMails
<1>9. \A v \in Users : \A j \in Jobs : hit'[v][j] = IF v = u THEN "none" ELSE hit[v][j]
  BY <1>1, <1>5
<1>10. RolesOnce => RolesOnce'
  BY <1>1, <1>9, HitsStep DEF CrawlRests, FollowInv
<1> QED
  BY <1>1, <1>3, <1>7, <1>8, <1>10, FollowGoes DEF CrawlRests

LEMMA SeenHolds == ASSUME FollowInv, CrawlInv, NEW u \in Users, Seen(u) PROVE FollowInv' /\ CrawlInv'
<1> DEFINE seen == [j \in Jobs |-> IF hit[u][j] = "none" THEN "none" ELSE "seen"]
<1>1. hit' = [hit EXCEPT ![u] = seen] /\ CrawlRests
      /\ UNCHANGED <<fscene, follow, byname, probe, request, lookups, look, match, digest, company, matches>>
  BY DEF Seen
<1>2. flog' \in FollowLog /\ flog'.mailed = flog.mailed /\ flog'.twice = flog.twice
  BY AsksNoted DEF Seen
<1>3. seen \in [Jobs -> Marks] /\ hit \in [Users -> [Jobs -> Marks]]
  BY FollowRight DEF Marks, FollowTables
<1>4. hit' \in [Users -> [Jobs -> Marks]]
  BY <1>1, <1>3
<1>5. FollowTables'
  BY <1>1, <1>2, <1>4, FollowRight DEF FollowTables
<1>6. DigestsOf' /\ (NoMails => NoMails')
  BY <1>1, <1>2 DEF FollowInv, DigestsOf, DigestBusy, NoMails
<1>7. \A v \in Users : \A j \in Jobs : hit'[v][j] = IF v = u THEN seen[j] ELSE hit[v][j]
  BY <1>1, <1>3
<1>8. \A v \in Users : \A j \in Jobs : /\ hit'[v][j] = "none" <=> hit[v][j] = "none"
                                       /\ hit'[v][j] = "new" => hit[v][j] = "new"
  BY <1>7
<1>9. RolesOnce => RolesOnce'
  BY <1>1, <1>2, <1>8, HitsStep DEF CrawlRests, FollowInv
<1>10. CrawlInv'
  BY <1>1, CompanyStays
<1> QED
  BY <1>1, <1>5, <1>6, <1>9, <1>10, FollowGoes DEF CrawlRests

LEMMA MatchReadsHolds == ASSUME FollowInv, CrawlInv, MatchReads PROVE FollowInv' /\ CrawlInv'
<1>1. PICK new \in matches : /\ matches' = matches \ {new}
                             /\ match' = [pc |-> "add", jobs |-> new \cap OpenJobs, users |-> Followers]
  BY DEF MatchReads
<1>2. CrawlRests
      /\ UNCHANGED <<fscene, follow, byname, hit, probe, request, lookups, look, digest, flog, company>>
  BY DEF MatchReads
<1>3. match' \in MatchRow /\ match'.jobs = new \cap OpenJobs
  BY <1>1 DEF MatchRow, OpenJobs, Followers
<1>4. FollowTables'
  BY <1>2, <1>3, FollowRight DEF FollowTables
<1>5. DigestsOf' /\ (NoMails => NoMails')
  BY <1>2 DEF FollowInv, DigestsOf, DigestBusy, NoMails
<1>6. \A j \in Jobs : Carrying(j)' => Carrying(j)
  BY <1>1, <1>2, <1>3 DEF Carrying, CrawlRests
<1>7. \A j \in Jobs : Passed(j) => Passed(j)'
  BY <1>2, <1>6 DEF Passed, CrawlRests
<1>8. ASSUME RolesOnce PROVE RolesOnce'
  <2>1. CarriedOnce'
    BY <1>1, <1>2, <1>3, <1>6, <1>8 DEF RolesOnce, CarriedOnce, CrawlRests
  <2> QED
    BY <1>2, <1>7, <1>8, <2>1, RolesStill, FollowRight DEF CrawlRests
<1>9. CrawlInv'
  BY <1>1, <1>2, CompanyStays
<1> QED
  BY <1>2, <1>4, <1>5, <1>8, <1>9, FollowGoes DEF CrawlRests

LEMMA MatchAddsHolds == ASSUME FollowInv, CrawlInv, MatchAdds PROVE FollowInv' /\ CrawlInv'
<1>1. match' = NoMatch /\ CrawlRests
      /\ UNCHANGED <<fscene, follow, byname, probe, request, lookups, look, digest, flog, company, matches>>
  BY DEF MatchAdds
<1>2. hit' = [u \in Users |-> [j \in Jobs |->
                 IF u \in match.users /\ j \in match.jobs \cap Wanted[u] /\ hit[u][j] = "none"
                 THEN "new" ELSE hit[u][j]]]
  BY DEF MatchAdds
<1>3. hit' \in [Users -> [Jobs -> Marks]]
  <2>1. \A u \in Users : \A j \in Jobs : hit[u][j] \in Marks
    BY FollowRight
  <2> QED
    BY <1>2, <2>1 DEF Marks
<1>4. match' \in MatchRow /\ match'.jobs = {}
  BY <1>1 DEF NoMatch, MatchRow
<1>5. FollowTables'
  BY <1>1, <1>3, <1>4, FollowRight DEF FollowTables
<1>6. DigestsOf' /\ (NoMails => NoMails')
  BY <1>1 DEF FollowInv, DigestsOf, DigestBusy, NoMails
<1>7. \A u \in Users : \A j \in Jobs : hit'[u][j] # hit[u][j] => hit[u][j] = "none" /\ hit'[u][j] = "new" /\ j \in match.jobs
  BY <1>2
<1>8. \A j \in Jobs : Carrying(j)' => Carrying(j)
  BY <1>1, <1>4 DEF Carrying, CrawlRests
<1>9. ASSUME RolesOnce PROVE RolesOnce'
  <2>1. CarriedOnce'
    BY <1>1, <1>4, <1>8, <1>9 DEF RolesOnce, CarriedOnce, CrawlRests
  <2>2. \A j \in Jobs : Passed(j) => Passed(j)'
    BY <1>1, <1>8 DEF Passed, CrawlRests
  <2>3. \A j \in Jobs : j \in match.jobs => Passed(j)' /\ ~Passed(j)
    BY <1>1, <1>4, <1>9 DEF Passed, Carrying, CrawlRests, RolesOnce, CarriedOnce
  <2>4. RolesPassed'
    BY <1>1, <1>7, <1>9, <2>2, <2>3 DEF RolesOnce, RolesPassed
  <2>5. \A d \in Digests : digest[d].jobs \subseteq Jobs
    BY FollowRight DEF DigestRow
  <2>6. \A d \in Digests : DigestBusy(d) => digest[d].user \in Users
    BY DEF FollowInv, DigestsOf
  <2>7. \A d \in Digests : DigestBusy(d) => \A j \in digest[d].jobs : hit'[digest[d].user][j] = hit[digest[d].user][j]
    BY <1>7, <1>9, <2>3, <2>5, <2>6 DEF RolesOnce, DigestsWhole
  <2>8. DigestsWhole'
    BY <1>1, <1>9, <2>2, <2>5, <2>7 DEF RolesOnce, DigestsWhole, DigestBusy
  <2>9. MailsRight'
    <3>1. \A u \in Users : \A j \in Jobs : hit'[u][j] # hit[u][j] => ~(flog.mailed[u][j] > 0)
      BY <1>7, <1>9, <2>3 DEF RolesOnce, RolesPassed
    <3>2. ASSUME NEW u \in Users, MailedRight(u) PROVE MailedRight(u)'
      BY <1>1, <3>1, <3>2 DEF MailedRight, DigestBusy
    <3> QED
      BY <1>1, <1>9, <3>2 DEF RolesOnce, MailsRight, CrawlRests
  <2> QED
    BY <2>1, <2>4, <2>8, <2>9 DEF RolesOnce
<1>10. CrawlInv'
  BY <1>1, CompanyStays
<1> QED
  BY <1>1, <1>5, <1>6, <1>9, <1>10, FollowGoes DEF CrawlRests

----------------------------------------------------------------------------
(* Digests *)

\* A step of a digest changes no bearer of a job.
LEMMA DigestCarries ==
    ASSUME UNCHANGED <<job, crawl, matches, match>>
    PROVE  /\ \A j \in Jobs : Passed(j)' <=> Passed(j)
           /\ CarriedOnce => CarriedOnce'
<1>1. \A j \in Jobs : Carrying(j)' <=> Carrying(j)
  BY DEF Carrying
<1> QED
  BY <1>1 DEF Passed, CarriedOnce

LEMMA DigestRows ==
    ASSUME FollowInv, NEW d \in Digests, NEW t \in DigestRow, digest' = [digest EXCEPT ![d] = t]
    PROVE  digest' \in [Digests -> DigestRow] /\ \A e \in Digests : digest'[e] = IF e = d THEN t ELSE digest[e]
  BY FollowRight DEF FollowTables

LEMMA NoDigestRight == NoDigest \in DigestRow /\ NoDigest.pc = "idle"
  BY DEF NoDigest, DigestRow

LEMMA DigestReadsHolds ==
    ASSUME FollowInv, CrawlInv, NEW d \in Digests, NEW u \in Users, DigestReads(d, u) PROVE FollowInv' /\ CrawlInv'
<1> DEFINE t == [pc |-> "send", user |-> u, jobs |-> Unmailed(u)]
           also == {v \in {u} : \E e \in Digests \ {d} : digest[e].user = v}
<1>1. /\ d \in fscene.processes /\ digest[d].pc = "idle" /\ CrawlRests
      /\ digest' = [digest EXCEPT ![d] = t]
      /\ flog' = [flog EXCEPT !.twice = flog.twice \cup also]
      /\ UNCHANGED <<fscene, follow, byname, hit, probe, request, lookups, look, match, company, matches>>
  BY DEF DigestReads
<1>2. \A j \in Unmailed(u) : j \in Jobs /\ job[j] = "open" /\ hit[u][j] = "new"
  BY DEF Unmailed, OpenJobs
<1>3. t \in DigestRow /\ t.pc = "send" /\ t.user = u /\ t.jobs = Unmailed(u)
  BY <1>2 DEF DigestRow
<1>4. \A e \in Digests : e # d /\ digest[e].user = u => u \in also
  OBVIOUS
<1>5. also \subseteq Users
  OBVIOUS
<1> HIDE DEF t, also
<1>6. digest' \in [Digests -> DigestRow] /\ \A e \in Digests : digest'[e] = IF e = d THEN t ELSE digest[e]
  BY <1>1, <1>3, DigestRows
<1>7. flog' \in FollowLog /\ flog'.mailed = flog.mailed /\ flog'.twice = flog.twice \cup also
  BY <1>1, <1>5, FollowRight DEF FollowLog
<1>8. FollowTables'
  BY <1>1, <1>6, <1>7, FollowRight DEF FollowTables
<1>9. DigestsOf'
  BY <1>3, <1>6 DEF FollowInv, DigestsOf, DigestBusy
<1>10. CrawlInv'
  BY <1>1, CompanyStays
<1>11. ASSUME RolesOnce PROVE RolesOnce'
  <2>1. (\A j \in Jobs : Passed(j)' <=> Passed(j)) /\ (CarriedOnce => CarriedOnce')
    BY <1>1, DigestCarries DEF CrawlRests
  <2>2. RolesPassed'
    BY <1>1, <1>7, <1>11, <2>1 DEF RolesOnce, RolesPassed
  <2>3. DigestsWhole'
    <3>1. ASSUME NEW e \in Digests, e # d, DigestBusy(e)'
          PROVE  /\ \A j \in digest'[e].jobs : Passed(j)'
                 /\ \/ \A j \in digest'[e].jobs : hit'[digest'[e].user][j] # "none"
                    \/ \A j \in digest'[e].jobs : hit'[digest'[e].user][j] = "none"
      <4>1. digest'[e] = digest[e] /\ digest[e].jobs \subseteq Jobs /\ DigestBusy(e) /\ hit' = hit
        BY <1>1, <1>6, <3>1, FollowRight DEF DigestRow, DigestBusy
      <4>2. /\ \A j \in digest[e].jobs : Passed(j)
            /\ \/ \A j \in digest[e].jobs : hit[digest[e].user][j] # "none"
               \/ \A j \in digest[e].jobs : hit[digest[e].user][j] = "none"
        BY <1>11, <4>1 DEF RolesOnce, DigestsWhole
      <4> QED
        BY <2>1, <4>1, <4>2
    <3>2. /\ \A j \in digest'[d].jobs : Passed(j)'
          /\ \A j \in digest'[d].jobs : hit'[digest'[d].user][j] # "none"
      BY <1>1, <1>2, <1>3, <1>6, <1>11, <2>1 DEF RolesOnce, RolesPassed
    <3> QED
      BY <3>1, <3>2 DEF DigestsWhole
  <2>4. MailsRight'
    <3> SUFFICES ASSUME clog'.deaths = 0, NEW v \in Users, v \notin flog'.twice PROVE MailedRight(v)'
      BY DEF MailsRight
    <3>1. MailedRight(v) /\ (v = u => \A e \in Digests : e # d => digest[e].user # u)
      BY <1>1, <1>4, <1>7, <1>11 DEF RolesOnce, MailsRight, CrawlRests
    <3>2. \A e \in Digests : DigestBusy(e)' /\ digest'[e].user = v => e = d \/ (DigestBusy(e) /\ digest[e].user = v)
      BY <1>6 DEF DigestBusy
    <3>3. CASE v = u
      <4>1. \A j \in Jobs : hit[u][j] = "new" => flog.mailed[u][j] = 0
        <5>1. ASSUME NEW j \in Jobs, hit[u][j] = "new" PROVE ~(flog.mailed[u][j] > 0)
          BY <1>1, <3>1, <3>3, <5>1 DEF MailedRight
        <5>2. \A j \in Jobs : flog.mailed[u][j] \in Nat
          BY FollowRight
        <5> QED
          BY <5>1, <5>2
      <4>2. \A e \in Digests : DigestBusy(e)' /\ digest'[e].user = v => e = d
        BY <3>1, <3>2, <3>3
      <4>3. (\A e, f \in Digests : DigestBusy(e) /\ DigestBusy(f) /\ digest[e].user = v /\ digest[f].user = v => e = f)'
        BY <4>2
      <4>4. (\A e \in Digests : digest[e].pc = "send" /\ digest[e].user = v =>
               \A j \in digest[e].jobs : flog.mailed[v][j] = 0)'
        <5>1. \A j \in t.jobs : flog.mailed[u][j] = 0
          BY <1>2, <1>3, <4>1
        <5>2. \A e \in Digests : digest'[e].pc = "send" /\ digest'[e].user = v => e = d
          BY <4>2 DEF DigestBusy
        <5>3. digest'[d] = t /\ flog'.mailed = flog.mailed
          BY <1>6, <1>7
        <5> QED
          BY <3>3, <5>1, <5>2, <5>3
      <4>5. (\A j \in Jobs : flog.mailed[v][j] <= 1)'
        BY <1>7, <3>1 DEF MailedRight
      <4>6. \A j \in Jobs : ~(hit'[v][j] = "new" /\ flog'.mailed[v][j] > 0)
        BY <1>1, <1>7, <3>3, <4>1
      <4> QED
        BY <4>3, <4>4, <4>5, <4>6 DEF MailedRight
    <3>4. CASE v # u
      <4>1. \A e \in Digests : digest'[e].user = v => digest'[e] = digest[e]
        BY <1>3, <1>6, <3>4
      <4>2. \A e \in Digests : digest[e].user = v /\ DigestBusy(e) => digest'[e] = digest[e]
        BY <1>1, <1>6 DEF DigestBusy
      <4> QED
        BY <1>1, <1>7, <3>1, <4>1, <4>2 DEF MailedRight, DigestBusy
    <3> QED
      BY <3>3, <3>4
  <2> QED
    BY <1>11, <2>1, <2>2, <2>3, <2>4 DEF RolesOnce
<1>12. ("purge" \notin cscene.events => RolesOnce') /\ ~(fscene.processes \cap Digests = {})
  BY <1>1, <1>11 DEF FollowInv
<1>13. FollowInv'
  BY <1>1, <1>8, <1>9, <1>12 DEF FollowInv, CrawlRests
<1> QED
  BY <1>10, <1>13

\* A digest ends that marks nothing: it was refused, or dies.
LEMMA DigestRests ==
    ASSUME FollowInv, NEW d \in Digests, digest' = [digest EXCEPT ![d] = NoDigest],
           UNCHANGED <<fscene, follow, byname, hit, probe, request, lookups, look, match, flog>>,
           UNCHANGED <<cscene, job, crawl, matches>>,
           clog'.deaths = 0 => clog.deaths = 0 /\ digest[d].pc # "mark"
    PROVE  FollowInv'
<1>1. digest' \in [Digests -> DigestRow] /\ \A e \in Digests : digest'[e] = IF e = d THEN NoDigest ELSE digest[e]
  BY NoDigestRight, DigestRows
<1>2. FollowTables'
  BY <1>1, FollowRight DEF FollowTables
<1>3. \A e \in Digests : DigestBusy(e)' => digest'[e] = digest[e] /\ DigestBusy(e)
  BY <1>1, NoDigestRight DEF DigestBusy
<1>4. DigestsOf'
  BY <1>3 DEF FollowInv, DigestsOf
<1>5. NoMails => NoMails'
  BY <1>1, NoDigestRight DEF NoMails
<1>6. ASSUME RolesOnce PROVE RolesOnce'
  <2>1. (\A j \in Jobs : Passed(j)' <=> Passed(j)) /\ (CarriedOnce => CarriedOnce')
    BY DigestCarries
  <2>2. RolesPassed'
    BY <1>6, <2>1 DEF RolesOnce, RolesPassed
  <2>3. DigestsWhole'
    <3> SUFFICES ASSUME NEW e \in Digests, DigestBusy(e)'
                 PROVE  /\ \A j \in digest'[e].jobs : Passed(j)'
                        /\ \/ \A j \in digest'[e].jobs : hit'[digest'[e].user][j] # "none"
                           \/ \A j \in digest'[e].jobs : hit'[digest'[e].user][j] = "none"
      BY DEF DigestsWhole
    <3>1. digest'[e] = digest[e] /\ digest[e].jobs \subseteq Jobs /\ DigestBusy(e)
      BY <1>3, FollowRight DEF DigestRow
    <3> QED
      BY <1>6, <2>1, <3>1 DEF RolesOnce, DigestsWhole
  <2>4. MailsRight'
    <3> SUFFICES ASSUME clog'.deaths = 0, NEW u \in Users, u \notin flog.twice PROVE MailedRight(u)'
      BY DEF MailsRight
    <3>1. MailedRight(u) /\ digest[d].pc # "mark"
      BY <1>6 DEF RolesOnce, MailsRight
    <3>2. \A e \in Digests : digest[e].pc = "mark" => digest'[e] = digest[e]
      BY <1>1, <3>1
    <3>3. \A e \in Digests : digest'[e].pc = "send" => digest'[e] = digest[e]
      BY <1>1, NoDigestRight
    <3> QED
      BY <1>3, <3>1, <3>2, <3>3 DEF MailedRight
  <2> QED
    BY <1>6, <2>1, <2>2, <2>3, <2>4 DEF RolesOnce
<1> QED
  BY <1>2, <1>4, <1>5, <1>6, FollowGoes

LEMMA DigestSendsHolds == ASSUME FollowInv, CrawlInv, NEW d \in Digests, DigestSends(d) PROVE FollowInv' /\ CrawlInv'
<1>1. digest[d].pc = "send" /\ CrawlRests
      /\ UNCHANGED <<fscene, follow, byname, hit, probe, request, lookups, look, match, company, matches>>
  BY DEF DigestSends
<1>2. CrawlInv'
  BY <1>1, CompanyStays
<1>3. CASE digest' = [digest EXCEPT ![d] = NoDigest] /\ flog' = flog
  BY <1>1, <1>2, <1>3, DigestRests DEF CrawlRests
<1>4. CASE ~(digest' = [digest EXCEPT ![d] = NoDigest] /\ flog' = flog)
  <2> DEFINE u == digest[d].user
             jobs == digest[d].jobs
             t == [digest[d] EXCEPT !.pc = "mark"]
             row == [j \in Jobs |-> IF j \in jobs /\ flog.mailed[u][j] < 2 THEN flog.mailed[u][j] + 1
                                    ELSE flog.mailed[u][j]]
  <2>1. digest' = [digest EXCEPT ![d] = t] /\ flog' = [flog EXCEPT !.mailed = [flog.mailed EXCEPT ![u] = row]]
    BY <1>4 DEF DigestSends
  <2>2. t \in DigestRow /\ t.pc = "mark" /\ t.user = u /\ t.jobs = jobs /\ jobs \subseteq Jobs
    BY FollowRight DEF DigestRow
  <2>3. u \in Users
    BY <1>1 DEF FollowInv, DigestsOf, DigestBusy
  <2>4. row \in [Jobs -> Nat]
    <3>1. \A j \in Jobs : flog.mailed[u][j] \in Nat
      BY <2>3, FollowRight
    <3> QED
      BY <3>1
  <2>5. \A j \in Jobs : row[j] = IF j \in jobs /\ flog.mailed[u][j] < 2 THEN flog.mailed[u][j] + 1 ELSE flog.mailed[u][j]
    OBVIOUS
  <2> HIDE DEF t, row
  <2>6. flog.mailed \in [Users -> [Jobs -> Nat]] /\ flog \in FollowLog
    BY FollowRight DEF FollowLog
  <2>7. /\ flog' \in FollowLog /\ flog'.twice = flog.twice
        /\ \A v \in Users : flog'.mailed[v] = IF v = u THEN row ELSE flog.mailed[v]
    <3> DEFINE m == [flog.mailed EXCEPT ![u] = row]
    <3>1. m \in [Users -> [Jobs -> Nat]] /\ \A v \in Users : m[v] = IF v = u THEN row ELSE flog.mailed[v]
      BY <2>4, <2>6
    <3> HIDE DEF m
    <3>2. flog' = [flog EXCEPT !.mailed = m]
      BY <2>1 DEF m
    <3> QED
      BY <2>6, <3>1, <3>2 DEF FollowLog
  <2>8. digest' \in [Digests -> DigestRow] /\ \A e \in Digests : digest'[e] = IF e = d THEN t ELSE digest[e]
    BY <2>1, <2>2, DigestRows
  <2>9. FollowTables'
    BY <1>1, <2>7, <2>8, FollowRight DEF FollowTables
  <2>10. \A e \in Digests : /\ DigestBusy(e)' <=> DigestBusy(e)
                            /\ digest'[e].user = digest[e].user /\ digest'[e].jobs = digest[e].jobs
    BY <1>1, <2>2, <2>8 DEF DigestBusy
  <2>11. DigestsOf'
    BY <2>10 DEF FollowInv, DigestsOf
  <2>12. NoMails => NoMails'
    BY <1>1 DEF NoMails
  <2>13. ASSUME RolesOnce PROVE RolesOnce'
    <3>1. (\A j \in Jobs : Passed(j)' <=> Passed(j)) /\ (CarriedOnce => CarriedOnce')
      BY <1>1, DigestCarries DEF CrawlRests
    <3>2. \A j \in jobs : Passed(j)
      BY <1>1, <2>13 DEF RolesOnce, DigestsWhole, DigestBusy
    <3>3. RolesPassed'
      <4> SUFFICES ASSUME NEW v \in Users, NEW j \in Jobs, hit'[v][j] # "none" \/ flog'.mailed[v][j] > 0
                   PROVE  Passed(j)
        BY <3>1 DEF RolesPassed
      <4>1. CASE v = u /\ j \in jobs
        BY <3>2, <4>1
      <4>2. CASE ~(v = u /\ j \in jobs)
        <5>1. flog'.mailed[v][j] = flog.mailed[v][j]
          BY <2>5, <2>7, <4>2
        <5> QED
          BY <1>1, <2>13, <5>1 DEF RolesOnce, RolesPassed
      <4> QED
        BY <4>1, <4>2
    <3>4. DigestsWhole'
      <4> SUFFICES ASSUME NEW e \in Digests, DigestBusy(e)'
                   PROVE  /\ \A j \in digest'[e].jobs : Passed(j)'
                          /\ \/ \A j \in digest'[e].jobs : hit'[digest'[e].user][j] # "none"
                             \/ \A j \in digest'[e].jobs : hit'[digest'[e].user][j] = "none"
        BY DEF DigestsWhole
      <4>1. digest'[e].user = digest[e].user /\ digest'[e].jobs = digest[e].jobs /\ digest[e].jobs \subseteq Jobs
            /\ DigestBusy(e)
        BY <2>10, FollowRight DEF DigestRow
      <4> QED
        BY <1>1, <2>13, <3>1, <4>1 DEF RolesOnce, DigestsWhole
    <3>5. MailsRight'
      <4> SUFFICES ASSUME clog'.deaths = 0, NEW v \in Users, v \notin flog.twice PROVE MailedRight(v)'
        BY <2>7 DEF MailsRight
      <4>1. MailedRight(v)
        BY <1>1, <2>13 DEF RolesOnce, MailsRight, CrawlRests
      <4>2. CASE v # u
        <5>1. \A e \in Digests : digest[e].user = v => digest'[e] = digest[e]
          BY <2>8, <4>2
        <5>2. flog'.mailed[v] = flog.mailed[v] /\ hit' = hit
          BY <1>1, <2>7, <4>2
        <5> QED
          BY <2>10, <4>1, <5>1, <5>2 DEF MailedRight
      <4>3. CASE v = u
        <5>1. \A e \in Digests : DigestBusy(e) /\ digest[e].user = u => e = d
          BY <1>1, <4>1, <4>3 DEF MailedRight, DigestBusy
        <5>2. \A j \in jobs : flog.mailed[u][j] = 0
          BY <1>1, <4>1, <4>3 DEF MailedRight
        <5>3. flog'.mailed[u] = row
          BY <2>3, <2>7
        <5>4. (\A e, f \in Digests : DigestBusy(e) /\ DigestBusy(f) /\ digest[e].user = v /\ digest[f].user = v => e = f)'
          BY <2>10, <4>1 DEF MailedRight
        <5>5. \A e \in Digests : ~(digest'[e].pc = "send" /\ digest'[e].user = v)
          <6>1. ASSUME NEW e \in Digests, digest'[e].pc = "send", digest'[e].user = v PROVE FALSE
            <7>1. DigestBusy(e) /\ digest[e].user = u
              BY <2>10, <4>3, <6>1 DEF DigestBusy
            <7> QED
              BY <2>2, <2>8, <5>1, <6>1, <7>1
          <6> QED
            BY <6>1
        <5>6. \A j \in Jobs : row[j] <= 1
          BY <2>5, <4>1, <4>3, <5>2 DEF MailedRight
        <5>7. \A j \in Jobs : hit'[v][j] = "new" /\ row[j] > 0 => digest'[d].pc = "mark" /\ digest'[d].user = u /\ j \in digest'[d].jobs
          <6>1. ASSUME NEW j \in Jobs, hit'[v][j] = "new", row[j] > 0, j \notin jobs PROVE FALSE
            <7>1. hit[u][j] = "new" /\ flog.mailed[u][j] > 0
              BY <1>1, <2>5, <4>3, <6>1
            <7>2. PICK e \in Digests : digest[e].pc = "mark" /\ digest[e].user = u /\ j \in digest[e].jobs
              BY <4>1, <4>3, <7>1 DEF MailedRight
            <7> QED
              BY <1>1, <5>1, <7>2 DEF DigestBusy
          <6> QED
            BY <2>2, <2>8, <6>1
        <5> QED
          BY <4>3, <5>3, <5>4, <5>5, <5>6, <5>7 DEF MailedRight
      <4> QED
        BY <4>2, <4>3
    <3> QED
      BY <2>13, <3>1, <3>3, <3>4, <3>5 DEF RolesOnce
  <2> QED
    BY <1>1, <1>2, <2>9, <2>11, <2>12, <2>13, FollowGoes DEF CrawlRests
<1> QED
  BY <1>3, <1>4

LEMMA DigestMarksHolds == ASSUME FollowInv, CrawlInv, NEW d \in Digests, DigestMarks(d) PROVE FollowInv' /\ CrawlInv'
<1> DEFINE u == digest[d].user
           jobs == digest[d].jobs
           row == [j \in Jobs |-> IF j \in jobs /\ hit[u][j] = "new" THEN "mailed" ELSE hit[u][j]]
<1>1. digest[d].pc = "mark" /\ CrawlRests /\ digest' = [digest EXCEPT ![d] = NoDigest]
      /\ UNCHANGED <<fscene, follow, byname, probe, request, lookups, look, match, flog, company, matches>>
  BY DEF DigestMarks
<1>2. hit' = IF \E j \in jobs : hit[u][j] = "none" THEN hit ELSE [hit EXCEPT ![u] = row]
  BY DEF DigestMarks
<1>3. u \in Users /\ jobs \subseteq Jobs /\ DigestBusy(d)
  BY <1>1, FollowRight DEF FollowInv, DigestsOf, DigestBusy, DigestRow
<1>4. \A j \in Jobs : row[j] = IF j \in jobs /\ hit[u][j] = "new" THEN "mailed" ELSE hit[u][j]
  OBVIOUS
<1>5. row \in [Jobs -> Marks]
  <2>1. \A j \in Jobs : hit[u][j] \in Marks
    BY <1>3, FollowRight
  <2> QED
    BY <2>1 DEF Marks
<1> HIDE DEF row
<1>6. hit' \in [Users -> [Jobs -> Marks]]
  BY <1>2, <1>5, FollowRight DEF FollowTables
<1>7. \A v \in Users : \A j \in Jobs : /\ hit'[v][j] # hit[v][j] => hit[v][j] = "new" /\ hit'[v][j] = "mailed"
                                       /\ hit'[v][j] = "none" <=> hit[v][j] = "none"
                                       /\ hit'[v][j] = "new" => hit[v][j] = "new"
  BY <1>2, <1>4, FollowRight DEF FollowTables
<1>8. (\E j \in jobs : hit[u][j] = "none") \/ \A j \in jobs : hit'[u][j] # "new"
  BY <1>2, <1>3, <1>4, FollowRight DEF FollowTables
<1>9. digest' \in [Digests -> DigestRow] /\ \A e \in Digests : digest'[e] = IF e = d THEN NoDigest ELSE digest[e]
  BY <1>1, NoDigestRight, DigestRows
<1>10. FollowTables'
  BY <1>1, <1>6, <1>9, FollowRight DEF FollowTables
<1>11. \A e \in Digests : DigestBusy(e)' => digest'[e] = digest[e] /\ DigestBusy(e)
  BY <1>9, NoDigestRight DEF DigestBusy
<1>12. DigestsOf' /\ (NoMails => NoMails')
  BY <1>1, <1>11 DEF FollowInv, DigestsOf, NoMails
<1>13. ASSUME RolesOnce PROVE RolesOnce'
  <2>1. (\A j \in Jobs : Passed(j)' <=> Passed(j)) /\ (CarriedOnce => CarriedOnce')
    BY <1>1, DigestCarries DEF CrawlRests
  <2>2. RolesPassed'
    BY <1>1, <1>7, <1>13, <2>1 DEF RolesOnce, RolesPassed
  <2>3. DigestsWhole'
    <3> SUFFICES ASSUME NEW e \in Digests, DigestBusy(e)'
                 PROVE  /\ \A j \in digest'[e].jobs : Passed(j)'
                        /\ \/ \A j \in digest'[e].jobs : hit'[digest'[e].user][j] # "none"
                           \/ \A j \in digest'[e].jobs : hit'[digest'[e].user][j] = "none"
      BY DEF DigestsWhole
    <3>1. digest'[e] = digest[e] /\ digest[e].jobs \subseteq Jobs /\ DigestBusy(e) /\ digest[e].user \in Users
      BY <1>11, FollowRight DEF DigestRow, FollowInv, DigestsOf
    <3>2. \A j \in digest[e].jobs : hit'[digest[e].user][j] = "none" <=> hit[digest[e].user][j] = "none"
      BY <1>7, <3>1
    <3> QED
      BY <1>13, <2>1, <3>1, <3>2 DEF RolesOnce, DigestsWhole
  <2>4. MailsRight'
    <3> SUFFICES ASSUME clog'.deaths = 0, NEW v \in Users, v \notin flog.twice PROVE MailedRight(v)'
      BY <1>1 DEF MailsRight
    <3>1. MailedRight(v)
      BY <1>1, <1>13 DEF RolesOnce, MailsRight, CrawlRests
    <3>2. ASSUME NEW j \in Jobs, hit'[v][j] = "new", flog.mailed[v][j] > 0
          PROVE  \E e \in Digests : digest'[e].pc = "mark" /\ digest'[e].user = v /\ j \in digest'[e].jobs
      <4>1. hit[v][j] = "new"
        BY <1>7, <3>2
      <4>2. PICK e \in Digests : digest[e].pc = "mark" /\ digest[e].user = v /\ j \in digest[e].jobs
        BY <3>1, <3>2, <4>1 DEF MailedRight
      <4>3. e # d
        <5> SUFFICES ASSUME e = d PROVE FALSE
          OBVIOUS
        <5>1. v = u /\ j \in jobs /\ hit[u][j] = "new"
          BY <4>1, <4>2
        <5>2. \A k \in jobs : hit[u][k] # "none"
          BY <1>3, <1>13, <5>1 DEF RolesOnce, DigestsWhole
        <5> QED
          BY <1>8, <3>2, <5>1, <5>2
      <4> QED
        BY <1>9, <4>2, <4>3
    <3>3. (\A e, f \in Digests : DigestBusy(e) /\ DigestBusy(f) /\ digest[e].user = v /\ digest[f].user = v => e = f)'
      BY <1>11, <3>1 DEF MailedRight
    <3>4. \A e \in Digests : digest'[e].pc = "send" => digest'[e] = digest[e]
      BY <1>9, NoDigestRight
    <3>5. (\A e \in Digests : digest[e].pc = "send" /\ digest[e].user = v =>
             \A j \in digest[e].jobs : flog.mailed[v][j] = 0)'
      BY <1>1, <3>1, <3>4 DEF MailedRight
    <3>6. (\A j \in Jobs : flog.mailed[v][j] <= 1)'
      BY <1>1, <3>1 DEF MailedRight
    <3> QED
      BY <1>1, <3>2, <3>3, <3>5, <3>6 DEF MailedRight
  <2> QED
    BY <1>13, <2>1, <2>2, <2>3, <2>4 DEF RolesOnce
<1>14. CrawlInv'
  BY <1>1, CompanyStays
<1> QED
  BY <1>1, <1>10, <1>12, <1>13, <1>14, FollowGoes DEF CrawlRests

LEMMA TaskDiesHolds == ASSUME FollowInv, CrawlInv, TaskDies PROVE FollowInv' /\ CrawlInv'
<1>1. clog' = [clog EXCEPT !.deaths = clog.deaths + 1]
      /\ UNCHANGED <<cscene, board, company, job, enabled, full, host, tick, tasks, matches, crawl>>
      /\ UNCHANGED <<fscene, follow, byname, hit, probe, request, lookups, flog>>
  BY DEF TaskDies
<1>2. clog \in CrawlLog /\ clog.deaths + 1 \in Nat /\ clog.deaths + 1 # 0
  BY DEF CrawlInv, CrawlTables, CrawlLog
<1>3. clog' \in CrawlLog /\ clog'.deaths # 0 /\ clog'.lost = clog.lost /\ clog'.outlived = clog.outlived
  BY <1>1, <1>2 DEF CrawlLog
<1>4. CrawlInv'
  <2>1. CompanyRight(company')
    BY <1>1 DEF CrawlInv, CrawlTables
  <2> QED
    BY <1>1, <1>3, <2>1, FollowsCrawl
<1>5. CASE \E l \in Lookers : LookStep(l, NoLook) /\ UNCHANGED <<match, digest>>
  <2>1. PICK l \in Lookers : LookStep(l, NoLook) /\ UNCHANGED <<match, digest>>
    BY <1>5
  <2>2. look' \in [Lookers -> LookRow]
    BY <2>1, LookRows, FollowRight DEF LookStep, FollowTables
  <2>3. FollowTables'
    BY <1>1, <2>1, <2>2, FollowRight DEF FollowTables
  <2> QED
    BY <1>1, <1>3, <1>4, <2>1, <2>3, FollowStill
<1>6. CASE match' = NoMatch /\ UNCHANGED <<look, digest>>
  <2>1. match' \in MatchRow /\ match'.jobs = {}
    BY <1>6 DEF NoMatch, MatchRow
  <2>2. FollowTables'
    BY <1>1, <1>6, <2>1, FollowRight DEF FollowTables
  <2>3. DigestsOf' /\ (NoMails => NoMails')
    BY <1>1, <1>6 DEF FollowInv, DigestsOf, DigestBusy, NoMails
  <2>4. \A j \in Jobs : Carrying(j)' => Carrying(j)
    BY <1>1, <2>1 DEF Carrying
  <2>5. \A j \in Jobs : Passed(j) => Passed(j)'
    BY <1>1, <2>4 DEF Passed
  <2>6. ASSUME RolesOnce PROVE RolesOnce'
    <3>1. CarriedOnce'
      BY <1>1, <2>1, <2>4, <2>6 DEF RolesOnce, CarriedOnce
    <3> QED
      BY <1>1, <1>3, <1>6, <2>5, <2>6, <3>1, RolesStill, FollowRight
  <2> QED
    BY <1>1, <1>4, <2>2, <2>3, <2>6, FollowGoes
<1>7. CASE \E d \in Digests : digest' = [digest EXCEPT ![d] = NoDigest] /\ UNCHANGED <<look, match>>
  <2>1. PICK d \in Digests : digest' = [digest EXCEPT ![d] = NoDigest] /\ UNCHANGED <<look, match>>
    BY <1>7
  <2> QED
    BY <1>1, <1>3, <1>4, <2>1, DigestRests
<1> QED
  BY <1>5, <1>6, <1>7 DEF TaskDies

LEMMA FollowStep == ASSUME FollowInv, CrawlInv, FollowNext PROVE FollowInv' /\ CrawlInv'
<1>1. ASSUME NEW u \in Users, UserAsks(u) PROVE FollowInv' /\ CrawlInv'
  <2>1. CASE Follow(u) \/ CommitFollow(u) \/ Unfollow(u) \/ CommitUnfollow(u)
    BY <2>1, FollowHolds, CommitFollowHolds, UnfollowHolds, CommitUnfollowHolds
  <2>2. CASE Forget(u) \/ AskName(u) \/ CommitName(u) \/ Seen(u)
    BY <2>2, ForgetHolds, AskNameHolds, CommitNameHolds, SeenHolds
  <2> QED
    BY <1>1, <2>1, <2>2 DEF UserAsks
<1>2. ASSUME NEW l \in Lookers, ResolveSeen(l) \/ Looking(l) \/ Lookups(l) PROVE FollowInv' /\ CrawlInv'
  <2>1. CASE Lookups(l)
    BY <2>1, StartLookupHolds DEF Lookups
  <2>2. CASE ResolveSeen(l) \/ Looking(l)
    BY <2>2, ResolveSeenHolds, ResolveHolds, AttachHolds, EndLookupHolds, MarkLookupHolds DEF Looking
  <2> QED
    BY <1>2, <2>1, <2>2
<1>3. CASE MatchReads \/ MatchAdds
  BY <1>3, MatchReadsHolds, MatchAddsHolds
<1>4. ASSUME NEW d \in Digests, (\E u \in Users : DigestReads(d, u)) \/ DigestSends(d) \/ DigestMarks(d)
      PROVE  FollowInv' /\ CrawlInv'
  BY <1>4, DigestReadsHolds, DigestSendsHolds, DigestMarksHolds
<1>5. CASE TaskDies
  BY <1>5, TaskDiesHolds
<1> QED
  BY <1>1, <1>2, <1>3, <1>4, <1>5 DEF FollowNext

LEMMA FollowStart == Init /\ FInit => FollowInv
<1> SUFFICES ASSUME Init, FInit PROVE FollowInv
  OBVIOUS
<1>1. /\ fscene \in FollowScene /\ follow \in [Users -> FollowRow] /\ byname \in [Users -> NameRow]
      /\ request \in [Users -> RequestRow] /\ look \in [Lookers -> LookRow] /\ match \in MatchRow
      /\ digest \in [Digests -> DigestRow] /\ probe \in {"none", "miss", "found"} /\ lookups \subseteq Users \X Nat
  <2>1. NoLook \in LookRow /\ NoMatch \in MatchRow
    BY DEF NoLook, LookRow, NoMatch, MatchRow
  <2> QED
    BY <2>1, FollowConstants, NoRequestRight, NoDigestRight DEF FInit
<1>2. hit \in [Users -> [Jobs -> Marks]] /\ \A u \in Users : \A j \in Jobs : hit[u][j] = "none"
  BY DEF FInit, Marks
<1>3. flog \in FollowLog /\ \A u \in Users : \A j \in Jobs : flog.mailed[u][j] = 0
  <2> DEFINE m == [u \in Users |-> [j \in Jobs |-> 0]]
  <2>1. m \in [Users -> [Jobs -> Nat]] /\ \A u \in Users : \A j \in Jobs : m[u][j] = 0
    OBVIOUS
  <2> HIDE DEF m
  <2>2. flog = [asks |-> 0, mailed |-> m, twice |-> {}]
    BY DEF FInit, m
  <2> QED
    BY <2>1, <2>2 DEF FollowLog
<1>4. FollowTables
  BY <1>1, <1>2, <1>3 DEF FollowTables
<1>5. \A d \in Digests : ~DigestBusy(d) /\ digest[d].pc = "idle"
  BY NoDigestRight DEF FInit, DigestBusy
<1>6. DigestsOf /\ NoMails
  BY <1>3, <1>5 DEF DigestsOf, NoMails
<1>7. \A j \in Jobs : ~Carrying(j)
  BY IdleRow DEF Init, FInit, Carrying, NoMatch
<1>8. CarriedOnce
  BY <1>7 DEF CarriedOnce, Carrying
<1>9. RolesPassed
  BY <1>2, <1>3 DEF RolesPassed
<1>10. DigestsWhole /\ MailsRight
  BY <1>2, <1>3, <1>5 DEF DigestsWhole, MailsRight, MailedRight, DigestBusy
<1> QED
  BY <1>4, <1>6, <1>8, <1>9, <1>10 DEF FollowInv, RolesOnce

\* A role is mailed once, in each situation where rows that are deleted are not mailed of.
LEMMA FollowKept == FollowInv => FollowTables /\ (RolesStay => MailedOnce)
<1> SUFFICES ASSUME FollowInv PROVE FollowTables /\ (RolesStay => MailedOnce)
  OBVIOUS
<1>1. CASE "purge" \notin cscene.events
  BY <1>1 DEF FollowInv, RolesOnce, MailsRight, MailedRight, MailedOnce
<1>2. CASE fscene.processes \cap Digests = {}
  BY <1>2 DEF FollowInv, NoMails, MailedOnce
<1> QED
  BY <1>1, <1>2 DEF RolesStay, FollowInv

----------------------------------------------------------------------------
(* What else the scoring and the sources keep: what a call is about, how    *)
(* many models are left to ask, and the place a search is at.               *)

AskedRight ==
    /\ scoring.about \subseteq Postings /\ scoring.left \in 0..Tries /\ ranked \subseteq Postings
    /\ scoring \in [pc : {"start", "batch", "one", "rank", "done", "crashed"}, about : SUBSET Postings, left : 0..Tries]

LEMMA AskedStart == ASSUME JobsKnown, Tries \in Nat PROVE ScoringInit => AskedRight
  BY DEF ScoringInit, AskedRight

LEMMA CallsRight ==
    ASSUME Tries \in Nat, NEW pc \in {"batch", "one", "rank", "done", "crashed"}, NEW jobs, jobs \subseteq Postings,
           Calls(pc, jobs), ranked' \subseteq Postings
    PROVE  AskedRight'
  BY DEF Calls, AskedRight

LEMMA AskedStep == ASSUME JobsKnown, Tries \in Nat, GInv, AskedRight, [ScoringNext]_gvars PROVE AskedRight'
<1>1. gscene.jobs \subseteq Postings
  BY DEF JobsKnown, GInv
<1>2. ASSUME NEW pc \in {"done", "crashed"}, Ends(pc), ranked' \subseteq Postings PROVE AskedRight'
  BY <1>2, CallsRight DEF Ends
<1>3. ASSUME NextOne, ranked' = ranked PROVE AskedRight'
  <2>1. CASE LeftOut(marks') = {} /\ Ends("done")
    BY <1>2, <1>3, <2>1 DEF AskedRight
  <2>2. CASE \E j \in LeftOut(marks') : Calls("one", {j})
    <3>1. PICK j \in LeftOut(marks') : Calls("one", {j})
      BY <2>2
    <3>2. {j} \subseteq Postings
      BY <1>1, <3>1 DEF LeftOut
    <3> QED
      BY <1>3, <3>1, <3>2, CallsRight DEF AskedRight
  <2> QED
    BY <1>3, <2>1, <2>2 DEF NextOne
<1>4. CASE Begin
  <2>1. ranked' = ranked
    BY <1>4 DEF Begin
  <2>2. \/ Ends("done")
        \/ Calls("one", gscene.jobs) \/ Calls("batch", gscene.jobs)
        \/ \E s \in SUBSET gscene.jobs : Calls("rank", s)
    BY <1>4 DEF Begin
  <2>3. ASSUME NEW s \in SUBSET gscene.jobs, Calls("rank", s) PROVE AskedRight'
    BY <1>1, <2>1, <2>3, CallsRight DEF AskedRight
  <2>4. CASE Ends("done")
    BY <1>2, <2>1, <2>4 DEF AskedRight
  <2>5. CASE Calls("one", gscene.jobs) \/ Calls("batch", gscene.jobs)
    BY <1>1, <2>1, <2>5, CallsRight DEF AskedRight
  <2> QED
    BY <2>2, <2>3, <2>4, <2>5
<1>5. CASE NoUse
  <2>1. scoring' = [scoring EXCEPT !.left = scoring.left - 1] /\ scoring.left > 0 /\ ranked' = ranked
    BY <1>5 DEF NoUse
  <2>2. scoring.left - 1 \in 0..Tries
    BY <2>1 DEF AskedRight
  <2> QED
    BY <2>1, <2>2 DEF AskedRight
<1>6. CASE Reply
  <2>1. CASE scoring.pc # "rank"
    BY <1>3, <1>6, <2>1 DEF Reply
  <2>2. CASE scoring.pc = "rank"
    <3>1. (Ends("crashed") /\ ranked' = ranked) \/ (Ends("done") /\ ranked' \subseteq scoring.about)
      BY <1>6, <2>2 DEF Reply
    <3>2. ranked' \subseteq Postings
      BY <3>1 DEF AskedRight
    <3> QED
      BY <1>2, <3>1, <3>2
  <2> QED
    BY <2>1, <2>2
<1>7. CASE NoModel
  <2>1. ranked' = ranked /\ (NextOne \/ Ends("done"))
    BY <1>7 DEF NoModel
  <2> QED
    BY <1>2, <1>3, <2>1 DEF AskedRight
<1>8. CASE UNCHANGED gvars
  BY <1>8 DEF gvars, AskedRight
<1> QED
  BY <1>4, <1>5, <1>6, <1>7, <1>8 DEF ScoringNext

LEMMA ScoringTyped == GInv /\ AskedRight => ScoringTypeOK
  BY DEF GInv, AskedRight, ScoringTypeOK, Mark

Placed(r) == r.place \in 1..sscene.places
PlacesRight == \A t \in Searches : Placed(search[t])

LEMMA PlacesStart == SInit => PlacesRight
<1> SUFFICES ASSUME SInit PROVE PlacesRight
  OBVIOUS
<1>1. sscene.places \in Nat \ {0}
  BY SourceAssumption DEF SInit, SourceScene
<1> QED
  BY <1>1 DEF SInit, PlacesRight, Placed, Unstarted

LEMMA PlaceGoes ==
    ASSUME SourcesTyped, PlacesRight, sscene' = sscene, NEW t \in Searches, NEW r, Goes(t, r), Placed(r)
    PROVE  PlacesRight'
  BY DEF SourcesTyped, PlacesRight, Placed, Goes

LEMMA PlaceAfter ==
    ASSUME SourcesTyped, NEW r \in SearchRow, Placed(r) PROVE Placed(AfterPlace(r))
<1>1. sscene.places \in Nat \ {0} /\ r.place \in Nat
  BY SceneTyped DEF SearchRow, Position
<1>2. CASE r.place < sscene.places
  <2>1. AfterPlace(r).place = r.place + 1
    BY <1>2 DEF AfterPlace, SearchRow
  <2> QED
    BY <1>1, <1>2, <2>1 DEF Placed
<1>3. CASE ~(r.place < sscene.places)
  <2>1. AfterPlace(r).place = r.place
    BY <1>3 DEF AfterPlace, SearchRow
  <2> QED
    BY <2>1 DEF Placed
<1> QED
  BY <1>2, <1>3

\* What a search goes on as is at one of its places.
GoesPlaced(t) == sscene' = sscene /\ \E r : Goes(t, r) /\ Placed(r)

LEMMA PlacesSource == ASSUME SourcesTyped, PlacesRight, NEW t \in Searches, SourceStep(t) PROVE GoesPlaced(t)
<1> DEFINE r == search[t]
<1>1. r \in SearchRow /\ Placed(r)
  BY DEF SourcesTyped, PlacesRight
<1>2. sscene.places \in Nat \ {0}
  BY SceneTyped
<1>3. ASSUME NEW s, s.place = r.place PROVE Placed(s)
  BY <1>1, <1>3 DEF Placed
<1>4. ASSUME NEW s, s.place = 1 PROVE Placed(s)
  BY <1>2, <1>4 DEF Placed
<1>5. CASE Plan(t)
  <2>1. PICK s : Goes(t, s) /\ s.place = r.place /\ sscene' = sscene
    BY <1>1, <1>5 DEF Plan, SearchRow
  <2> QED
    BY <1>3, <2>1 DEF GoesPlaced
<1>6. CASE BoardsDone(t)
  <2>1. CASE Goes(t, AfterPlace(r)) /\ sscene' = sscene
    BY <1>1, <2>1, PlaceAfter DEF GoesPlaced
  <2>2. CASE Goes(t, [r EXCEPT !.pc = "api"]) /\ sscene' = sscene
    <3>1. [r EXCEPT !.pc = "api"].place = r.place
      BY <1>1 DEF SearchRow
    <3> QED
      BY <1>3, <2>2, <3>1 DEF GoesPlaced
  <2> QED
    BY <1>6, <2>1, <2>2 DEF BoardsDone
<1>7. CASE AskBoards(t)
  <2> DEFINE sites == BoardCalls(r.plan)[r.call]
             last == r.tries + 1 = Attempts(sites)
  <2>1. sscene' = sscene /\ \E rows \in SUBSET sites : \E error \in BOOLEAN :
            Goes(t, Judged(r, sites, rows, error)) \/ Goes(t, [r EXCEPT !.tries = @ + 1])
    BY <1>7 DEF AskBoards
  <2>2. PICK rows \in SUBSET sites : sscene' = sscene /\ \E error \in BOOLEAN :
            Goes(t, Judged(r, sites, rows, error)) \/ Goes(t, [r EXCEPT !.tries = @ + 1])
    BY <2>1
  <2>3. PICK error \in BOOLEAN : Goes(t, Judged(r, sites, rows, error)) \/ Goes(t, [r EXCEPT !.tries = @ + 1])
    BY <2>2
  <2>4. Judged(r, sites, rows, error).place = r.place /\ [r EXCEPT !.tries = @ + 1].place = r.place
    BY <1>1 DEF Judged, SearchRow
  <2> QED
    BY <1>3, <2>2, <2>3, <2>4 DEF GoesPlaced
<1>8. CASE CountForUser(t) \/ CountForAll(t)
  <2>1. \E s : Goes(t, s) /\ s.place = r.place
    <3>1. CASE CountForUser(t)
      <4> DEFINE q == [search[t] EXCEPT !.key = Resolved(Who(t), search[t].scope), !.day = today]
      <4>1. q.place = r.place /\ NextScope(q).place = r.place /\ [q EXCEPT !.pc = "call"].place = r.place
            /\ [q EXCEPT !.pc = "total"].place = r.place
        BY <1>1 DEF NextScope, SearchRow
      <4>2. Goes(t, NextScope(q)) \/ Goes(t, [q EXCEPT !.pc = "call"]) \/ Goes(t, [q EXCEPT !.pc = "total"])
        BY <3>1 DEF CountForUser
      <4> QED
        BY <4>1, <4>2
    <3>2. CASE CountForAll(t)
      <4>1. NextScope(r).place = r.place /\ [r EXCEPT !.pc = "call"].place = r.place
        BY <1>1 DEF NextScope, SearchRow
      <4> QED
        BY <3>2, <4>1 DEF CountForAll, Moves
    <3> QED
      BY <1>8, <3>1, <3>2
  <2>2. sscene' = sscene
    BY <1>8 DEF CountForUser, CountForAll
  <2> QED
    BY <1>3, <2>1, <2>2 DEF GoesPlaced
<1>9. CASE AskApi(t)
  <2> DEFINE s == [r EXCEPT !.ok = @ \cup {"api"}]
             e == [r EXCEPT !.pc = "refund", !.err = TRUE, !.day = today]
  <2>1. sscene' = sscene /\ (Goes(t, e) \/ Goes(t, AfterPlace(s)) \/ Goes(t, NextScope(s)))
    BY <1>9 DEF AskApi
  <2>2. s \in SearchRow /\ s.place = r.place /\ NextScope(s).place = r.place /\ e.place = r.place
    <3>1. r.ok \cup {"api"} \subseteq Sources
      BY <1>1 DEF SearchRow, Sources
    <3> QED
      BY <1>1, <3>1 DEF NextScope, SearchRow
  <2> HIDE DEF s, e
  <2>3. Placed(AfterPlace(s))
    BY <1>3, <2>2, PlaceAfter
  <2> QED
    BY <1>3, <2>1, <2>2, <2>3 DEF GoesPlaced
<1>10. CASE GiveBack(t) \/ GiveBackAll(t)
  <2>1. NextScope(r).place = r.place /\ [r EXCEPT !.pc = "refundAll"].place = r.place
    BY <1>1 DEF NextScope, SearchRow
  <2>2. sscene' = sscene /\ (Goes(t, NextScope(r)) \/ Goes(t, [r EXCEPT !.pc = "refundAll"]))
    BY <1>10 DEF GiveBack, GiveBackAll
  <2> QED
    BY <1>3, <2>1, <2>2 DEF GoesPlaced
<1>11. CASE ApiDone(t)
  <2> DEFINE more == r.failed \cup (IF r.err /\ "api" \notin r.ok THEN {"api"} ELSE {})
             s == [r EXCEPT !.failed = more]
  <2>1. sscene' = sscene /\ Goes(t, AfterPlace(s))
    BY <1>11 DEF ApiDone
  <2>2. more \subseteq Sources
    BY <1>1 DEF SearchRow, Sources
  <2> HIDE DEF more
  <2>3. s \in SearchRow /\ s.place = r.place
    BY <1>1, <2>2 DEF SearchRow
  <2> HIDE DEF s
  <2> QED
    BY <1>3, <2>1, <2>3, PlaceAfter DEF GoesPlaced
<1>12. CASE ReadFeed(t) \/ CheckFailed(t) \/ UnlockFeed(t) \/ StoreFeed(t) \/ PollFeed(t)
  <2>1. /\ \A blob : FeedGot(r, blob).place = r.place
        /\ \A pc : [r EXCEPT !.pc = pc].place = r.place
    BY <1>1 DEF FeedGot, SearchRow
  <2>2. sscene' = sscene /\ ((\E blob : Goes(t, FeedGot(r, blob))) \/ \E pc : Goes(t, [r EXCEPT !.pc = pc]))
    BY <1>12 DEF ReadFeed, CheckFailed, UnlockFeed, StoreFeed, PollFeed
  <2> QED
    BY <1>3, <2>1, <2>2 DEF GoesPlaced
<1>13. CASE LockFeed(t) \/ MarkFailed(t)
  <2>1. \A pc : [r EXCEPT !.pc = pc].place = r.place
    BY <1>1 DEF SearchRow
  <2>2. sscene' = sscene /\ \E pc : Goes(t, [r EXCEPT !.pc = pc])
    BY <1>13 DEF LockFeed, MarkFailed, Moves
  <2> QED
    BY <1>3, <2>1, <2>2 DEF GoesPlaced
<1>14. CASE FetchFeed(t)
  <2>1. PICK a \in {"jobs", "empty", "error"} :
           Goes(t, [r EXCEPT !.got = a, !.pc = IF a = "error" THEN "mark" ELSE "unlock"]) /\ sscene' = sscene
    BY <1>14 DEF FetchFeed
  <2>2. [r EXCEPT !.got = a, !.pc = IF a = "error" THEN "mark" ELSE "unlock"].place = r.place
    BY <1>1 DEF SearchRow
  <2> QED
    BY <1>3, <2>1, <2>2 DEF GoesPlaced
<1>15. CASE ReadRest(t)
  <2>1. PICK broken : LET read == (r.plan \cap {"inbox", "index"}) \ broken
                      IN  Goes(t, [r EXCEPT !.ok = @ \cup read, !.failed = @ \cup broken, !.pc = "report"])
    BY <1>15 DEF ReadRest
  <2> DEFINE s == [r EXCEPT !.ok = @ \cup ((r.plan \cap {"inbox", "index"}) \ broken), !.failed = @ \cup broken, !.pc = "report"]
  <2>2. s.place = r.place
    BY <1>1 DEF SearchRow
  <2>3. Goes(t, s) /\ sscene' = sscene
    BY <1>15, <2>1 DEF ReadRest
  <2> QED
    BY <1>3, <2>2, <2>3 DEF GoesPlaced
<1>16. CASE ReadHealthy(t)
  <2> DEFINE s == [Unstarted EXCEPT !.pc = "healthy", !.ok = search[t].ok, !.failed = search[t].failed,
                                    !.rows = [x \in search[t].ok |-> health[x].fails]]
  <2>1. s.place = 1
    BY DEF Unstarted
  <2>2. Goes(t, s) /\ sscene' = sscene
    BY <1>16 DEF ReadHealthy
  <2> QED
    BY <1>4, <2>1, <2>2 DEF GoesPlaced
<1>17. CASE MarkSuccess(t) \/ MarkFailure(t)
  <2>1. /\ \A x, y, z : [r EXCEPT !.pc = "blame", !.ok = x, !.failed = y, !.rows = z].place = r.place
        /\ \A z : [r EXCEPT !.pc = "blame", !.rows = z].place = r.place
    BY <1>1 DEF SearchRow
  <2>2. CASE MarkSuccess(t)
    <3>1. Goes(t, [r EXCEPT !.pc = "blame", !.ok = {}, !.failed = Blamed(r), !.rows = <<>>]) /\ sscene' = sscene
      BY <2>2 DEF MarkSuccess
    <3> DEFINE s == [r EXCEPT !.pc = "blame", !.ok = {}, !.failed = Blamed(r), !.rows = <<>>]
    <3>2. s.place = r.place /\ Goes(t, s)
      BY <2>1, <3>1
    <3> HIDE DEF s
    <3> QED
      BY <1>3, <3>1, <3>2 DEF GoesPlaced
  <2>3. CASE MarkFailure(t)
    <3>1. Goes(t, [r EXCEPT !.pc = "blame", !.rows = <<>>]) /\ sscene' = sscene
      BY <2>3 DEF MarkFailure
    <3> QED
      BY <1>3, <2>1, <3>1 DEF GoesPlaced
  <2> QED
    BY <1>17, <2>2, <2>3
<1>18. CASE ReadFailing(t)
  <2>1. CASE r.failed = {}
    <3>1. Goes(t, [Unstarted EXCEPT !.pc = "done"]) /\ sscene' = sscene
      BY <1>18, <2>1 DEF ReadFailing
    <3>2. [Unstarted EXCEPT !.pc = "done"].place = 1
      BY DEF Unstarted
    <3> QED
      BY <1>4, <3>1, <3>2 DEF GoesPlaced
  <2>2. CASE r.failed # {}
    <3>1. PICK s : Goes(t, [r EXCEPT !.pc = "blaming", !.failed = @ \ {s}, !.rows = [x \in {s} |-> health[s].fails]])
      BY <1>18, <2>2 DEF ReadFailing
    <3>2. sscene' = sscene
      BY <1>18 DEF ReadFailing
    <3> DEFINE q == [r EXCEPT !.pc = "blaming", !.failed = @ \ {s}, !.rows = [x \in {s} |-> health[s].fails]]
    <3>3. q.place = r.place
      BY <1>1 DEF SearchRow
    <3> QED
      BY <1>3, <3>1, <3>2, <3>3 DEF GoesPlaced
  <2> QED
    BY <2>1, <2>2
<1> QED
  BY <1>5, <1>6, <1>7, <1>8, <1>9, <1>10, <1>11, <1>12, <1>13, <1>14, <1>15, <1>16, <1>17, <1>18 DEF SourceStep

LEMMA PlacesStep == ASSUME SourcesTyped, PlacesRight, [SNext]_svars PROVE PlacesRight'
<1>1. ASSUME NEW t \in Searches, SourceStep(t) PROVE PlacesRight'
  BY <1>1, PlacesSource, PlaceGoes DEF GoesPlaced
<1>2. ASSUME NEW t \in Searches, WorkerDies(t) PROVE PlacesRight'
  <2>1. Goes(t, [Unstarted EXCEPT !.pc = "dead"]) /\ sscene' = sscene /\ [Unstarted EXCEPT !.pc = "dead"].place = 1
    BY <1>2 DEF WorkerDies, Unstarted
  <2>2. Placed([Unstarted EXCEPT !.pc = "dead"])
    BY <2>1, SceneTyped DEF Placed
  <2> QED
    BY <2>1, <2>2, PlaceGoes
<1>3. ASSUME sscene' = sscene, search' = search PROVE PlacesRight'
  BY <1>3 DEF PlacesRight, Placed
<1> QED
  BY <1>1, <1>2, <1>3 DEF SNext, Expires, NewDay, SavesKey, Health, svars

LEMMA SourcesKept == SourcesInv /\ PlacesRight => STypeOK
<1> SUFFICES ASSUME SourcesInv, PlacesRight PROVE STypeOK
  OBVIOUS
<1>1. SourcesTyped
  BY DEF SourcesInv
<1>2. ASSUME NEW t \in Searches
      PROVE  /\ search[t].plan \subseteq Sources /\ search[t].ok \subseteq Sources
             /\ search[t].failed \subseteq Sources /\ search[t].place \in 1..sscene.places
  <2>1. search[t] \in SearchRow
    BY <1>1 DEF SourcesTyped
  <2> QED
    BY <2>1 DEF SearchRow, PlacesRight, Placed
<1>3. \A d \in Days : \A i \in 1..Len(Scopes) : \A c \in Counters : used[d][i][c] \in Int
  <2>1. ASSUME NEW d \in Days, NEW i \in 1..Len(Scopes), NEW c \in Counters PROVE used[d][i][c] \in Int
    <3>1. used[d] \in [1..Len(Scopes) -> [Counters -> Int]]
      BY <1>1 DEF SourcesTyped
    <3>2. used[d][i] \in [Counters -> Int]
      BY <3>1, Zenon
    <3> QED
      BY <3>2
  <2> QED
    BY <2>1
<1> QED
  BY <1>1, <1>2, <1>3 DEF SourcesTyped, STypeOK

----------------------------------------------------------------------------
(* All of them together: each part keeps its invariant by its own steps, and *)
(* a step of another part changes nothing the invariant is about.  Only the  *)
(* crawl and the follows need each other's.                                  *)

LEMMA CrawlIsQuiet == ASSUME CrawlInv, UNCHANGED cvars PROVE CrawlInv'
<1>1. UNCHANGED <<cscene, board, company, job, enabled, full, host, tick, tasks, matches, crawl, clog>>
  BY DEF cvars
<1>2. CompanyRight(company') /\ clog' \in CrawlLog
  BY <1>1 DEF CrawlInv, CrawlTables
<1> QED
  BY <1>1, <1>2, FollowsCrawl

LEMMA FollowIsQuiet == ASSUME FollowInv, UNCHANGED <<cvars, followed>> PROVE FollowInv'
<1>1. /\ UNCHANGED <<fscene, follow, byname, hit, probe, request, lookups, look, match, digest, flog>>
      /\ UNCHANGED <<cscene, job, crawl, matches, clog>>
  BY DEF cvars, followed, fvars
<1>2. FollowTables'
  BY <1>1 DEF FollowInv, FollowTables
<1> QED
  BY <1>1, <1>2, FollowStill

MailInv == CrawlInv /\ FollowInv /\ AlertsInv

LEMMA MailStart == DiscoveryInit => MailInv
  BY CrawlStart, FollowStart, AlertsStart DEF DiscoveryInit, MailInv

LEMMA MailStep == MailInv /\ [DiscoveryNext]_discoveryvars => MailInv'
<1> SUFFICES ASSUME MailInv, [DiscoveryNext]_discoveryvars PROVE MailInv'
  OBVIOUS
<1> USE DEF MailInv
<1>1. CASE CrawlMoves /\ UNCHANGED <<avars, svars, gvars>>
  <2>1. CrawlNext
    BY <1>1 DEF CrawlMoves
  <2> QED
    BY <1>1, <2>1, CrawlStep, CrawlMovesHolds, AlertsAreQuiet
<1>2. CASE FollowNext /\ UNCHANGED <<avars, svars, gvars>>
  BY <1>2, FollowStep, AlertsAreQuiet
<1>3. CASE AlertsNext /\ UNCHANGED <<cvars, followed, svars, gvars>>
  BY <1>3, AlertsStep, CrawlIsQuiet, FollowIsQuiet
<1>4. CASE UNCHANGED <<cvars, followed, avars>>
  BY <1>4, AlertsAreQuiet, CrawlIsQuiet, FollowIsQuiet
<1> QED
  BY <1>1, <1>2, <1>3, <1>4 DEF DiscoveryNext, discoveryvars

\* Counting the followers of a company gives a number of users.
LEMMA FollowTyped == CrawlInv /\ FollowInv => FollowTypeOK
<1> SUFFICES ASSUME CrawlInv, FollowInv PROVE FollowTypeOK
  OBVIOUS
<1>1. FollowTables
  BY DEF FollowInv
<1>2. company.followers \in 0..Cardinality(Users)
  BY DEF CrawlInv, CrawlTables, CompanyRight, CompanyRow
<1>3. ASSUME NEW u \in Users
      PROVE  /\ follow[u].status \in {"no", "following", "searching", "not_found"}
             /\ byname[u].status \in {"no", "searching", "not_found"}
             /\ \A j \in Jobs : hit[u][j] \in {"none", "new", "mailed", "seen"}
  <2>1. follow[u] \in FollowRow /\ byname[u] \in NameRow /\ hit[u] \in [Jobs -> Marks]
    BY <1>1 DEF FollowTables
  <2> QED
    BY <2>1 DEF FollowRow, NameRow, Marks
<1>4. \A l \in Lookers : look[l].pc \in {"idle", "resolve", "attach", "end", "mark"}
  BY <1>1 DEF FollowTables, LookRow
<1> QED
  BY <1>1, <1>2, <1>3, <1>4 DEF FollowTables, FollowTypeOK

\* MailsOnce for any boards, users, digests, alerts, ticks and workers, whatever
\* crawls overlap, fail or die: unless two digests or two runs worked for the user
\* at the same moment or a worker died, a role is mailed to a follower once
\* (target_companies.py:506-529) and a job of an alert once (celery_tasks.py:
\* 1123-1149).  RolesStay: a role whose row is deleted and added again is another
\* row, which is rightly mailed again.
THEOREM RolesAreMailedOnce == DiscoverySpec => [](RolesStay => MailsOnce)
<1>1. MailInv => (RolesStay => MailsOnce)
  BY FollowKept, AlertsKept DEF MailInv, MailsOnce
<1> QED
  BY <1>1, MailStart, MailStep, PTL DEF DiscoverySpec

\* The sources as long as no midnight falls between two steps, and the scoring.
FoundInv == (OneDay => SourcesInv /\ PlacesRight) /\ GInv /\ AskedRight

LEMMA FoundStart == ASSUME JobsKnown, Tries \in Nat PROVE DiscoveryInit => FoundInv
  BY SourcesInit, PlacesStart, InitJudged, AskedStart DEF DiscoveryInit, FoundInv

LEMMA FoundStep ==
    ASSUME JobsKnown, Tries \in Nat
    PROVE  FoundInv /\ [DiscoveryNext]_discoveryvars => FoundInv'
<1> SUFFICES ASSUME FoundInv, [DiscoveryNext]_discoveryvars PROVE FoundInv'
  OBVIOUS
<1>1. [SNext]_svars /\ [ScoringNext]_gvars
  BY DEF DiscoveryNext, discoveryvars
<1>2. ASSUME OneDay' PROVE SourcesInv' /\ PlacesRight'
  <2>1. OneDay /\ SourcesInv /\ PlacesRight
    BY <1>1, <1>2, SceneStays DEF FoundInv
  <2>2. SourcesTyped
    BY <2>1 DEF SourcesInv
  <2> QED
    BY <1>1, <2>1, <2>2, SourcesNext, PlacesStep
<1>3. GInv' /\ AskedRight'
  BY <1>1, StepJudges, AskedStep DEF FoundInv
<1> QED
  BY <1>2, <1>3 DEF FoundInv

\* TypesOK for any companies, users, alerts, searches, sources and models: all
\* rows and tasks are well formed, the reads of a career site stay within the
\* slots of its host (ats_crawler.py:62-83) however crawls and live checks are
\* refused, fail or die, and a search stands at one of its places.
THEOREM DiscoveryIsTyped ==
    ASSUME JobsKnown, Tries \in Nat
    PROVE  DiscoverySpec => [](OneDay => TypesOK)
<1>1. MailInv => TypeOK /\ SlotsBounded /\ FollowTypeOK /\ AlertTypeOK
  BY CrawlKept, FollowTyped, AlertsKept DEF MailInv
<1>2. FoundInv => ScoringTypeOK /\ (OneDay => STypeOK)
  BY ScoringTyped, SourcesKept DEF FoundInv
<1>3. MailInv /\ FoundInv => (OneDay => TypesOK)
  BY <1>1, <1>2 DEF TypesOK
<1>4. DiscoveryInit => FoundInv
  BY FoundStart
<1>5. FoundInv /\ [DiscoveryNext]_discoveryvars => FoundInv'
  BY FoundStep
<1> QED
  BY <1>3, <1>4, <1>5, MailStart, MailStep, PTL DEF DiscoverySpec
=============================================================================
