----------------------------- MODULE SearchFeed -----------------------------
(***************************************************************************)
(* A streaming search (app/core/celery_tasks.py): one Celery task per job   *)
(* title scrapes, claims, scores and shows jobs, several titles at once.    *)
(* Their common state is the jobs table (app/services/job_store.py), the    *)
(* user's jobs, and the run in Redis (app/services/pipeline_progress.py):   *)
(* the claimed job keys, the feed, which entry of the feed each job became, *)
(* and how many titles are complete.                                        *)
(*                                                                          *)
(* Each database transaction and each Redis command is a step of its own,   *)
(* except that a command and the EXPIRE after it are one.  The feed is      *)
(* what a client that upserts by id shows: the newest entry of each job.    *)
(***************************************************************************)
EXTENDS Naturals, Sequences

CONSTANTS
    Jobs,             \* jobs, identified by their job_key
    Titles,           \* the keywords of the search in order, one name for each place
    AtOnce,           \* SEARCH_TITLES_AT_ONCE
    ScoreBatch,       \* SCORE_BATCH_SIZE
    Places,           \* bound: how many times one title's search hands over jobs
    Found,            \* what a place may give a title: sequences of copies of jobs
    Stored,           \* the copy of each job stored before the search, 0 for none
    FirstRow,         \* the user's row of each job before the search
    IncludeSeen,      \* the search includes seen jobs
    CountApplicants,  \* the search runs LinkedIn and its applicant counts
    MaxFaults,        \* bound: exceptions in tasks and processes that die
    MayCancel,        \* the user cancels the search or an admin the account
    UserStates,       \* bound: the states the user gives jobs in the meantime
    NoJob

TitleSet == {Titles[i] : i \in DOMAIN Titles}
Total == Len(Titles)

ASSUME SearchConstants ==
    /\ Titles \in Seq(TitleSet) /\ Titles # << >>
    /\ \A i, k \in DOMAIN Titles : Titles[i] = Titles[k] => i = k
    /\ AtOnce \in Nat \ {0} /\ ScoreBatch \in Nat \ {0}
    /\ {Places, MaxFaults} \subseteq Nat
    /\ {IncludeSeen, CountApplicants, MayCancel} \subseteq BOOLEAN
    /\ \A t \in TitleSet : Found[t] \subseteq Seq([job : Jobs, copy : Nat])
    /\ Stored \in [Jobs -> Nat]
    /\ \A j \in Jobs : FirstRow[j].state # "none" => Stored[j] # 0
    /\ FirstRow \in [Jobs -> [state : {"none", "seen", "filtered", "saved", "hidden", "applied"},
                            known : {"none", "low", "good"}]]
    /\ UserStates \subseteq {"saved", "hidden", "seen"}
    /\ NoJob \notin Jobs

VARIABLES
    canonical,  \* the best copy of each job stored so far (jobs), 0 for none
    userJob,    \* the user's row of each job (user_jobs)
    claimed,    \* Redis set of the job keys some title took
    recorded,   \* Redis hash: the feed entry of each job, as last remembered
    feed,       \* the newest entry of each job in the Redis list
    meta,       \* Redis hash: status and keywords_completed of the run
    waiting,    \* Redis list of the titles that wait for their turn
    dispatcher, \* dispatch_pipeline_group
    task,       \* search_and_score_keyword of each title
    history     \* what happened to each job, and what went wrong

vars == <<canonical, userJob, claimed, recorded, feed, meta, waiting, dispatcher, task, history>>

----------------------------------------------------------------------------
(* Values *)

\* A copy is a number: the better copy is the larger one (source rank, then
\* the length of the description).
Better(c, d) == IF c > d THEN c ELSE d

Sticky == {"saved", "hidden", "applied"}
RowStates == Sticky \cup {"none", "seen", "filtered"}
Known == {"none", "low", "good"}      \* the score stored for this search profile
UserRow == [state : RowStates, known : Known]

\* An entry of the feed; copy 0 is no entry, or a removed one.
Entry == [copy : Nat, scored : BOOLEAN, applicants : BOOLEAN]
NoEntry == [copy |-> 0, scored |-> FALSE, applicants |-> FALSE]
EntryOf(copy, scored) == [copy |-> copy, scored |-> scored, applicants |-> FALSE]

\* Places in search_and_score_keyword and what it calls.  `after` is where
\* the task goes once it has finished with its job.
\* Fault: the next title is started inside the try block.
InTryWithNext ==
    {"search", "triage", "claim", "decide", "replace", "push", "remember", "score", "finish",
     "drain", "remove", "takeout", "forget", "read", "write", "reload", "applicants", "count", "next"}

InTry == {"search", "triage", "claim", "decide", "replace", "push", "remember", "score", "finish",
          "drain", "remove", "takeout", "forget", "read", "write", "reload", "applicants", "count"}
Steps == InTry \cup {"none", "queued", "skip", "next", "start", "over", "lost"}
Running == InTry \cup {"skip", "next", "start"}

NotStarted ==
    [pc |-> "none", after |-> "triage", places |-> 0, todo |-> << >>, pending |-> << >>,
     scored |-> << >>, kept |-> {}, job |-> NoJob, best |-> 0, entry |-> NoEntry, keeping |-> FALSE,
     row |-> [state |-> "none", known |-> "none"], result |-> [state |-> "none", known |-> "none"],
     title |-> "none"]

Init ==
    /\ canonical = Stored
    /\ userJob = FirstRow
    /\ claimed = {}
    /\ recorded = [j \in Jobs |-> NoEntry]
    /\ feed = [j \in Jobs |-> NoEntry]
    /\ meta = [status |-> "running", completed |-> 0]
    /\ waiting = << >>
    /\ dispatcher = [pc |-> "hold", left |-> << >>]
    /\ task = [t \in TitleSet |-> NotStarted]
    /\ history = [overlap |-> {}, asked |-> [j \in Jobs |-> 0], failures |-> 0, crashes |-> 0]

Cancelled == meta.status = "cancelled"
Completed == meta.completed >= Total
MayFault == history.failures + history.crashes < MaxFaults

At(t, pc) == task[t].pc = pc
Set(t, record) == task' = [task EXCEPT ![t] = record]
Goto(t, pc) == Set(t, [task[t] EXCEPT !.pc = pc])

\* Tasks that are about to write the feed entry of job j from what they read.
Writers(j) ==
    {t \in TitleSet : /\ task[t].job = j
                      /\ task[t].pc \in {"replace", "push", "remember", "takeout", "forget"}}

\* t writes the entry of its job while others hold what they read of it.
NoteOverlap(t) ==
    history' = IF Writers(task[t].job) \ {t} = {} THEN history
               ELSE [history EXCEPT !.overlap = @ \cup {task[t].job}]

----------------------------------------------------------------------------
(* Dispatch *)

Hold ==
    /\ dispatcher.pc = "hold"
    /\ waiting' = SubSeq(Titles, AtOnce + 1, Total)
    /\ dispatcher' = [pc |-> "send", left |-> SubSeq(Titles, 1, IF AtOnce < Total THEN AtOnce ELSE Total)]
    /\ UNCHANGED <<canonical, userJob, claimed, recorded, feed, meta, task, history>>

Send ==
    /\ dispatcher.pc = "send" /\ dispatcher.left # << >>
    /\ Goto(Head(dispatcher.left), "queued")
    /\ dispatcher' = [dispatcher EXCEPT !.left = Tail(@)]
    /\ UNCHANGED <<canonical, userJob, claimed, recorded, feed, meta, waiting, history>>

TakeTitle(t) ==
    /\ At(t, "queued")
    /\ Set(t, [task[t] EXCEPT !.pc = IF Cancelled THEN "skip" ELSE "search", !.places = Places])
    /\ UNCHANGED <<canonical, userJob, claimed, recorded, feed, meta, waiting, dispatcher, history>>

\* keywords_completed + 1
Count(t) ==
    /\ At(t, "count") \/ At(t, "skip")
    /\ meta' = [meta EXCEPT !.completed = @ + 1]
    /\ Set(t, [NotStarted EXCEPT !.pc = "next"])
    /\ UNCHANGED <<canonical, userJob, claimed, recorded, feed, waiting, dispatcher, history>>

\* Fault: a title that was skipped does not start the next one.
NextTitleUnlessSkipped(t) ==
    /\ At(t, "next")
    /\ IF waiting = << >> \/ Cancelled
       THEN Goto(t, "over") /\ UNCHANGED waiting
       ELSE /\ Set(t, [task[t] EXCEPT !.pc = "start", !.title = Head(waiting)])
            /\ waiting' = Tail(waiting)
    /\ UNCHANGED <<canonical, userJob, claimed, recorded, feed, meta, dispatcher, history>>

\* The next waiting title gets its turn.
NextTitle(t) ==
    /\ At(t, "next")
    /\ IF waiting = << >>
       THEN Goto(t, "over") /\ UNCHANGED waiting
       ELSE /\ Set(t, [task[t] EXCEPT !.pc = "start", !.title = Head(waiting)])
            /\ waiting' = Tail(waiting)
    /\ UNCHANGED <<canonical, userJob, claimed, recorded, feed, meta, dispatcher, history>>

StartTitle(t) ==
    /\ At(t, "start")
    /\ task' = [task EXCEPT ![t].pc = "over", ![t].title = "none", ![task[t].title].pc = "queued"]
    /\ UNCHANGED <<canonical, userJob, claimed, recorded, feed, meta, waiting, dispatcher, history>>

\* Redis cannot be asked for the next title: none is started.
NextFails(t) ==
    /\ At(t, "next") /\ MayFault
    /\ Goto(t, "over")
    /\ history' = [history EXCEPT !.failures = @ + 1]
    /\ UNCHANGED <<canonical, userJob, claimed, recorded, feed, meta, waiting, dispatcher>>

\* The title cannot be queued: it is lost, and counts as complete.
StartFails(t) ==
    /\ At(t, "start") /\ MayFault
    /\ Set(t, [NotStarted EXCEPT !.pc = "over"])
    /\ meta' = [meta EXCEPT !.completed = @ + 1]
    /\ history' = [history EXCEPT !.failures = @ + 1]
    /\ UNCHANGED <<canonical, userJob, claimed, recorded, feed, waiting, dispatcher>>

----------------------------------------------------------------------------
(* One place of one title: triage of the copies it gave *)

Search(t) ==
    /\ At(t, "search")
    /\ LET fresh == [NotStarted EXCEPT !.kept = task[t].kept] IN
       IF task[t].places = 0
       THEN Set(t, [fresh EXCEPT !.pc = IF CountApplicants THEN "applicants" ELSE "count"])
       ELSE \E found \in Found[t] :
              Set(t, [fresh EXCEPT !.pc = "triage", !.places = task[t].places - 1, !.todo = found])
    /\ UNCHANGED <<canonical, userJob, claimed, recorded, feed, meta, waiting, dispatcher, history>>

\* upsert_copy: the better copy stays.
Upsert(t) ==
    /\ At(t, "triage") /\ task[t].todo # << >>
    /\ LET found == Head(task[t].todo) IN
       /\ canonical' = [canonical EXCEPT ![found.job] = Better(@, found.copy)]
       /\ Set(t, [task[t] EXCEPT !.pc = "claim", !.after = "triage", !.todo = Tail(@),
                                 !.job = found.job])
    /\ UNCHANGED <<userJob, claimed, recorded, feed, meta, waiting, dispatcher, history>>

\* Fault: the title looks whether the job is in the feed instead of claiming it first.
ClaimShown(t) ==
    /\ At(t, "claim")
    /\ Goto(t, IF recorded[task[t].job].copy # 0 THEN "reload" ELSE "decide")
    /\ claimed' = claimed \cup {task[t].job}
    /\ UNCHANGED <<canonical, userJob, recorded, feed, meta, waiting, dispatcher, history>>

\* Only the first title to add the key handles the job; the others may have
\* stored a better copy of it.
Claim(t) ==
    /\ At(t, "claim")
    /\ Goto(t, IF task[t].job \in claimed THEN "reload" ELSE "decide")
    /\ claimed' = claimed \cup {task[t].job}
    /\ UNCHANGED <<canonical, userJob, recorded, feed, meta, waiting, dispatcher, history>>

\* What to do with a job the user may have met before.
Decision(row) ==
    CASE row.state = "none" -> "score"
      [] row.state \in {"hidden", "applied"} -> "skip"
      [] row.state = "filtered" -> [none |-> "score", low |-> "skip", good |-> "reuse"][row.known]
      [] OTHER -> IF ~IncludeSeen THEN "skip" ELSE IF row.known = "none" THEN "score" ELSE "reuse"

\* t goes on to show `job` with its score, in the copy it has of it.
Keeping(t, job, copy) ==
    [task[t] EXCEPT !.pc = "push", !.job = job, !.keeping = TRUE,
                    !.entry = EntryOf(copy, TRUE), !.result = [state |-> "seen", known |-> "good"]]

\* Reads the best copy and the user's row.  A row that was there is not read
\* again when the prefilter stops the job.
Decide(t) ==
    /\ At(t, "decide")
    /\ LET job == task[t].job
           row == userJob[job]
           decision == Decision(row) IN
       \/ Goto(t, "triage")                       \* blocked by the user's filters, or skipped
       \/ /\ decision = "reuse"
          /\ Set(t, [Keeping(t, job, canonical[job]) EXCEPT !.kept = @ \cup {job},
                                                            !.result.known = row.known])
       \/ /\ decision = "score"                   \* the prefilter stops it
          /\ Set(t, [task[t] EXCEPT !.pc = IF row.state = "none" THEN "read" ELSE "write", !.row = row,
                                    !.result = [state |-> "filtered", known |-> "none"]])
       \/ /\ decision = "score"                   \* shown while it is scored
          /\ Set(t, [task[t] EXCEPT !.pc = "push", !.keeping = FALSE,
                                    !.entry = EntryOf(canonical[job], FALSE),
                                    !.pending = Append(@, [job |-> job, copy |-> canonical[job]])])
    /\ UNCHANGED <<canonical, userJob, claimed, recorded, feed, meta, waiting, dispatcher, history>>

----------------------------------------------------------------------------
(* The feed: read the remembered entry, append to the list, remember it *)

\* replace_recorded: reads which copy is shown.
Replace(t) ==
    /\ At(t, "replace")
    /\ LET shown == recorded[task[t].job] IN
       IF shown.copy \in {0, task[t].best}
       THEN Goto(t, task[t].after)
       ELSE Set(t, [task[t] EXCEPT !.pc = "push", !.keeping = FALSE,
                                   !.entry = [shown EXCEPT !.copy = task[t].best]])
    /\ UNCHANGED <<canonical, userJob, claimed, recorded, feed, meta, waiting, dispatcher, history>>

Push(t) ==
    /\ At(t, "push")
    /\ feed' = [feed EXCEPT ![task[t].job] = task[t].entry]
    /\ Goto(t, "remember")
    /\ NoteOverlap(t)
    /\ UNCHANGED <<canonical, userJob, claimed, recorded, meta, waiting, dispatcher>>

Remember(t) ==
    /\ At(t, "remember")
    /\ recorded' = [recorded EXCEPT ![task[t].job] = task[t].entry]
    /\ Goto(t, IF task[t].keeping THEN "read" ELSE task[t].after)
    /\ NoteOverlap(t)
    /\ UNCHANGED <<canonical, userJob, claimed, feed, meta, waiting, dispatcher>>

\* remove_recorded: read, append the removed entry, forget it.
Remove(t) ==
    /\ At(t, "remove")
    /\ Goto(t, IF recorded[task[t].job].copy = 0 THEN task[t].after ELSE "takeout")
    /\ UNCHANGED <<canonical, userJob, claimed, recorded, feed, meta, waiting, dispatcher, history>>

TakeOut(t) ==
    /\ At(t, "takeout")
    /\ feed' = [feed EXCEPT ![task[t].job] = NoEntry]
    /\ Goto(t, "forget")
    /\ NoteOverlap(t)
    /\ UNCHANGED <<canonical, userJob, claimed, recorded, meta, waiting, dispatcher>>

Forget(t) ==
    /\ At(t, "forget")
    /\ recorded' = [recorded EXCEPT ![task[t].job] = NoEntry]
    /\ Goto(t, task[t].after)
    /\ NoteOverlap(t)
    /\ UNCHANGED <<canonical, userJob, claimed, feed, meta, waiting, dispatcher>>

----------------------------------------------------------------------------
(* Scoring *)

ToScore(t) ==
    /\ At(t, "triage") /\ task[t].todo = << >>
    /\ Goto(t, "score")
    /\ UNCHANGED <<canonical, userJob, claimed, recorded, feed, meta, waiting, dispatcher, history>>

\* The next batch goes to the AI; a cancelled run takes out what is left.
Score(t) ==
    /\ At(t, "score")
    /\ LET pending == task[t].pending
           size == IF ScoreBatch < Len(pending) THEN ScoreBatch ELSE Len(pending)
           batch == SubSeq(pending, 1, size) IN
       CASE pending = << >> -> Goto(t, "search") /\ UNCHANGED history
         [] pending # << >> /\ Cancelled -> Goto(t, "drain") /\ UNCHANGED history
         [] OTHER ->
              /\ \E answer \in [1..size -> {"failed", "low", "good"}] :
                   Set(t, [task[t] EXCEPT
                             !.pc = "finish", !.pending = SubSeq(pending, size + 1, Len(pending)),
                             !.scored = [i \in 1..size |-> [job |-> batch[i].job, copy |-> batch[i].copy,
                                                            score |-> answer[i]]]])
              /\ history' = [history EXCEPT !.asked =
                                [j \in Jobs |-> IF \E i \in 1..size : batch[i].job = j THEN @[j] + 1 ELSE @[j]]]
    /\ UNCHANGED <<canonical, userJob, claimed, recorded, feed, meta, waiting, dispatcher>>

Drain(t) ==
    /\ At(t, "drain")
    /\ IF task[t].pending = << >> THEN Goto(t, "search")
       ELSE Set(t, [task[t] EXCEPT !.pc = "remove", !.after = "drain",
                                   !.job = Head(task[t].pending).job, !.pending = Tail(@)])
    /\ UNCHANGED <<canonical, userJob, claimed, recorded, feed, meta, waiting, dispatcher, history>>

\* _finish_scored for the next job of the batch.
FinishScored(t) ==
    /\ At(t, "finish")
    /\ IF task[t].scored = << >> THEN Goto(t, "score")
       ELSE LET done == Head(task[t].scored)
                next == [task[t] EXCEPT !.scored = Tail(@), !.after = "finish", !.job = done.job] IN
            Set(t, CASE done.score = "failed" -> [next EXCEPT !.pc = "remove"]
                     [] done.score = "low" -> [next EXCEPT !.pc = "read",
                                                           !.result = [state |-> "filtered", known |-> "low"]]
                     [] OTHER -> [Keeping(t, done.job, done.copy) EXCEPT
                                    !.scored = next.scored, !.after = "finish", !.kept = @ \cup {done.job}])
    /\ UNCHANGED <<canonical, userJob, claimed, recorded, feed, meta, waiting, dispatcher, history>>

\* record_user_job: read the row, then insert or update it.
ReadRow(t) ==
    /\ At(t, "read")
    /\ Set(t, [task[t] EXCEPT !.pc = "write", !.row = userJob[task[t].job]])
    /\ UNCHANGED <<canonical, userJob, claimed, recorded, feed, meta, waiting, dispatcher, history>>

\* An insert that meets a row reads it and updates it.  An update writes the
\* state only when it is not what was read.
Updated(row, read, result) ==
    [row EXCEPT !.known = result.known,
                !.state = IF read.state \in Sticky \cup {result.state} THEN @ ELSE result.state]

\* Fault: a job stays in the feed in the copy that was scored.
WriteRowOnly(t) ==
    /\ At(t, "write")
    /\ LET j == task[t].job
           read == IF task[t].row.state = "none" THEN userJob[j] ELSE task[t].row
           result == task[t].result IN
       /\ userJob' = [userJob EXCEPT ![j] = IF @.state = "none" THEN result ELSE Updated(@, read, result)]
       /\ Goto(t, IF result.known = "low" /\ result.state = "filtered" THEN "remove" ELSE task[t].after)
    /\ UNCHANGED <<canonical, claimed, recorded, feed, meta, waiting, dispatcher, history>>

WriteRow(t) ==
    /\ At(t, "write")
    /\ LET j == task[t].job
           read == IF task[t].row.state = "none" THEN userJob[j] ELSE task[t].row
           result == task[t].result IN
       /\ userJob' = [userJob EXCEPT ![j] = IF @.state = "none" THEN result ELSE Updated(@, read, result)]
       /\ Goto(t, CASE result.state = "seen" -> "reload"
                    [] result.state = "filtered" /\ result.known = "low" -> "remove"
                    [] OTHER -> task[t].after)
    /\ UNCHANGED <<canonical, claimed, recorded, feed, meta, waiting, dispatcher, history>>

\* The best copy as it is now: another title may have stored a better one
\* while this one was scored, or this title may have brought it.
Reload(t) ==
    /\ At(t, "reload")
    /\ Set(t, [task[t] EXCEPT !.pc = "replace", !.best = canonical[task[t].job]])
    /\ UNCHANGED <<canonical, userJob, claimed, recorded, feed, meta, waiting, dispatcher, history>>

\* update_recorded: the entry as it is remembered, with the count.
UpdateRecorded(t, j) ==
    LET shown == recorded[j] IN
    Set(t, IF shown.copy = 0 \/ shown.applicants
           THEN [task[t] EXCEPT !.kept = @ \ {j}]
           ELSE [task[t] EXCEPT !.kept = @ \ {j}, !.pc = "push", !.after = "applicants", !.job = j,
                                !.keeping = FALSE, !.entry = [shown EXCEPT !.applicants = TRUE]])

\* add_applicant_counts: a count was found for some of the jobs kept.
ApplicantsFound(t) ==
    /\ At(t, "applicants")
    /\ \E j \in task[t].kept : UpdateRecorded(t, j)
    /\ UNCHANGED <<canonical, userJob, claimed, recorded, feed, meta, waiting, dispatcher, history>>

ApplicantsEnd(t) ==
    /\ At(t, "applicants")
    /\ Goto(t, "count")
    /\ UNCHANGED <<canonical, userJob, claimed, recorded, feed, meta, waiting, dispatcher, history>>

----------------------------------------------------------------------------
(* What goes wrong, and what users do *)

\* An exception: the title still counts as complete.
Fail(t) ==
    /\ task[t].pc \in InTry /\ MayFault
    /\ Set(t, [NotStarted EXCEPT !.pc = "count"])
    /\ history' = [history EXCEPT !.failures = @ + 1]
    /\ UNCHANGED <<canonical, userJob, claimed, recorded, feed, meta, waiting, dispatcher>>

\* Nor can Redis be reached to count it: the title is never counted.
CountLost(t) ==
    /\ At(t, "count") /\ MayFault
    /\ Goto(t, "next")
    /\ history' = [history EXCEPT !.crashes = @ + 1]
    /\ UNCHANGED <<canonical, userJob, claimed, recorded, feed, meta, waiting, dispatcher>>

\* A worker dies, or cannot count a title it skips; its task was acknowledged when it was taken.
Crash(t) ==
    /\ task[t].pc \in Running /\ MayFault
    /\ Set(t, [NotStarted EXCEPT !.pc = "lost"])
    /\ history' = [history EXCEPT !.crashes = @ + 1]
    /\ UNCHANGED <<canonical, userJob, claimed, recorded, feed, meta, waiting, dispatcher>>

\* It dies, or cannot queue a title.
DispatcherCrash ==
    /\ dispatcher.pc # "over" /\ MayFault
    /\ dispatcher' = [pc |-> "over", left |-> << >>]
    /\ history' = [history EXCEPT !.crashes = @ + 1]
    /\ UNCHANGED <<canonical, userJob, claimed, recorded, feed, meta, waiting, task>>

Cancel ==
    /\ MayCancel /\ ~Cancelled
    /\ meta' = [meta EXCEPT !.status = "cancelled"]
    /\ UNCHANGED <<canonical, userJob, claimed, recorded, feed, waiting, dispatcher, task, history>>

\* The user saves or hides a job, or marks it seen.
SetState(j, state) ==
    /\ canonical[j] # 0 /\ userJob[j].state \notin {"applied", state}
    /\ userJob' = [userJob EXCEPT ![j].state = state]
    /\ UNCHANGED <<canonical, claimed, recorded, feed, meta, waiting, dispatcher, task, history>>

Step(t) ==
    \/ TakeTitle(t) \/ Search(t) \/ Upsert(t) \/ Claim(t) \/ Decide(t)
    \/ Replace(t) \/ Push(t) \/ Remember(t) \/ Remove(t) \/ TakeOut(t) \/ Forget(t)
    \/ ToScore(t) \/ Score(t) \/ Drain(t) \/ FinishScored(t)
    \/ ReadRow(t) \/ WriteRow(t) \/ Reload(t) \/ ApplicantsFound(t) \/ ApplicantsEnd(t)
    \/ Count(t) \/ NextTitle(t) \/ StartTitle(t)

Next ==
    \/ Hold \/ Send \/ DispatcherCrash \/ Cancel
    \/ \E t \in TitleSet : Step(t) \/ NextFails(t) \/ StartFails(t) \/ Fail(t) \/ CountLost(t) \/ Crash(t)
    \/ \E j \in Jobs, state \in UserStates : SetState(j, state)

Spec == Init /\ [][Next]_vars

\* Workers take the tasks of the queue and carry them out.
FairSpec == Spec /\ WF_vars(Hold \/ Send) /\ \A t \in TitleSet : WF_vars(Step(t))

----------------------------------------------------------------------------
(* Properties *)

Item == [job : Jobs, copy : Nat]
ScoredItem == [job : Jobs, copy : Nat, score : {"failed", "low", "good"}]

\* The tables, the run in Redis and every task are well formed, and no more
\* titles count as complete than the search has (get_run_meta).
TypeOK ==
    /\ canonical \in [Jobs -> Nat]
    /\ userJob \in [Jobs -> UserRow]
    /\ claimed \subseteq Jobs
    /\ recorded \in [Jobs -> Entry]
    /\ feed \in [Jobs -> Entry]
    /\ meta \in [status : {"running", "cancelled"}, completed : 0..Total]
    /\ waiting \in Seq(TitleSet)
    /\ dispatcher \in [pc : {"hold", "send", "over"}, left : Seq(TitleSet)]
    /\ DOMAIN task = TitleSet
    /\ \A t \in TitleSet :
         /\ task[t].pc \in Steps /\ task[t].after \in {"triage", "finish", "drain", "applicants"}
         /\ task[t].todo \in Seq(Item)
         /\ task[t].pending \in Seq(Item) /\ task[t].scored \in Seq(ScoredItem)
         /\ task[t].job \in Jobs \cup {NoJob} /\ task[t].best \in Nat
         /\ task[t].kept \subseteq Jobs
         /\ task[t].entry \in Entry
         /\ task[t].pc = "start" => task[t].title \in TitleSet

\* A job that several titles and sources surface goes to the AI once in a
\* run, however the titles interleave (claim_job_key).
ScoredOnce == \A j \in Jobs : history.asked[j] <= 1

\* A run that reads as completed has no title left to search: none waits, is
\* queued, works, or is about to start another one (get_run_meta).
CompletedMeansDone ==
    Completed => /\ waiting = << >>
                 /\ \A t \in TitleSet : task[t].pc \in {"none", "next", "over", "lost"}

\* Once every title is over, and none failed or died, the feed shows each
\* job it still shows with its score and in the best copy stored, and nothing
\* a title took out has come back; except for the jobs whose entry one title
\* wrote while another was about to write what it had read before.
FeedSettles ==
    /\ \A t \in TitleSet : task[t].pc = "over"
    /\ history.failures = 0
    => \A j \in Jobs \ history.overlap :
         /\ feed[j] = recorded[j]
         /\ feed[j].copy # 0 => feed[j].scored /\ feed[j].copy = canonical[j]

\* Whatever titles fail or are cancelled, a run whose processes survive, and
\* whose counts reach Redis, completes, so that clients stop polling.  _start_next_title: "the title is
\* lost, but the run must still be able to finish".  It holds while fewer
\* starts fail than titles run at once.
RunCompletes == <>(Completed \/ history.crashes > 0)

\* pipeline_progress.replace_recorded: "Scores are kept: it is the same job."
\* An entry that has its score is never followed by one that has none.
ScoresAreKept ==
    [][\A j \in Jobs : feed[j].scored /\ feed'[j].copy # 0 => feed'[j].scored]_vars
=============================================================================
