----------------------------- MODULE JobAlerts -----------------------------
(***************************************************************************)
(* Saved job alerts of one user (app/services/job_alerts.py, the alert      *)
(* tasks of core/celery_tasks.py, api/routes/alerts.py): ticks of beat      *)
(* claim the alerts that are due, each claim becomes a task that searches,  *)
(* scores what the user was never shown, keeps the run and sends a digest.  *)
(*                                                                          *)
(* `day` counts the times the alerts' hour has come round; an alert with    *)
(* next_run_at = n is due from day n on, and 0 stands for NULL.             *)
(***************************************************************************)
EXTENDS Naturals, FiniteSets

CONSTANTS
    Alerts, Offers,
    Beats,          \* ticks that may overlap
    Workers,        \* processes of the default queue
    MaxDay,         \* bound: days
    MaxRuns,        \* bound: runs
    MaxFaults,      \* bound: exceptions and deaths
    Quota,          \* job_alerts a user may run a day
    AlertScenes     \* the situations looked at, see AlertScene

\* A situation: the processes that run, the alerts the user may save, what
\* else the user does, and how many days there are.
AlertScene == [processes : SUBSET (Beats \cup Workers), alerts : SUBSET Alerts,
               events : SUBSET {"edit", "delete", "now"}, days : 1..MaxDay, faults : 0..MaxFaults]

ASSUME AlertConstants ==
    /\ AlertScenes \subseteq AlertScene
    /\ {MaxDay, MaxRuns, MaxFaults, Quota} \subseteq Nat
    /\ "none" \notin Alerts

VARIABLES
    ascene,     \* the situation, which never changes
    day,
    alert,      \* the rows of job_alerts
    uses,       \* the day's counter of job_alerts uses
    queue,      \* run_job_alert tasks waiting, by alert
    beat,       \* what each tick of beat is doing
    task,       \* what each worker is doing
    run,        \* the rows of job_alert_runs, in the order of their creation
    shown,      \* jobs the user was shown: user_jobs says "seen"
    alog        \* history, for the properties

avars == <<ascene, day, alert, uses, queue, beat, task, run, shown, alog>>

NoAlert == [exists |-> FALSE, enabled |-> FALSE, next |-> 0]
IdleBeat == [pc |-> "idle", todo |-> {}, alert |-> "none", read |-> 0, won |-> {}]
IdleTask == [pc |-> "idle", alert |-> "none", run |-> 0, fresh |-> {}, kept |-> {}]
NoRun == [alert |-> "none", status |-> "none", jobs |-> {}, emailed |-> FALSE]

\* claims: claims of each alert since it last became due; sent: digests a job was in; shared: jobs
\* two runs were about to show at once.
NoLog == [claims |-> [a \in Alerts |-> 0], sent |-> [j \in Offers |-> 0],
          shared |-> {}, faults |-> 0]

AlertsInit ==
    /\ ascene \in AlertScenes
    /\ day = 1
    /\ alert = [a \in Alerts |-> NoAlert]
    /\ uses = 0
    /\ queue = [a \in Alerts |-> 0]
    /\ beat = [b \in Beats |-> IdleBeat]
    /\ task = [w \in Workers |-> IdleTask]
    /\ run = [i \in 1..MaxRuns |-> NoRun]
    /\ shown = {}
    /\ alog = NoLog

Due(a) == alert[a].enabled /\ alert[a].next \in 1..day
At(w, pc) == task[w].pc = pc
Finish(w) == task' = [task EXCEPT ![w] = IdleTask]

----------------------------------------------------------------------------
(* The user *)

\* create_alert, update_alert: the next run is the next time the hour comes.
Save(a, enabled) ==
    /\ a \in ascene.alerts
    /\ alert[a].exists => "edit" \in ascene.events
    /\ alert' = [alert EXCEPT ![a] = [exists |-> TRUE, enabled |-> enabled,
                                      next |-> IF enabled THEN day + 1 ELSE 0]]
    /\ alog' = [alog EXCEPT !.claims[a] = 0]
    /\ alert' # alert
    /\ UNCHANGED <<ascene, day, uses, queue, beat, task, run, shown>>

\* delete_alert: the runs go with it.
Delete(a) ==
    /\ "delete" \in ascene.events /\ alert[a].exists
    /\ alert' = [alert EXCEPT ![a] = NoAlert]
    /\ run' = [i \in DOMAIN run |-> IF run[i].alert = a THEN [NoRun EXCEPT !.status = "deleted"]
                                    ELSE run[i]]
    /\ alog' = [alog EXCEPT !.claims[a] = 0]
    /\ UNCHANGED <<ascene, day, uses, queue, beat, task, shown>>

RunNow(a) ==
    /\ "now" \in ascene.events /\ alert[a].exists /\ queue[a] = 0
    /\ queue' = [queue EXCEPT ![a] = 1]
    /\ UNCHANGED <<ascene, day, alert, uses, beat, task, run, shown, alog>>

DayPasses ==
    /\ day < ascene.days
    /\ day' = day + 1
    /\ uses' = 0
    /\ alog' = [alog EXCEPT !.claims =
           [a \in Alerts |-> IF alert[a].enabled /\ alert[a].next = day + 1 THEN 0 ELSE @[a]]]
    /\ UNCHANGED <<ascene, alert, queue, beat, task, run, shown>>

----------------------------------------------------------------------------
(* alerts_tick *)

\* claim_due: the rows that are due, with the next_run_at of the first.
BeatReads(b) ==
    /\ b \in ascene.processes /\ beat[b].pc = "idle"
    /\ \E a \in {x \in Alerts : Due(x)} :
         beat' = [beat EXCEPT ![b] = [IdleBeat EXCEPT !.pc = "claim", !.alert = a,
                      !.read = alert[a].next, !.todo = {x \in Alerts : Due(x)} \ {a}]]
    /\ UNCHANGED <<ascene, day, alert, uses, queue, task, run, shown, alog>>

\* The conditional UPDATE, committed.
BeatClaims(b) ==
    LET t == beat[b]
        wins == alert[t.alert].exists /\ alert[t.alert].next = t.read
        left == [t EXCEPT !.pc = IF t.todo = {} THEN "queue" ELSE "again", !.alert = "none",
                          !.read = 0]
    IN /\ t.pc = "claim"
       /\ IF wins
          THEN /\ alert' = [alert EXCEPT ![t.alert].next = day + 1]
               /\ beat' = [beat EXCEPT ![b] = [left EXCEPT !.won = @ \cup {t.alert}]]
               /\ alog' = [alog EXCEPT !.claims[t.alert] = @ + 1]
          ELSE /\ beat' = [beat EXCEPT ![b] = left]
               /\ UNCHANGED <<alert, alog>>
       /\ UNCHANGED <<ascene, day, uses, queue, task, run, shown>>

\* The commit has expired the other rows: each is read again when its turn
\* comes, with the next_run_at it has by then.  A row that is gone raises, and
\* what was claimed is never queued.
BeatReadsAgain(b) ==
    LET t == beat[b] IN
    /\ t.pc = "again"
    /\ \E a \in t.todo :
         IF alert[a].exists
         THEN beat' = [beat EXCEPT ![b] = [t EXCEPT !.pc = "claim", !.alert = a,
                                              !.read = alert[a].next, !.todo = @ \ {a}]]
         ELSE beat' = [beat EXCEPT ![b] = IdleBeat]
    /\ UNCHANGED <<ascene, day, alert, uses, queue, task, run, shown, alog>>

BeatQueues(b) ==
    /\ beat[b].pc = "queue"
    /\ queue' = [a \in Alerts |-> queue[a] + IF a \in beat[b].won THEN 1 ELSE 0]
    /\ beat' = [beat EXCEPT ![b] = IdleBeat]
    /\ UNCHANGED <<ascene, day, alert, uses, task, run, shown, alog>>

BeatDies(b) ==
    /\ alog.faults < ascene.faults
    /\ beat[b].pc # "idle"
    /\ beat' = [beat EXCEPT ![b] = IdleBeat]
    /\ alog' = [alog EXCEPT !.faults = @ + 1]
    /\ UNCHANGED <<ascene, day, alert, uses, queue, task, run, shown>>

----------------------------------------------------------------------------
(* run_job_alert *)

NextRun == CHOOSE i \in 1..MaxRuns : /\ run[i].status = "none"
                                     /\ \A k \in 1..MaxRuns : k < i => run[k].status # "none"

\* The task starts, and keeps a row of the run unless the alert is gone.
Start(w, a) ==
    /\ w \in ascene.processes /\ At(w, "idle") /\ queue[a] > 0
    /\ \E i \in 1..MaxRuns : run[i].status = "none"
    /\ queue' = [queue EXCEPT ![a] = @ - 1]
    /\ IF alert[a].exists
       THEN /\ run' = [run EXCEPT ![NextRun] = [NoRun EXCEPT !.alert = a, !.status = "running"]]
            /\ task' = [task EXCEPT ![w] = [IdleTask EXCEPT !.pc = "admit", !.alert = a,
                                                            !.run = NextRun]]
       ELSE UNCHANGED <<run, task>>
    /\ UNCHANGED <<ascene, day, alert, uses, beat, shown, alog>>

RunIs(w, status) == [run EXCEPT ![task[w].run].status = IF @ = "deleted" THEN @ ELSE status]

\* may_run: an account that may not, or the day's uses are up.
Admit(w) ==
    /\ At(w, "admit")
    /\ \/ /\ uses < Quota
          /\ uses' = uses + 1
          /\ task' = [task EXCEPT ![w].pc = "triage"]
          /\ UNCHANGED run
       \/ /\ run' = RunIs(w, "skipped")
          /\ Finish(w)
          /\ UNCHANGED uses
    /\ UNCHANGED <<ascene, day, alert, queue, beat, shown, alog>>

\* The search finds jobs; those the user was shown are left out.
Triage(w) ==
    /\ At(w, "triage")
    /\ \E found \in SUBSET Offers :
         LET fresh == found \ shown IN
         /\ task' = [task EXCEPT ![w].fresh = fresh, ![w].pc = "score"]
         /\ alog' = [alog EXCEPT !.shared = @ \cup
                {j \in fresh : \E v \in Workers \ {w} : j \in task[v].fresh}]
    /\ UNCHANGED <<ascene, day, alert, uses, queue, beat, run, shown>>

\* The scored jobs are shown; one no model answered for stays new, and only
\* one with min_score or more is kept.
Score(w) ==
    /\ At(w, "score")
    /\ \E scored \in SUBSET task[w].fresh : \E kept \in SUBSET scored :
         /\ shown' = shown \cup scored
         /\ task' = [task EXCEPT ![w].fresh = {}, ![w].kept = kept, ![w].pc = "keep"]
    /\ UNCHANGED <<ascene, day, alert, uses, queue, beat, run, alog>>

\* The results are committed before the digest; with the alert deleted the
\* row is gone, and so are they.
Keep(w) ==
    LET t == task[w] IN
    /\ At(w, "keep")
    /\ IF run[t.run].status = "deleted"
       THEN Finish(w) /\ UNCHANGED run
       ELSE /\ run' = [run EXCEPT ![t.run].status = "done", ![t.run].jobs = t.kept]
            /\ \/ task' = [task EXCEPT ![w].pc = "mail"] /\ t.kept # {}
               \/ Finish(w)      \* nothing new, or no digest wanted
    /\ UNCHANGED <<ascene, day, alert, uses, queue, beat, shown, alog>>

\* The digest is sent, or the mail server refuses it: the run is done anyway.
Mail(w) ==
    LET t == task[w] IN
    /\ At(w, "mail")
    /\ \/ /\ alog' = [alog EXCEPT !.sent = [j \in Offers |-> IF j \in t.kept /\ @[j] < 2
                                                          THEN @[j] + 1 ELSE @[j]]]
          /\ run' = [run EXCEPT ![t.run].emailed = (run[t.run].status = "done")]
       \/ UNCHANGED <<run, alog>>
    /\ Finish(w)
    /\ UNCHANGED <<ascene, day, alert, uses, queue, beat, shown>>

\* An exception before the results are kept: the run has failed.
Fail(w) ==
    /\ alog.faults < ascene.faults
    /\ task[w].pc \in {"triage", "score", "keep"}
    /\ run' = RunIs(w, "failed")
    /\ alog' = [alog EXCEPT !.faults = @ + 1]
    /\ Finish(w)
    /\ UNCHANGED <<ascene, day, alert, uses, queue, beat, shown>>

Crash(w) ==
    /\ alog.faults < ascene.faults
    /\ ~At(w, "idle")
    /\ alog' = [alog EXCEPT !.faults = @ + 1]
    /\ Finish(w)
    /\ UNCHANGED <<ascene, day, alert, uses, queue, beat, run, shown>>

----------------------------------------------------------------------------

Beat(b) == BeatReads(b) \/ BeatClaims(b) \/ BeatReadsAgain(b) \/ BeatQueues(b)
Work(w) == Admit(w) \/ Triage(w) \/ Score(w) \/ Keep(w) \/ Mail(w)

AlertsNext ==
    \/ \E a \in Alerts : (\E on \in BOOLEAN : Save(a, on)) \/ Delete(a) \/ RunNow(a)
    \/ DayPasses
    \/ \E b \in Beats : Beat(b) \/ BeatDies(b)
    \/ \E w \in Workers : (\E a \in Alerts : Start(w, a)) \/ Work(w) \/ Fail(w) \/ Crash(w)

AlertsSpec == AlertsInit /\ [][AlertsNext]_avars

----------------------------------------------------------------------------
(* Properties *)

\* Every row, beat and task is well formed, and a task holds the row of the
\* run it keeps up to date until it ends.
AlertTypeOK ==
    /\ day \in 1..MaxDay /\ uses \in 0..Quota
    /\ \A a \in Alerts : /\ alert[a].next \in 0..MaxDay + 1
                         /\ alert[a].enabled => alert[a].exists
    /\ \A b \in Beats : beat[b].pc \in {"idle", "claim", "again", "queue"}
    /\ \A w \in Workers :
         /\ task[w].pc \in {"idle", "admit", "triage", "score", "keep", "mail"}
         /\ task[w].pc # "idle" => run[task[w].run].status \in {"running", "done", "deleted"}

\* A job is in one digest, unless two runs were about to show it at the same
\* moment: what a run shows is seen from then on, whatever becomes of the run.
SentOnce == \A j \in Offers : j \notin alog.shared => alog.sent[j] <= 1

\* job_alerts.py:5-7: "each due alert is claimed with a conditional UPDATE on
\* next_run_at (two beats can't run it twice)".  Not so: after the commit for
\* one alert the next one is read again, as the other beat has left it.
ClaimedOnce == \A a \in Alerts : alog.claims[a] <= 1
=============================================================================
