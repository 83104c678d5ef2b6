---------------------------- MODULE ApplyEngine ----------------------------
(***************************************************************************)
(* The apply engine of Job Finder (app/services/apply_engine.py): one user *)
(* starts apply runs over HTTP, workers of the Celery apply queue prepare   *)
(* them and, once the user approved them, submit them on the employer's     *)
(* page.  Requests and worker tasks share one table (apply_runs) and never  *)
(* lock it: each of them loads a row, works for a while, and commits.       *)
(*                                                                          *)
(* Every commit is one action.  What SQLAlchemy writes is modelled as it    *)
(* is: an attribute that is set to the value it was loaded with is left     *)
(* out of the UPDATE, an attribute set after a commit (expired, not loaded) *)
(* is always part of it.                                                    *)
(***************************************************************************)
EXTENDS Naturals, FiniteSets

CONSTANTS
    Runs,           \* rows of apply_runs that may be created
    Jobs,           \* jobs, identified by their job_key
    JobOf,          \* the job each run is for
    Title,          \* the normalised "company|title" of a job
    Adapter,        \* "greenhouse", "lever", "generic" or "linkedin" for each job
    Requests,       \* API request slots: how many HTTP requests run at once
    Workers,        \* processes of the apply worker (start.sh: --concurrency=2)
    Ops,            \* the operations the users of this instance perform
    DailyCap, PlatformCap, GenericCap, FastCap,   \* the caps of app/core/config.py
    GenericSubmit,  \* GENERIC_APPLY_SUBMIT: the AI form reader may submit
    LocalBrowser,   \* ENVIRONMENT # "production": Fast apply may run on the worker
    MayCrash,       \* processes may die and tracker writes may fail
    MaxPlan,        \* bound: answers are given while a plan has fewer versions
    MaxApprovals,   \* bound: approvals of one run
    NoRun           \* the run of an idle request or worker

Switches == {"paused", "account", "flag", "generic", "assist"}
UserOps == {"create", "answer", "approve", "cancel", "done", "browser", "closed", "resume"}

ASSUME ApplyConstants ==
    /\ JobOf \in [Runs -> Jobs]
    /\ DOMAIN Title = Jobs
    /\ Adapter \in [Jobs -> {"greenhouse", "lever", "generic", "linkedin"}]
    /\ Ops \subseteq UserOps \cup Switches
    /\ {DailyCap, PlatformCap, GenericCap, FastCap, MaxPlan, MaxApprovals} \subseteq Nat
    /\ {GenericSubmit, LocalBrowser, MayCrash} \subseteq BOOLEAN
    /\ NoRun \notin Runs
    /\ IsFiniteSet(Runs) /\ IsFiniteSet(Requests) /\ IsFiniteSet(Workers) /\ Workers # {}

VARIABLES
    run,      \* the table apply_runs
    off,      \* the switches that are off (feature flag, account, ApplySettings)
    queue,    \* tasks waiting in the apply queue, per kind and run
    tracker,  \* status of the user's application to a job (applications)
    applied,  \* the job is marked applied for the user (user_jobs)
    request,  \* what each API request is doing
    worker,   \* what each worker process is doing
    ledger    \* history: what was approved and what the employers received

vars == <<run, off, queue, tracker, applied, request, worker, ledger>>

----------------------------------------------------------------------------
(* Values *)

ActiveStates == {"queued", "preparing", "awaiting_input", "awaiting_review", "submitting",
                 "in_browser"}
EndStates == {"submitted", "failed", "cancelled", "needs_user", "done"}
RunStates == ActiveStates \cup EndStates \cup {"none"}
Statuses == ActiveStates \cup EndStates \cup {"prefilled", "none"}
AppliedStatuses == {"submitted"}

\* A plan is its version and what decides the next state: a required answer
\* is missing; a multi-page form was not read to its end.
Plan == [version : Nat, missing : BOOLEAN, partial : BOOLEAN]
EmptyPlan == [version |-> 0, missing |-> FALSE, partial |-> FALSE]

\* `ended` is history: the run has been in a state that is not active.
NoRow == [state |-> "none", key |-> FALSE, plan |-> EmptyPlan, submitted |-> FALSE,
          ended |-> FALSE]

IdleRequest == [pc |-> "idle", op |-> "none", run |-> NoRun, todo |-> {}, nokey |-> {},
                plan |-> EmptyPlan, status |-> "none"]
IdleWorker == [pc |-> "idle", task |-> "none", run |-> NoRun, nokey |-> {}, version |-> 0,
               status |-> "none"]

NoSends == [approvals |-> 0, sends |-> 0, approvedPlans |-> {}, sentPlans |-> {},
            confirmed |-> FALSE]

AdapterOf(r) == Adapter[JobOf[r]]
Fast(r) == AdapterOf(r) = "linkedin"
MultiStep(r) == AdapterOf(r) = "generic"
SameJob(r) == {q \in Runs : JobOf[q] = JobOf[r]}
SameTitle(r) == {j \in Jobs : Title[j] = Title[JobOf[r]]}

Init ==
    /\ run = [r \in Runs |-> NoRow]
    /\ off = {}
    /\ queue = [t \in {"prepare", "submit"} |-> [r \in Runs |-> 0]]
    /\ tracker = [j \in Jobs |-> "none"]
    /\ applied = [j \in Jobs |-> FALSE]
    /\ request = [h \in Requests |-> IdleRequest]
    /\ worker = [w \in Workers |-> IdleWorker]
    /\ ledger = [r \in Runs |-> NoSends]

----------------------------------------------------------------------------
(* Checks shared by requests and workers *)

SwitchesOn == off \cap {"paused", "account", "flag"} = {}

SubmittedToday(adapters) ==
    {r \in Runs : ~Fast(r) /\ run[r].submitted /\ AdapterOf(r) \in adapters}

UnderCaps(r) ==
    /\ Cardinality(SubmittedToday({"greenhouse", "lever", "generic"})) < DailyCap
    /\ Cardinality(SubmittedToday({AdapterOf(r)})) < PlatformCap
    /\ MultiStep(r) => Cardinality(SubmittedToday({"generic"})) < GenericCap

UnderFastCap == Cardinality({r \in Runs : Fast(r) /\ run[r].state # "none"}) < FastCap

\* Not applied to this job, nor to this title at this company in the cooldown.
NotApplied(r) ==
    /\ ~applied[JobOf[r]]
    /\ \A j \in SameTitle(r) : tracker[j] \notin AppliedStatuses
    /\ \A q \in Runs \ {r} : JobOf[q] \in SameTitle(r) => run[q].state # "submitted"

\* The state a run goes to once its questions were read or answered.
AfterAnswers(plan) ==
    CASE plan.missing -> "awaiting_input"
      [] plan.partial /\ ~plan.missing -> "queued"
      [] OTHER -> "awaiting_review"

\* Fault: a run that waits for the user keeps its key.
MovedKeepingKey(r, state, nokey) ==
    [run[r] EXCEPT !.state = state,
                   !.key = IF state \in ActiveStates \cup {"needs_user"} \/ r \in nokey
                           THEN @ ELSE FALSE,
                   !.ended = @ \/ state \notin ActiveStates]

\* The row `_transition` commits. `nokey` holds the runs whose active_key was
\* NULL when the row was loaded: setting it to NULL again changes nothing.
Moved(r, state, nokey) ==
    [run[r] EXCEPT !.state = state,
                   !.key = IF state \in ActiveStates \/ r \in nokey THEN @ ELSE FALSE,
                   !.ended = @ \/ state \notin ActiveStates]

Transition(r, state, nokey) == run' = [run EXCEPT ![r] = Moved(r, state, nokey)]

NoKey(rs) == {r \in rs : ~run[r].key}

----------------------------------------------------------------------------
(* API requests.  A request loads and checks, then commits; refused        *)
(* requests change nothing and are not modelled.                            *)

Load(h, op, r, pc, status, todo) ==
    /\ request[h].pc = "idle"
    /\ op \in Ops
    /\ request' = [request EXCEPT ![h] =
           [pc |-> pc, op |-> op, run |-> r, todo |-> todo, nokey |-> NoKey({r} \cup todo),
            plan |-> run[r].plan, status |-> status]]

Goto(h, pc) == request' = [request EXCEPT ![h].pc = pc]
\* Fault: the slot of a finished request is not freed.
FinishKeepingPc(h) ==
    request' = [request EXCEPT ![h] = [IdleRequest EXCEPT !.pc = request[h].pc]]

Finish(h) == request' = [request EXCEPT ![h] = IdleRequest]
ToRecord(h, status) == request' = [request EXCEPT ![h].pc = "record", ![h].status = status]

\* create_run, auto mode, and Fast apply on the worker of a local installation.
CreateCheck(h, r) ==
    /\ Load(h, "create", r, "insert", "queued", {})
    /\ run[r].state = "none"
    /\ \A g \in Requests : request[g].run # r
    /\ SwitchesOn
    /\ NotApplied(r)
    /\ IF Fast(r) THEN UnderFastCap /\ "assist" \in off /\ LocalBrowser
                  ELSE UnderCaps(r) /\ (MultiStep(r) => "generic" \notin off)
    /\ UNCHANGED <<run, off, queue, tracker, applied, worker, ledger>>

\* create_run, Fast apply in the user's browser: abandoned tabs of the job
\* (any subset of its in_browser runs may be an hour old) are cancelled first.
CreateInBrowserCheck(h, r) ==
    /\ run[r].state = "none"
    /\ \A g \in Requests : request[g].run # r
    /\ SwitchesOn /\ NotApplied(r) /\ UnderFastCap
    /\ Fast(r) /\ "assist" \notin off
    /\ \E stale \in SUBSET {q \in SameJob(r) : run[q].state = "in_browser" /\ run[q].key} :
           Load(h, "create", r, "cancelling", "in_browser", stale)
    /\ UNCHANGED <<run, off, queue, tracker, applied, worker, ledger>>

\* The INSERT; the unique active_key refuses a second active run for the job.
CreateInsert(h) ==
    LET r == request[h].run IN
    /\ request[h].pc = "insert"
    /\ IF \E q \in SameJob(r) : run[q].key
       THEN Finish(h) /\ UNCHANGED run
       ELSE /\ run' = [run EXCEPT ![r] = [NoRow EXCEPT !.state = request[h].status, !.key = TRUE]]
            /\ Goto(h, "created")
    /\ UNCHANGED <<off, queue, tracker, applied, worker, ledger>>

\* The first `_transition` of a run writes its state a second time.
CreateConfirm(h) ==
    /\ request[h].pc = "created"
    /\ Transition(request[h].run, request[h].status, {})
    /\ ToRecord(h, "queued")
    /\ UNCHANGED <<off, queue, tracker, applied, worker, ledger>>

\* Fault: answers are accepted in any active state.
AnswerLoadAnytime(h, r) ==
    /\ Load(h, "answer", r, "write", "none", {})
    /\ run[r].state \in ActiveStates
    /\ run[r].plan.version < MaxPlan
    /\ UNCHANGED <<run, off, queue, tracker, applied, worker, ledger>>

AnswerLoad(h, r) ==
    /\ Load(h, "answer", r, "write", "none", {})
    /\ run[r].state \in {"awaiting_input", "awaiting_review"}
    /\ run[r].plan.version < MaxPlan
    /\ UNCHANGED <<run, off, queue, tracker, applied, worker, ledger>>

\* answer: the plan it loaded, with the new answers; some may still be missing.
AnswerWrite(h) ==
    LET r == request[h].run IN
    /\ request[h].pc = "write" /\ request[h].op = "answer"
    /\ \E missing \in BOOLEAN :
           run' = [run EXCEPT ![r].plan =
                      [version |-> run[r].plan.version + 1, missing |-> missing,
                       partial |-> request[h].plan.partial]]
    /\ Goto(h, "after")
    /\ UNCHANGED <<off, queue, tracker, applied, worker, ledger>>

\* `_after_answers`, on the row as it is now; "queued" is not told to the tracker.
AnswerAfter(h) ==
    LET r == request[h].run
        state == AfterAnswers(run[r].plan)
    IN /\ request[h].pc = "after" /\ request[h].op = "answer"
       /\ Transition(r, state, {})
       /\ IF state = "queued" THEN Goto(h, "dispatch") ELSE ToRecord(h, state)
       /\ UNCHANGED <<off, queue, tracker, applied, worker, ledger>>

\* approve: every check of the request, before anything is written.
ApproveLoad(h, r) ==
    /\ Load(h, "approve", r, "write", "none", {})
    /\ run[r].state = "awaiting_review"
    /\ MultiStep(r) => GenericSubmit
    /\ SwitchesOn /\ UnderCaps(r) /\ NotApplied(r)
    /\ ledger[r].approvals < MaxApprovals
    /\ UNCHANGED <<run, off, queue, tracker, applied, worker, ledger>>

ApproveWrite(h) ==
    LET r == request[h].run IN
    /\ request[h].pc = "write" /\ request[h].op = "approve"
    /\ Transition(r, "submitting", {})
    /\ ledger' = [ledger EXCEPT ![r].approvals = @ + 1,
                                ![r].approvedPlans = @ \cup {request[h].plan.version}]
    /\ ToRecord(h, "submitting")
    /\ UNCHANGED <<off, queue, tracker, applied, worker>>

CancelLoad(h, r) ==
    /\ Load(h, "cancel", r, "write", "none", {})
    /\ run[r].state \in ActiveStates
    /\ UNCHANGED <<run, off, queue, tracker, applied, worker, ledger>>

CancelWrite(h) ==
    LET r == request[h].run IN
    /\ request[h].pc = "write" /\ request[h].op = "cancel"
    /\ Transition(r, "cancelled", request[h].nokey)
    /\ ToRecord(h, "cancelled")
    /\ UNCHANGED <<off, queue, tracker, applied, worker, ledger>>

\* mark_done, also called by the extension when the site confirmed.
DoneLoad(h, r) ==
    /\ Load(h, "done", r, "write", "none", {})
    /\ run[r].state \in {"needs_user", "awaiting_input", "awaiting_review", "in_browser"}
    /\ UNCHANGED <<run, off, queue, tracker, applied, worker, ledger>>

DoneWrite(h) ==
    LET r == request[h].run
        nokey == request[h].nokey
    IN /\ request[h].pc = "write" /\ request[h].op = "done"
       /\ \/ /\ run' = [run EXCEPT ![r] = [Moved(r, "done", nokey) EXCEPT !.submitted = TRUE]]
             /\ ToRecord(h, "submitted")
          \/ /\ Transition(r, "cancelled", nokey)
             /\ ToRecord(h, "cancelled")
       /\ UNCHANGED <<off, queue, tracker, applied, worker, ledger>>

\* browser_closed: the tab was closed before the site confirmed anything.
ClosedLoad(h, r) ==
    /\ Load(h, "closed", r, "write", "none", {})
    /\ run[r].state = "in_browser"
    /\ UNCHANGED <<run, off, queue, tracker, applied, worker, ledger>>

ClosedWrite(h) ==
    LET r == request[h].run IN
    /\ request[h].pc = "write" /\ request[h].op = "closed"
    /\ Transition(r, "needs_user", request[h].nokey)
    /\ Finish(h)
    /\ UNCHANGED <<off, queue, tracker, applied, worker, ledger>>

\* open_in_browser takes the key again and writes back the plan it loaded.
BrowserLoad(h, r) ==
    /\ Load(h, "browser", r, "write", "none", {})
    /\ run[r].state \in {"needs_user", "awaiting_input", "awaiting_review"}
    /\ "assist" \notin off
    /\ UNCHANGED <<run, off, queue, tracker, applied, worker, ledger>>

BrowserWrite(h) ==
    LET r == request[h].run
        takesKey == r \in request[h].nokey
    IN /\ request[h].pc = "write" /\ request[h].op = "browser"
       /\ IF takesKey /\ \E q \in SameJob(r) \ {r} : run[q].key
          THEN UNCHANGED run
          ELSE run' = [run EXCEPT ![r] = [Moved(r, "in_browser", {}) EXCEPT
                          !.key = takesKey \/ @, !.plan = request[h].plan]]
       /\ Finish(h)
       /\ UNCHANGED <<off, queue, tracker, applied, worker, ledger>>

----------------------------------------------------------------------------
(* Switches.  Turning one off cancels the runs it governs, one commit per  *)
(* run; the flag itself is committed first, the other switches with the     *)
(* first cancelled run.                                                     *)

Governs(switch, r) ==
    CASE switch = "generic" -> MultiStep(r) /\ run[r].state \in ActiveStates
      [] switch = "assist" -> run[r].state = "in_browser"
      [] OTHER -> run[r].state \in ActiveStates

SwitchOff(h, switch) ==
    /\ request[h].pc = "idle"
    /\ switch \in Ops \ off
    /\ LET todo == {r \in Runs : Governs(switch, r)} IN
           request' = [request EXCEPT ![h] =
               [IdleRequest EXCEPT !.pc = "cancelling", !.op = switch, !.todo = todo,
                                   !.nokey = NoKey(todo)]]
    /\ off' = IF switch = "flag" THEN off \cup {switch} ELSE off
    /\ UNCHANGED <<run, queue, tracker, applied, worker, ledger>>

\* After the first commit the other rows are expired: nothing is left out of
\* their UPDATE. Stale browser runs are not told to the tracker.
CancelNext(h) ==
    LET op == request[h].op IN
    /\ request[h].pc = "cancelling"
    /\ \E q \in request[h].todo :
           /\ Transition(q, "cancelled", request[h].nokey)
           /\ request' = [request EXCEPT ![h].todo = @ \ {q}, ![h].nokey = {},
                  ![h].pc = IF op = "create" THEN @ ELSE "record",
                  ![h].run = IF op = "create" THEN @ ELSE q,
                  ![h].status = IF op = "create" THEN @ ELSE "cancelled"]
    /\ off' = off \cup ({op} \cap Switches)
    /\ UNCHANGED <<queue, tracker, applied, worker, ledger>>

CancelledAll(h) ==
    LET op == request[h].op IN
    /\ request[h].pc = "cancelling" /\ request[h].todo = {}
    /\ IF op = "create" THEN Goto(h, "insert") ELSE Finish(h)
    /\ off' = off \cup ({op} \cap Switches)
    /\ UNCHANGED <<run, queue, tracker, applied, worker, ledger>>

SwitchOn(switch) ==
    /\ "resume" \in Ops
    /\ switch \in off
    /\ off' = off \ {switch}
    /\ UNCHANGED <<run, queue, tracker, applied, request, worker, ledger>>

----------------------------------------------------------------------------
(* What follows the commit: the tracker, the mark on the job, the task.    *)

\* record_status, in a session of its own.
RequestRecord(h) ==
    LET op == request[h].op IN
    /\ request[h].pc = "record"
    /\ tracker' = [tracker EXCEPT ![JobOf[request[h].run]] = request[h].status]
    /\ CASE op \in {"create", "answer", "approve"} -> Goto(h, "dispatch")
         [] op \in Switches -> Goto(h, "cancelling")
         [] request[h].status = "submitted" -> Goto(h, "apply")
         [] OTHER -> Finish(h)
    /\ UNCHANGED <<run, off, queue, applied, worker, ledger>>

RequestApplied(h) ==
    /\ request[h].pc = "apply"
    /\ applied' = [applied EXCEPT ![JobOf[request[h].run]] = TRUE]
    /\ Finish(h)
    /\ UNCHANGED <<run, off, queue, tracker, worker, ledger>>

\* Fault: only create starts a prepare task.
DispatchForCreate(h) ==
    LET r == request[h].run
        approved == request[h].op = "approve"
    IN /\ request[h].pc = "dispatch"
       /\ queue' = [queue EXCEPT
              !["submit"][r] = IF approved THEN @ + 1 ELSE @,
              !["prepare"][r] = IF request[h].op = "create" /\ run[r].state = "queued"
                                THEN @ + 1 ELSE @]
       /\ Finish(h)
       /\ UNCHANGED <<run, off, tracker, applied, worker, ledger>>

\* approve always dispatches; create and answer look at the state they left.
Dispatch(h) ==
    LET r == request[h].run
        approved == request[h].op = "approve"
    IN /\ request[h].pc = "dispatch"
       /\ queue' = [queue EXCEPT
              !["submit"][r] = IF approved THEN @ + 1 ELSE @,
              !["prepare"][r] = IF ~approved /\ run[r].state = "queued" THEN @ + 1 ELSE @]
       /\ Finish(h)
       /\ UNCHANGED <<run, off, tracker, applied, worker, ledger>>

RequestCrash(h) ==
    /\ MayCrash
    /\ request[h].pc # "idle"
    /\ Finish(h)
    /\ UNCHANGED <<run, off, queue, tracker, applied, worker, ledger>>

----------------------------------------------------------------------------
(* The apply worker.  A task is acknowledged when it is taken: a process   *)
(* that dies loses it.                                                      *)

WorkerEnds(w) == worker' = [worker EXCEPT ![w] = IdleWorker]
Working(w, pc) == worker' = [worker EXCEPT ![w].pc = pc]

\* The tracker is told inside the task's try block ("record"), or where an
\* exception ends the task ("last").
WorkerToRecord(w, pc, status) == worker' = [worker EXCEPT ![w].pc = pc, ![w].status = status]

Take(w, task, r, pc, status) ==
    worker' = [worker EXCEPT ![w] =
        [pc |-> pc, task |-> task, run |-> r, nokey |-> NoKey({r}), version |-> 0,
         status |-> status]]

\* prepare: `_get_active` and `_still_allowed`.
TakePrepare(w, r) ==
    /\ worker[w].pc = "idle"
    /\ queue["prepare"][r] > 0
    /\ queue' = [queue EXCEPT !["prepare"][r] = @ - 1]
    /\ CASE run[r].state # "queued" -> UNCHANGED worker
         [] run[r].state = "queued" /\ SwitchesOn -> Take(w, "prepare", r, "begin", "preparing")
         [] OTHER -> Take(w, "prepare", r, "stop", "cancelled")
    /\ UNCHANGED <<run, off, tracker, applied, request, ledger>>

\* Fault: submit does not look at the caps again.
SubmitVerdictNoCaps(r) ==
    CASE ~SwitchesOn -> "cancelled"
      [] SwitchesOn /\ (Fast(r) \/ (MultiStep(r) /\ ~GenericSubmit)) -> "needs_user"
      [] OTHER -> "submitting"

\* submit: `_get_active`, `_still_allowed`, can_submit, test mode and caps.
\* The run stays "submitting", and duplicates are not looked for again.
SubmitVerdict(r) ==
    CASE ~SwitchesOn -> "cancelled"
      [] SwitchesOn /\ (Fast(r) \/ (MultiStep(r) /\ ~GenericSubmit)) -> "needs_user"
      [] SwitchesOn /\ ~Fast(r) /\ (MultiStep(r) => GenericSubmit) /\ ~UnderCaps(r) ->
             "awaiting_review"
      [] OTHER -> "submitting"

\* Fault: the task is delivered again (late acknowledgement).
TakeSubmitAgain(w, r) ==
    LET verdict == SubmitVerdict(r) IN
    /\ worker[w].pc = "idle"
    /\ queue["submit"][r] > 0
    /\ run[r].state = "submitting"
    /\ Take(w, "submit", r, IF verdict = "submitting" THEN "fill" ELSE "stop", verdict)
    /\ UNCHANGED <<run, off, queue, tracker, applied, request, ledger>>

TakeSubmit(w, r) ==
    LET verdict == SubmitVerdict(r) IN
    /\ worker[w].pc = "idle"
    /\ queue["submit"][r] > 0
    /\ queue' = [queue EXCEPT !["submit"][r] = @ - 1]
    /\ CASE run[r].state # "submitting" -> UNCHANGED worker
         [] run[r].state = "submitting" /\ verdict = "submitting" ->
                Take(w, "submit", r, "fill", "none")
         [] OTHER -> Take(w, "submit", r, "stop", verdict)
    /\ UNCHANGED <<run, off, tracker, applied, request, ledger>>

\* The transition to preparing, or out of a task that may not go on.
Begin(w) ==
    LET r == worker[w].run IN
    /\ worker[w].pc \in {"begin", "stop"}
    /\ Transition(r, worker[w].status, worker[w].nokey)
    /\ Working(w, "last")
    /\ UNCHANGED <<off, queue, tracker, applied, request, ledger>>

\* A hard stop, no form, or an exception while the form is read.
FormStops(w) ==
    /\ worker[w].pc = "form"
    /\ \/ Transition(worker[w].run, "needs_user", {}) /\ WorkerToRecord(w, "record", "needs_user")
       \/ Transition(worker[w].run, "failed", {}) /\ WorkerToRecord(w, "last", "failed")
    /\ UNCHANGED <<off, queue, tracker, applied, request, ledger>>

\* The form was read and its answers are saved in the plan. A multi-page form
\* is read on until a required question has no answer.
FormRead(w) ==
    LET r == worker[w].run IN
    /\ worker[w].pc = "form"
    /\ \E missing, partial \in BOOLEAN :
           /\ partial => MultiStep(r) /\ missing
           /\ run' = [run EXCEPT ![r].plan = [version |-> @.version + 1, missing |-> missing,
                                              partial |-> partial]]
    /\ Working(w, "decide")
    /\ UNCHANGED <<off, queue, tracker, applied, request, ledger>>

\* The user takes over: a captcha, a file, a filled Fast apply step; or an error.
FormHandedOver(w) ==
    LET r == worker[w].run IN
    /\ worker[w].pc = "decide"
    /\ \/ Transition(r, "failed", {}) /\ WorkerToRecord(w, "last", "failed")
       \/ /\ Transition(r, "needs_user", {})
          /\ \E status \in {"needs_user"} \cup (IF Fast(r) THEN {"prefilled"} ELSE {}) :
                 WorkerToRecord(w, "record", status)
    /\ UNCHANGED <<off, queue, tracker, applied, request, ledger>>

\* Fault: a filled LinkedIn form is put up for review like any other.
FormAnsweredFast(w) ==
    LET r == worker[w].run
        state == AfterAnswers(run[r].plan)
    IN /\ worker[w].pc = "decide"
       /\ Transition(r, state, {})
       /\ IF state = "queued" THEN WorkerEnds(w) ELSE WorkerToRecord(w, "last", state)
       /\ UNCHANGED <<off, queue, tracker, applied, request, ledger>>

FormAnswered(w) ==
    LET r == worker[w].run
        state == AfterAnswers(run[r].plan)
    IN /\ worker[w].pc = "decide" /\ ~Fast(r)
       /\ Transition(r, state, {})
       /\ IF state = "queued" THEN WorkerEnds(w)
          ELSE WorkerToRecord(w, IF MultiStep(r) THEN "record" ELSE "last", state)
       /\ UNCHANGED <<off, queue, tracker, applied, request, ledger>>

\* submit fills the form with the plan as it is now.
FormFilled(w) ==
    LET r == worker[w].run IN
    /\ worker[w].pc = "fill" /\ ~run[r].plan.partial
    /\ worker' = [worker EXCEPT ![w].pc = "click", ![w].version = run[r].plan.version]
    /\ UNCHANGED <<run, off, queue, tracker, applied, request, ledger>>

\* A hard stop, a changed form, a refused value, or an error before the send.
SubmitStops(w) ==
    /\ worker[w].pc \in {"fill", "click"}
    /\ Transition(worker[w].run, "needs_user", {})
    /\ WorkerToRecord(w, "record", "needs_user")
    /\ UNCHANGED <<off, queue, tracker, applied, request, ledger>>

\* submit_and_wait: the employer has the application.
Send(w) ==
    LET r == worker[w].run IN
    /\ worker[w].pc = "click"
    /\ ledger' = [ledger EXCEPT ![r].sends = @ + 1,
                                ![r].sentPlans = @ \cup {worker[w].version}]
    /\ Working(w, "confirm")
    /\ UNCHANGED <<run, off, queue, tracker, applied, request>>

\* Fault: after an unclear answer the user may approve the run again.
ConfirmRetrying(w) ==
    LET r == worker[w].run IN
    /\ worker[w].pc = "confirm"
    /\ \E state \in {"submitted", "awaiting_review"} :
           /\ run' = [run EXCEPT ![r] = [Moved(r, state, {}) EXCEPT
                                            !.submitted = @ \/ state = "submitted"]]
           /\ ledger' = [ledger EXCEPT ![r].confirmed = @ \/ state = "submitted"]
           /\ WorkerToRecord(w, "record", state)
    /\ UNCHANGED <<off, queue, tracker, applied, request>>

\* The page confirmed it, or its answer was unclear.
Confirm(w) ==
    LET r == worker[w].run IN
    /\ worker[w].pc = "confirm"
    /\ \/ /\ run' = [run EXCEPT ![r] = [Moved(r, "submitted", {}) EXCEPT !.submitted = TRUE]]
          /\ ledger' = [ledger EXCEPT ![r].confirmed = TRUE]
          /\ WorkerToRecord(w, "record", "submitted")
       \/ /\ Transition(r, "needs_user", {})
          /\ WorkerToRecord(w, "record", "needs_user")
          /\ UNCHANGED ledger
    /\ UNCHANGED <<off, queue, tracker, applied, request>>

WorkerRecord(w) ==
    /\ worker[w].pc \in {"record", "last"}
    /\ tracker' = [tracker EXCEPT ![JobOf[worker[w].run]] = worker[w].status]
    /\ CASE worker[w].status = "preparing" -> Working(w, "form")
         [] worker[w].status = "submitted" -> Working(w, "apply")
         [] OTHER -> WorkerEnds(w)
    /\ UNCHANGED <<run, off, queue, applied, request, ledger>>

WorkerApplied(w) ==
    /\ worker[w].pc = "apply"
    /\ applied' = [applied EXCEPT ![JobOf[worker[w].run]] = TRUE]
    /\ WorkerEnds(w)
    /\ UNCHANGED <<run, off, queue, tracker, request, ledger>>

\* The database fails inside the task's try block: the handler of any
\* exception moves the run again, whatever it has reached.
RecordFails(w) ==
    LET r == worker[w].run
        state == IF worker[w].task = "submit" THEN "needs_user" ELSE "failed"
    IN /\ MayCrash
       /\ worker[w].pc \in {"record", "apply"}
       /\ Transition(r, state, {})
       /\ WorkerToRecord(w, "last", state)
       /\ UNCHANGED <<off, queue, tracker, applied, request, ledger>>

WorkerCrash(w) ==
    /\ MayCrash
    /\ worker[w].pc # "idle"
    /\ WorkerEnds(w)
    /\ UNCHANGED <<run, off, queue, tracker, applied, request, ledger>>

----------------------------------------------------------------------------
(* The specification *)

RequestStarts(h) ==
    \/ \E r \in Runs : \/ CreateCheck(h, r)
                       \/ CreateInBrowserCheck(h, r)
                       \/ AnswerLoad(h, r)
                       \/ ApproveLoad(h, r)
                       \/ CancelLoad(h, r)
                       \/ DoneLoad(h, r)
                       \/ ClosedLoad(h, r)
                       \/ BrowserLoad(h, r)
    \/ \E switch \in Switches : SwitchOff(h, switch)

RequestContinues(h) ==
    \/ CreateInsert(h) \/ CreateConfirm(h)
    \/ AnswerWrite(h) \/ AnswerAfter(h)
    \/ ApproveWrite(h) \/ CancelWrite(h) \/ DoneWrite(h)
    \/ ClosedWrite(h) \/ BrowserWrite(h)
    \/ CancelNext(h) \/ CancelledAll(h)
    \/ RequestRecord(h) \/ RequestApplied(h) \/ Dispatch(h)

TakesTask(w) == \E r \in Runs : TakePrepare(w, r) \/ TakeSubmit(w, r)

WorkerContinues(w) ==
    \/ Begin(w) \/ FormStops(w) \/ FormRead(w) \/ FormHandedOver(w) \/ FormAnswered(w)
    \/ FormFilled(w) \/ SubmitStops(w) \/ Send(w) \/ Confirm(w)
    \/ WorkerRecord(w) \/ WorkerApplied(w)

Next ==
    \/ \E h \in Requests : RequestStarts(h) \/ RequestContinues(h) \/ RequestCrash(h)
    \/ \E switch \in Switches : SwitchOn(switch)
    \/ \E w \in Workers :
           TakesTask(w) \/ WorkerContinues(w) \/ RecordFails(w) \/ WorkerCrash(w)

Spec == Init /\ [][Next]_vars

\* Started requests and tasks go on, and idle workers take what is queued.
\* Nobody is made to start a request, to crash or to lose the database.
Fairness ==
    /\ \A h \in Requests : WF_vars(RequestContinues(h))
    /\ \A w \in Workers : WF_vars(WorkerContinues(w))
    /\ \A w \in Workers : WF_vars(TakesTask(w))

FairSpec == Spec /\ Fairness

----------------------------------------------------------------------------
(* Types *)

RequestPcs == {"idle", "insert", "created", "cancelling", "write", "after", "record", "apply",
               "dispatch"}
WorkerPcs == {"idle", "begin", "stop", "form", "decide", "fill", "click", "confirm", "record",
              "last", "apply"}

Row == [state : RunStates, key : BOOLEAN, plan : Plan, submitted : BOOLEAN, ended : BOOLEAN]
Request == [pc : RequestPcs, op : UserOps \cup Switches \cup {"none"}, run : Runs \cup {NoRun},
            todo : SUBSET Runs, nokey : SUBSET Runs, plan : Plan, status : Statuses]
Task == [pc : WorkerPcs, task : {"none", "prepare", "submit"}, run : Runs \cup {NoRun},
         nokey : SUBSET Runs, version : Nat, status : Statuses]
History == [approvals : Nat, sends : Nat, approvedPlans : SUBSET Nat, sentPlans : SUBSET Nat,
            confirmed : BOOLEAN]

\* A request or a worker that is doing something does it to a run, and knows
\* the state it is going to write.
OpenRequest ==
    {q \in Request :
        /\ q.pc \notin {"idle", "cancelling"} \/ q.op = "create" => q.run \in Runs
        /\ q.pc \in {"insert", "created"} \/ (q.op = "create" /\ q.pc = "cancelling")
           => q.status \in {"queued", "in_browser"}
        /\ q.pc = "cancelling" => q.op \in Switches \cup {"create"}}
OpenTask ==
    {t \in Task :
        /\ t.pc # "idle" => t.run \in Runs
        /\ t.pc \in {"begin", "stop"} => t.status \in ActiveStates \cup EndStates}

\* The type invariant of the table, the queue and the processes.
TypeOK ==
    /\ run \in [Runs -> Row]
    /\ off \in SUBSET Switches
    /\ queue \in [{"prepare", "submit"} -> [Runs -> Nat]]
    /\ tracker \in [Jobs -> Statuses]
    /\ applied \in [Jobs -> BOOLEAN]
    /\ request \in [Requests -> OpenRequest]
    /\ worker \in [Workers -> OpenTask]
    /\ ledger \in [Runs -> History]

----------------------------------------------------------------------------
(* Safety: requests may interleave in any way *)

\* The employer receives at most one application per approval of the run,
\* whatever requests and tasks overlap, die or run late: "nothing is
\* submitted until the user approves that run".
SendsNeedApprovals == \A r \in Runs : ledger[r].sends <= ledger[r].approvals

\* A LinkedIn run is never offered for approval nor sent by the engine: the
\* user submits it in the browser, on whichever path the run gets there.
FastNeverSubmits ==
    \A r \in Runs : Fast(r) =>
        /\ run[r].state \notin {"awaiting_input", "awaiting_review", "submitting", "submitted"}
        /\ ledger[r].sends = 0

Confirmed == {r \in Runs : ledger[r].confirmed}

\* Workers check the cap and submit minutes later, so they may overshoot the
\* cap, but only by the tasks that were already past the check.
CapOvershootIsBounded ==
    Cardinality(Confirmed) < DailyCap + Cardinality(Workers)

----------------------------------------------------------------------------
(* Safety when the user sends one request at a time (Requests a singleton) *)

\* One run reaches the employer at most once, through cancellations, caps that
\* send the run back to review, lost tasks and lost processes.
SentAtMostOnce == \A r \in Runs : ledger[r].sends <= 1

\* What the employer received is a version of the plan the user approved: no
\* answer given and no form read after the approval gets in.
SentAsApproved == \A r \in Runs : ledger[r].sentPlans \subseteq ledger[r].approvedPlans

\* A run that is over does not lock its job: the active_key is set only while
\* the run is active.
KeyOnlyWhileActive == \A r \in Runs : run[r].key => run[r].state \in ActiveStates

\* A run that never was over holds the key of its job, so that no two such
\* runs of one job exist.
FirstLifeHoldsKey ==
    \A r \in Runs : run[r].state \in ActiveStates /\ ~run[r].ended => run[r].key

\* Two workers never carry out tasks of the same run at the same time; a
\* worker that has only the tracker left to tell is done with the run.
OneWorkerPerRun ==
    \A v, w \in Workers :
        /\ v # w /\ worker[v].run = worker[w].run
        /\ worker[v].pc \notin {"idle", "record", "last", "apply"}
        => worker[w].pc \in {"idle", "record", "last", "apply"}

\* Key and state of a run agree, in its first life and after: while it was
\* never over it holds the job, and once it is over it does not.
KeyFollowsRun == KeyOnlyWhileActive /\ FirstLifeHoldsKey

\* One worker at a time carries out a run, and what it sends was approved:
\* what several requests and tasks do to one run never mixes.
WorkedAsApproved == OneWorkerPerRun /\ SentAsApproved

\* Requests and tasks, in however many steps, do to a run what the gate does in
\* one: approve a version before anything was sent, send an approved version
\* once, confirm what was sent.
Gate == INSTANCE ApprovalGate WITH
            approved <- [r \in Runs |-> ledger[r].approvedPlans],
            received <- [r \in Runs |-> ledger[r].sentPlans],
            sends <- [r \in Runs |-> ledger[r].sends],
            confirmed <- [r \in Runs |-> ledger[r].confirmed]
GateKept == Gate!Spec

----------------------------------------------------------------------------
(* Liveness, without crashes *)

\* A queued, preparing or submitting run does not stay so: a worker leaves it
\* to the user or ends it.
RunsMoveOn ==
    \A r \in Runs :
        run[r].state \in {"queued", "preparing", "submitting"} ~>
            run[r].state \notin {"queued", "preparing", "submitting"}

----------------------------------------------------------------------------
(* What the documentation says of the runs *)

\* apply_engine.py: never the same job twice.
NeverSameJobTwice ==
    \A q, r \in Runs :
        q # r /\ JobOf[q] = JobOf[r] /\ ledger[q].confirmed => ~ledger[r].confirmed

=============================================================================
