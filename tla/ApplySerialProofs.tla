------------------------- MODULE ApplySerialProofs -------------------------
(***************************************************************************)
(* What holds of the apply engine while its user sends one request at a     *)
(* time, for any number of runs and workers, with every crash and every     *)
(* loss of the database: a run reaches the employer at most once            *)
(* (SentAtMostOnce), one worker carries it out and sends what was approved  *)
(* (WorkedAsApproved), and its key follows its state (KeyFollowsRun).       *)
(* Together: the engine implements ApprovalGate (GateKept).                 *)
(*                                                                          *)
(* The argument is about who has a run in hand.  A task of it waits in the  *)
(* queue, or one worker is engaged with it, or a request of the user is     *)
(* about it, and never two of them (Placed); a run that was sent is out of  *)
(* everyone's hands for good (Spent).  Each step is about one run, and what *)
(* it does to the others is nothing (Untouched).                            *)
(***************************************************************************)
EXTENDS ApplyEngineProofs

----------------------------------------------------------------------------
(* What a request or a worker is at, beyond its type *)

\* The requests that will write the row and expect nobody else to, and those of
\* them that start a task.
Taking == {"create", "answer", "approve", "done", "browser", "closed"}
Starting == {"create", "answer", "approve"}

\* The states a task that may not go on moves its run to.
StopStates == {"cancelled", "needs_user", "awaiting_review"}

WorkerAt(w) ==
    /\ worker[w].pc = "idle" => worker[w].run = NoRun
    /\ worker[w].pc = "begin" => worker[w].task = "prepare" /\ worker[w].status = "preparing"
    /\ worker[w].pc = "stop" => worker[w].status \in StopStates
    /\ worker[w].pc \in {"form", "decide"} => worker[w].task = "prepare"
    /\ worker[w].pc = "record" => worker[w].status # "preparing"
    /\ worker[w].pc = "last" => worker[w].status # "submitted"
    /\ worker[w].pc = "last" /\ worker[w].status = "preparing" => worker[w].task = "prepare"

RequestAt(h) ==
    /\ request[h].pc = "idle" => request[h].run = NoRun /\ request[h].op = "none"
    /\ request[h].pc = "dispatch" => request[h].op \in Starting

Known == (\A w \in Workers : WorkerAt(w)) /\ (\A h \in Requests : RequestAt(h))

LEMMA WorkerKnows ==
    ASSUME TypeOK, Known, NEW w \in Workers,
           TakesTask(w) \/ WorkerContinues(w) \/ RecordFails(w) \/ WorkerCrash(w)
    PROVE  Known'
<1> DEFINE r == worker[w].run
<1> SUFFICES /\ UNCHANGED request
             /\ \A v \in Workers \ {w} : worker'[v] = worker[v]
             /\ WorkerAt(w)'
  BY DEF Known, WorkerAt, RequestAt
<1>1. UNCHANGED request /\ WorkerAt(w)
  BY DEF Known, TakesTask, TakePrepare, TakeSubmit, WorkerContinues, Begin, FormStops, FormRead,
     FormHandedOver, FormAnswered, FormFilled, SubmitStops, Send, Confirm, WorkerRecord,
     WorkerApplied, RecordFails, WorkerCrash
<1> DEFINE Goal == (\A v \in Workers \ {w} : worker'[v] = worker[v]) /\ WorkerAt(w)'
<1>2. ASSUME NEW q \in Runs, TakePrepare(w, q) \/ TakeSubmit(w, q) PROVE Goal
  <2>1. CASE UNCHANGED worker
    BY <1>1, <2>1 DEF WorkerAt
  <2>2. CASE Take(w, "prepare", q, "begin", "preparing")
    BY <2>2 DEF TypeOK, Take, WorkerAt
  <2>3. CASE Take(w, "prepare", q, "stop", "cancelled")
    BY <2>3 DEF TypeOK, Take, WorkerAt, StopStates
  <2>4. CASE Take(w, "submit", q, "fill", "none")
    BY <2>4 DEF TypeOK, Take, WorkerAt
  <2>5. CASE Take(w, "submit", q, "stop", SubmitVerdict(q)) /\ SubmitVerdict(q) # "submitting"
    <3>1. SubmitVerdict(q) \in StopStates
      BY <2>5 DEF SubmitVerdict, StopStates
    <3> QED
      BY <2>5, <3>1 DEF TypeOK, Take, WorkerAt
  <2> QED
    BY <1>2, <2>1, <2>2, <2>3, <2>4, <2>5 DEF TakePrepare, TakeSubmit
<1>3. ASSUME Begin(w) PROVE Goal
  <2>1. Advances(w, "last") /\ worker'[w].status = worker[w].status
    BY <1>3, Advancing DEF Begin
  <2> QED
    BY <1>1, <1>3, <2>1 DEF Begin, WorkerAt, Advances, IdleWorker, StopStates
<1>4. ASSUME FormStops(w) \/ FormHandedOver(w) \/ SubmitStops(w) PROVE Goal
  <2>1. \E pc \in {"record", "last"} : \E status \in {"needs_user", "failed", "prefilled"} :
            Advances(w, pc) /\ worker'[w].status = status
    BY <1>4, Advancing DEF FormStops, FormHandedOver, SubmitStops
  <2> QED
    BY <2>1 DEF WorkerAt, Advances, IdleWorker
<1>5. ASSUME FormRead(w) PROVE Goal
  <2>1. Advances(w, "decide")
    BY <1>5, Advancing DEF FormRead
  <2> QED
    BY <1>1, <1>5, <2>1 DEF FormRead, WorkerAt, Advances, IdleWorker
<1>6. ASSUME FormAnswered(w) PROVE Goal
  <2>1. r \in Runs /\ run[r].plan \in Plan
    BY <1>6, WorkerRun DEF FormAnswered, TypeOK, Row
  <2>2. AfterAnswers(run[r].plan) \in {"awaiting_input", "awaiting_review", "queued"}
    BY <2>1, AfterAnswersType
  <2>3. WorkerEnds(w) \/ \E pc \in {"record", "last"} :
            WorkerToRecord(w, pc, AfterAnswers(run[r].plan))
    BY <1>6 DEF FormAnswered
  <2>4. \E pc \in {"record", "last"} :
            Advances(w, pc) /\ (worker'[w] = IdleWorker
                                \/ worker'[w].status = AfterAnswers(run[r].plan))
    BY <2>3, Advancing
  <2> QED
    BY <2>2, <2>4 DEF WorkerAt, Advances, IdleWorker
<1>7. ASSUME FormFilled(w) \/ Send(w) PROVE Goal
  <2>1. worker'[w].pc \in {"click", "confirm"} /\ \A v \in Workers \ {w} : worker'[v] = worker[v]
    BY <1>7 DEF FormFilled, Send, Working, TypeOK, OpenTask, Task
  <2> QED
    BY <2>1 DEF WorkerAt
<1>8. ASSUME Confirm(w) PROVE Goal
  <2>1. \E status \in {"needs_user", "submitted"} :
            Advances(w, "record") /\ worker'[w].status = status
    BY <1>8, Advancing DEF Confirm
  <2> QED
    BY <2>1 DEF WorkerAt, Advances, IdleWorker
<1>9. ASSUME WorkerRecord(w) PROVE Goal
  <2>1. CASE worker[w].status = "preparing" /\ Working(w, "form")
    <3>1. Advances(w, "form")
      BY <2>1, Advancing
    <3> QED
      BY <1>1, <1>9, <2>1, <3>1 DEF WorkerRecord, WorkerAt, Advances, IdleWorker
  <2>2. CASE Working(w, "apply") \/ WorkerEnds(w)
    <3>1. Advances(w, "apply")
      BY <2>2, Advancing
    <3> QED
      BY <3>1 DEF WorkerAt, Advances, IdleWorker
  <2> QED
    BY <1>9, <2>1, <2>2 DEF WorkerRecord
<1>10. ASSUME WorkerApplied(w) \/ WorkerCrash(w) PROVE Goal
  <2>1. Advances(w, "idle") /\ worker'[w] = IdleWorker
    BY <1>10, Advancing DEF WorkerApplied, WorkerCrash
  <2> QED
    BY <2>1 DEF WorkerAt, Advances, IdleWorker
<1>11. ASSUME RecordFails(w) PROVE Goal
  <2>1. \E status \in {"needs_user", "failed"} :
            Advances(w, "last") /\ worker'[w].status = status
    BY <1>11, Advancing DEF RecordFails
  <2> QED
    BY <2>1 DEF WorkerAt, Advances, IdleWorker
<1> HIDE DEF Goal
<1>12. Goal
  BY <1>2, <1>3, <1>4, <1>5, <1>6, <1>7, <1>8, <1>9, <1>10, <1>11 DEF TakesTask, WorkerContinues
<1> QED
  BY <1>1, <1>12 DEF Goal

LEMMA RequestKnows ==
    ASSUME TypeOK, Known, NEW h \in Requests,
           RequestStarts(h) \/ RequestContinues(h) \/ RequestCrash(h)
    PROVE  Known'
<1> SUFFICES /\ UNCHANGED worker
             /\ \A g \in Requests \ {h} : request'[g] = request[g]
             /\ RequestAt(h)'
  BY DEF Known, WorkerAt, RequestAt
<1> DEFINE Goal == /\ UNCHANGED worker
                   /\ \A g \in Requests \ {h} : request'[g] = request[g]
                   /\ RequestAt(h)'
<1>1. ASSUME NEW q \in Runs,
             \/ CreateCheck(h, q) \/ CreateInBrowserCheck(h, q) \/ AnswerLoad(h, q)
             \/ ApproveLoad(h, q) \/ CancelLoad(h, q) \/ DoneLoad(h, q) \/ ClosedLoad(h, q)
             \/ BrowserLoad(h, q)
      PROVE  Goal
  <2>1. ASSUME NEW op, NEW status, NEW todo, NEW pc \in {"insert", "cancelling", "write"},
               Load(h, op, q, pc, status, todo), UNCHANGED worker
        PROVE  Goal
    BY <2>1 DEF TypeOK, Load, RequestAt
  <2>2. CASE CreateCheck(h, q)
    BY <2>1, <2>2 DEF CreateCheck
  <2>3. CASE CreateInBrowserCheck(h, q)
    <3>1. UNCHANGED worker /\ \E stale : Load(h, "create", q, "cancelling", "in_browser", stale)
      BY <2>3 DEF CreateInBrowserCheck
    <3> QED
      BY <2>1, <3>1
  <2>4. CASE AnswerLoad(h, q) \/ ApproveLoad(h, q) \/ CancelLoad(h, q)
    BY <2>1, <2>4 DEF AnswerLoad, ApproveLoad, CancelLoad
  <2>5. CASE DoneLoad(h, q) \/ ClosedLoad(h, q) \/ BrowserLoad(h, q)
    BY <2>1, <2>5 DEF DoneLoad, ClosedLoad, BrowserLoad
  <2> QED
    BY <1>1, <2>2, <2>3, <2>4, <2>5
<1>2. ASSUME NEW pc \in RequestPcs, Proceeds(h, pc), UNCHANGED worker,
             pc # "idle", pc = "dispatch" => request[h].op \in Starting
      PROVE  Goal
  BY <1>2 DEF Proceeds, SameErrand, IdleRequest, RequestAt
<1>3. ASSUME \/ CreateInsert(h) \/ CreateConfirm(h) \/ AnswerWrite(h) \/ AnswerAfter(h)
             \/ ApproveWrite(h) \/ CancelWrite(h) \/ DoneWrite(h) \/ ClosedWrite(h)
             \/ BrowserWrite(h) \/ CancelledAll(h) \/ RequestRecord(h) \/ RequestApplied(h)
             \/ Dispatch(h) \/ RequestCrash(h)
      PROVE  Goal
  <2>1. UNCHANGED worker
    BY <1>3 DEF CreateInsert, CreateConfirm, AnswerWrite, AnswerAfter, ApproveWrite, CancelWrite,
         DoneWrite, ClosedWrite, BrowserWrite, CancelledAll, RequestRecord, RequestApplied,
         Dispatch, RequestCrash
  <2>2. CASE CreateInsert(h) \/ CreateConfirm(h) \/ AnswerWrite(h)
    <3>1. Proceeds(h, "created") \/ Proceeds(h, "record") \/ Proceeds(h, "after")
      BY <2>2, Proceeding DEF CreateInsert, CreateConfirm, AnswerWrite
    <3> QED
      BY <1>2, <2>1, <3>1 DEF RequestPcs
  <2>3. CASE AnswerAfter(h)
    <3>1. /\ Proceeds(h, "record") \/ Proceeds(h, "dispatch")
          /\ request[h].op = "answer"
      BY <2>3, Proceeding DEF AnswerAfter
    <3> QED
      BY <1>2, <2>1, <3>1 DEF RequestPcs, Starting
  <2>4. CASE ApproveWrite(h) \/ CancelWrite(h) \/ DoneWrite(h) \/ ClosedWrite(h)
             \/ BrowserWrite(h) \/ RequestApplied(h) \/ Dispatch(h) \/ RequestCrash(h)
    <3>1. Proceeds(h, "record")
      BY <2>4, Proceeding DEF ApproveWrite, CancelWrite, DoneWrite, ClosedWrite, BrowserWrite,
         RequestApplied, Dispatch, RequestCrash
    <3> QED
      BY <1>2, <2>1, <3>1 DEF RequestPcs
  <2>5. CASE CancelledAll(h)
    <3>1. Proceeds(h, "insert")
      BY <2>5, Proceeding DEF CancelledAll
    <3> QED
      BY <1>2, <2>1, <3>1 DEF RequestPcs
  <2>6. CASE RequestRecord(h)
    <3>1. \/ Proceeds(h, "dispatch") /\ request[h].op \in Starting
          \/ Proceeds(h, "cancelling") \/ Proceeds(h, "apply")
      BY <2>6, Proceeding DEF RequestRecord, Starting
    <3> QED
      BY <1>2, <2>1, <3>1 DEF RequestPcs
  <2> QED
    BY <1>3, <2>2, <2>3, <2>4, <2>5, <2>6
<1>4. ASSUME NEW switch \in Switches, SwitchOff(h, switch) PROVE Goal
  BY <1>4 DEF SwitchOff, TypeOK, IdleRequest, RequestAt
<1>5. ASSUME CancelNext(h) PROVE Goal
  <2>1. request'[h].pc \in {"cancelling", "record"} /\ UNCHANGED worker
        /\ \A g \in Requests \ {h} : request'[g] = request[g]
    <3>1. PICK q \in request[h].todo :
              request' = [request EXCEPT ![h].todo = @ \ {q}, ![h].nokey = {},
                   ![h].pc = IF request[h].op = "create" THEN @ ELSE "record",
                   ![h].run = IF request[h].op = "create" THEN @ ELSE q,
                   ![h].status = IF request[h].op = "create" THEN @ ELSE "cancelled"]
      BY <1>5 DEF CancelNext
    <3>2. request \in [Requests -> Request]
      BY DEF TypeOK, OpenRequest
    <3> QED
      BY <1>5, <3>1, <3>2 DEF CancelNext, Request
  <2> QED
    BY <2>1 DEF RequestAt
<1> HIDE DEF Goal
<1>6. Goal
  BY <1>1, <1>3, <1>4, <1>5 DEF RequestStarts, RequestContinues
<1> QED
  BY <1>6 DEF Goal

LEMMA InitKnown == Init => Known
BY DEF Init, Known, WorkerAt, RequestAt, IdleWorker, IdleRequest

----------------------------------------------------------------------------
(* Who has a run in hand *)

\* A worker that will write the row again, because of its task and not of a
\* failure.
Engaged(w) ==
    \/ worker[w].pc \in {"begin", "stop", "form", "decide", "fill", "click", "confirm"}
    \/ worker[w].pc = "last" /\ worker[w].status = "preparing"

Waiting(r) == queue["prepare"][r] + queue["submit"][r]

Free(r) ==
    /\ Waiting(r) = 0
    /\ \A w \in Workers : worker[w].run = r => ~Engaged(w)

\* The states in which the engine waits for the user, and those among them
\* from which it is sent.
UserStates == {"none", "awaiting_input", "awaiting_review", "needs_user", "in_browser"}
OpenStates == {"none", "awaiting_input", "awaiting_review"}

\* Nobody has the run in hand, and nobody can take it in hand again.
Spent(r) ==
    /\ Free(r)
    /\ run[r].state \notin OpenStates
    /\ \A h \in Requests : request[h].run = r => request[h].op \notin Starting

OneTask(r) ==
    /\ Waiting(r) <= 1
    /\ \A w \in Workers : worker[w].run = r /\ Engaged(w) =>
           /\ Waiting(r) = 0
           /\ \A v \in Workers : worker[v].run = r /\ Engaged(v) => v = w

UsersTurn(r) == run[r].state \in UserStates => Free(r)

Taken(r) ==
    \A h \in Requests : request[h].run = r =>
        /\ request[h].op \in Taking => Free(r)
        /\ request[h].op = "approve" /\ request[h].pc \in {"record", "dispatch"} =>
               run[r].state \notin UserStates

\* A submit task whose try block may still fail is past its run.
Finished(r) ==
    \A w \in Workers :
        worker[w].run = r /\ worker[w].task = "submit" /\ worker[w].pc \in {"record", "apply"}
            => Spent(r)

Once(r) ==
    \/ ledger[r].sends = 0
    \/ /\ ledger[r].sends = 1
       /\ Spent(r) \/ \E w \in Workers : worker[w].run = r /\ worker[w].pc = "confirm"

Placed(r) == OneTask(r) /\ UsersTurn(r) /\ Taken(r) /\ Finished(r) /\ Once(r)
AllPlaced == \A r \in Runs : Placed(r)

----------------------------------------------------------------------------
(* What a step does to a run, and to the others *)

\* A step that is not about a run.
Untouched(q) ==
    /\ run'[q] = run[q] /\ ledger'[q] = ledger[q]
    /\ queue'["prepare"][q] = queue["prepare"][q] /\ queue'["submit"][q] = queue["submit"][q]
    /\ \A v \in Workers :
           worker'[v] = worker[v] \/ (worker[v].run # q /\ worker'[v].run # q)
    /\ \A g \in Requests : request'[g].run = q =>
           /\ request[g].run = q /\ request'[g].op = request[g].op
           /\ request'[g].pc = request[g].pc /\ request'[g].plan = request[g].plan

LEMMA UntouchedStays ==
    ASSUME NEW q \in Runs, Placed(q), Untouched(q)
    PROVE  Placed(q)'
<1>1. Waiting(q)' = Waiting(q)
  BY DEF Untouched, Waiting
<1>2. \A v \in Workers : worker'[v].run = q \/ worker[v].run = q =>
          worker'[v] = worker[v] /\ (Engaged(v)' <=> Engaged(v))
  BY DEF Untouched, Engaged
<1>3. Free(q)' <=> Free(q)
  BY <1>1, <1>2 DEF Free
<1>4. Spent(q) => Spent(q)'
  BY <1>3 DEF Spent, Untouched
<1>5. OneTask(q)'
  BY <1>1, <1>2 DEF Placed, OneTask
<1>6. UsersTurn(q)'
  BY <1>3 DEF Placed, UsersTurn, Untouched
<1>7. Taken(q)'
  BY <1>3 DEF Placed, Taken, Untouched
<1>8. Finished(q)'
  BY <1>2, <1>4 DEF Placed, Finished
<1>9. Once(q)'
  BY <1>2, <1>4 DEF Placed, Once, Untouched
<1> QED
  BY <1>5, <1>6, <1>7, <1>8, <1>9 DEF Placed

\* While a worker is engaged with a run, nobody else has it in hand.
LEMMA EngagedAlone ==
    ASSUME TypeOK, NEW r \in Runs, Placed(r), NEW w \in Workers, worker[w].run = r, Engaged(w)
    PROVE  /\ Waiting(r) = 0 /\ ~Free(r)
           /\ \A v \in Workers \ {w} : worker[v].run = r => ~Engaged(v)
           /\ run[r].state \notin UserStates
           /\ \A h \in Requests : request[h].run = r => request[h].op \notin Taking
           /\ ledger[r].sends = 0 \/ (ledger[r].sends = 1 /\ worker[w].pc = "confirm")
<1>1. Waiting(r) = 0 /\ ~Free(r) /\ \A v \in Workers \ {w} : worker[v].run = r => ~Engaged(v)
  BY DEF Placed, OneTask, Free
<1>2. /\ run[r].state \notin UserStates
      /\ \A h \in Requests : request[h].run = r => request[h].op \notin Taking
  BY <1>1 DEF Placed, UsersTurn, Taken
<1>3. ~Spent(r) /\ \A v \in Workers : worker[v].pc = "confirm" => Engaged(v)
  BY <1>1 DEF Spent, Engaged
<1>4. ledger[r].sends = 0 \/ (ledger[r].sends = 1 /\ worker[w].pc = "confirm")
  BY <1>1, <1>3 DEF Placed, Once
<1> QED
  BY <1>1, <1>2, <1>4

\* The worker that had a run in hand is done with it.
LEMMA Leaves ==
    ASSUME TypeOK, NEW r \in Runs, Placed(r), NEW w \in Workers, worker[w].run = r, Engaged(w),
           UNCHANGED <<queue, request>>, ledger'[r].sends = ledger[r].sends,
           \A v \in Workers \ {w} : worker'[v] = worker[v],
           worker'[w].run = r => ~Engaged(w)',
           \/ run'[r].state \notin OpenStates
           \/ /\ worker[w].pc # "confirm"
              /\ worker'[w].run = r /\ worker'[w].task = "submit" =>
                     worker'[w].pc \notin {"record", "apply"}
    PROVE  Placed(r)'
<1>1. /\ Waiting(r) = 0 /\ ~Free(r)
      /\ \A v \in Workers \ {w} : worker[v].run = r => ~Engaged(v)
      /\ run[r].state \notin UserStates
      /\ \A h \in Requests : request[h].run = r => request[h].op \notin Taking
      /\ ledger[r].sends = 0 \/ (ledger[r].sends = 1 /\ worker[w].pc = "confirm")
  BY EngagedAlone
<1>2. Waiting(r)' = 0
  BY <1>1 DEF Waiting
<1>3. \A v \in Workers : worker'[v].run = r => ~Engaged(v)'
  BY <1>1 DEF Engaged
<1>4. Free(r)'
  BY <1>2, <1>3 DEF Free
<1>5. run'[r].state \notin OpenStates => Spent(r)'
  BY <1>1, <1>4 DEF Spent, Taking, Starting
<1>6. OneTask(r)' /\ UsersTurn(r)'
  BY <1>2, <1>3, <1>4 DEF OneTask, UsersTurn
<1>7. Taken(r)'
  BY <1>1 DEF Taken, Taking
<1>8. Finished(r)'
  <2>1. ~Spent(r)
    BY <1>1 DEF Spent
  <2> QED
    BY <1>5, <2>1 DEF Finished, Placed
<1>9. Once(r)'
  BY <1>1, <1>5 DEF Once
<1> QED
  BY <1>6, <1>7, <1>8, <1>9 DEF Placed

\* The worker that has a run in hand goes on with it.
LEMMA GoesOn ==
    ASSUME TypeOK, NEW r \in Runs, Placed(r), NEW w \in Workers, worker[w].run = r, Engaged(w),
           UNCHANGED <<queue, request>>,
           \A v \in Workers \ {w} : worker'[v] = worker[v],
           Engaged(w)', run'[r].state \notin UserStates,
           \/ worker[w].pc # "confirm" /\ ledger'[r].sends = ledger[r].sends
           \/ /\ worker[w].pc # "confirm" /\ ledger'[r].sends = ledger[r].sends + 1
              /\ worker'[w].pc = "confirm" /\ worker'[w].run = r
    PROVE  Placed(r)'
<1>1. /\ Waiting(r) = 0 /\ ~Free(r)
      /\ \A v \in Workers \ {w} : worker[v].run = r => ~Engaged(v)
      /\ \A h \in Requests : request[h].run = r => request[h].op \notin Taking
      /\ ledger[r].sends = 0
  BY EngagedAlone
<1>2. Waiting(r)' = 0
  BY <1>1 DEF Waiting
<1>3. \A v \in Workers \ {w} : worker'[v].run = r => ~Engaged(v)'
  BY <1>1 DEF Engaged
<1>4. OneTask(r)' /\ UsersTurn(r)'
  BY <1>2, <1>3 DEF OneTask, UsersTurn
<1>5. Taken(r)'
  BY <1>1 DEF Taken, Taking
<1>6. Finished(r)'
  <2>1. ~Spent(r)
    BY <1>1 DEF Spent
  <2>2. worker'[w].pc \notin {"record", "apply"}
    BY DEF Engaged
  <2> QED
    BY <2>1, <2>2 DEF Finished, Placed
<1>7. Once(r)'
  BY <1>1 DEF Once
<1> QED
  BY <1>4, <1>5, <1>6, <1>7 DEF Placed

\* A worker that is past its run tells the tracker, fails, or dies.
LEMMA Lingers ==
    ASSUME TypeOK, NEW r \in Runs, Placed(r), NEW w \in Workers, worker[w].run = r, ~Engaged(w),
           UNCHANGED <<queue, request>>, ledger'[r].sends = ledger[r].sends,
           \A v \in Workers \ {w} : worker'[v] = worker[v],
           worker'[w].run = r => ~Engaged(w)',
           worker'[w].run = r /\ worker'[w].task = "submit" /\ worker'[w].pc \in {"record", "apply"}
               => worker[w].task = "submit" /\ worker[w].pc \in {"record", "apply"},
           \/ run'[r].state = run[r].state
           \/ run'[r].state \notin UserStates
           \/ Spent(r) /\ run'[r].state \notin OpenStates
    PROVE  Placed(r)'
<1>1. Waiting(r)' = Waiting(r)
  BY DEF Waiting
<1>2. \A v \in Workers : worker'[v].run = r /\ Engaged(v)' =>
          worker[v].run = r /\ Engaged(v) /\ worker'[v] = worker[v]
  BY DEF Engaged
<1>3. Free(r) => Free(r)'
  BY <1>1, <1>2 DEF Free
<1>4. Spent(r) => Spent(r)'
  BY <1>3 DEF Spent, UserStates, OpenStates
<1>5. OneTask(r)'
  BY <1>1, <1>2 DEF OneTask, Placed
<1>6. UsersTurn(r)'
  BY <1>3 DEF UsersTurn, Placed, Spent
<1>7. Taken(r)'
  BY <1>3 DEF Taken, Placed, Spent, Starting
<1>8. Finished(r)'
  BY <1>4 DEF Finished, Placed
<1>9. Once(r)'
  BY <1>4 DEF Once, Placed, Engaged
<1> QED
  BY <1>5, <1>6, <1>7, <1>8, <1>9 DEF Placed

\* A worker takes a task from the queue, and the run in hand unless the state
\* of the run says that the task is not wanted any more.
LEMMA TakesInHand ==
    ASSUME TypeOK, NEW r \in Runs, Placed(r), NEW w \in Workers, worker[w].run # r,
           UNCHANGED <<run, request, ledger>>,
           NEW kind \in {"prepare", "submit"}, queue[kind][r] > 0,
           queue' = [queue EXCEPT ![kind][r] = @ - 1],
           \A v \in Workers \ {w} : worker'[v] = worker[v],
           worker'[w].run = r => worker'[w].pc \in {"begin", "stop", "fill"}
    PROVE  Placed(r)'
<1>1. queue["prepare"][r] \in Nat /\ queue["submit"][r] \in Nat
  BY DEF TypeOK
<1>2. Waiting(r) = 1
  BY <1>1 DEF Placed, OneTask, Waiting
<1>3. Waiting(r)' = 0
  BY <1>1, <1>2 DEF TypeOK, Waiting
<1>4. ~Free(r) /\ \A v \in Workers : worker[v].run = r => ~Engaged(v)
  BY <1>2 DEF Free, Placed, OneTask
<1>5. \A v \in Workers \ {w} : worker'[v].run = r => ~Engaged(v)'
  BY <1>4 DEF Engaged
<1>6. OneTask(r)'
  BY <1>3, <1>5 DEF OneTask
<1>7. /\ run[r].state \notin UserStates
      /\ \A h \in Requests : request[h].run = r => request[h].op \notin Taking
  BY <1>4 DEF Placed, UsersTurn, Taken
<1>8. UsersTurn(r)' /\ Taken(r)'
  BY <1>7 DEF UsersTurn, Taken, Taking
<1>9. ~Spent(r)
  BY <1>4 DEF Spent
<1>10. Finished(r)'
  BY <1>9 DEF Finished, Placed
<1>11. ledger[r].sends = 0
  BY <1>4, <1>9 DEF Placed, Once, Engaged
<1> QED
  BY <1>6, <1>8, <1>10, <1>11 DEF Placed, Once

\* A worker writes the row of the run it works on, and no other.
WritesOwn(w) ==
    LET r == worker[w].run IN
    /\ r \in Runs /\ UNCHANGED <<queue, request>>
    /\ \A q \in Runs \ {r} : run'[q] = run[q] /\ ledger'[q] = ledger[q]
    /\ \A v \in Workers \ {w} : worker'[v] = worker[v]
    /\ worker'[w].run \in {r, NoRun}

LEMMA WorkerWritesOwn ==
    ASSUME TypeOK, NEW w \in Workers, WorkerContinues(w) \/ RecordFails(w) \/ WorkerCrash(w)
    PROVE  WritesOwn(w)
<1> DEFINE r == worker[w].run
<1>1. worker[w].pc # "idle" /\ UNCHANGED <<queue, request>>
  BY DEF WorkerContinues, Begin, FormStops, FormRead, FormHandedOver, FormAnswered, FormFilled,
     SubmitStops, Send, Confirm, WorkerRecord, WorkerApplied, RecordFails, WorkerCrash
<1>2. r \in Runs
  BY <1>1, WorkerRun
<1>3. \A q \in Runs \ {r} : run'[q] = run[q]
  <2>1. \A state, nokey : Transition(r, state, nokey) => \A q \in Runs \ {r} : run'[q] = run[q]
    BY <1>2 DEF TypeOK, Transition
  <2>2. CASE FormFilled(w) \/ Send(w) \/ WorkerRecord(w) \/ WorkerApplied(w) \/ WorkerCrash(w)
    BY <2>2 DEF FormFilled, Send, WorkerRecord, WorkerApplied, WorkerCrash
  <2>3. CASE Begin(w) \/ FormStops(w) \/ FormHandedOver(w) \/ FormAnswered(w) \/ SubmitStops(w)
             \/ RecordFails(w)
    BY <2>1, <2>3 DEF Begin, FormStops, FormHandedOver, FormAnswered, SubmitStops, RecordFails
  <2>4. CASE FormRead(w)
    BY <1>2, <2>4 DEF FormRead, TypeOK
  <2>5. CASE Confirm(w)
    BY <2>5, ConfirmIs
  <2> QED
    BY <2>2, <2>3, <2>4, <2>5 DEF WorkerContinues
<1>4. \A q \in Runs \ {r} : ledger'[q] = ledger[q]
  <2>1. CASE Send(w)
    BY <1>2, <2>1 DEF Send, TypeOK
  <2>2. CASE Confirm(w)
    <3>1. UNCHANGED ledger \/ ledger' = [ledger EXCEPT ![r].confirmed = TRUE]
      BY <2>2, ConfirmIs
    <3> QED
      BY <1>2, <3>1 DEF TypeOK
  <2> QED
    BY <2>1, <2>2 DEF WorkerContinues, Begin, FormStops, FormRead, FormHandedOver, FormAnswered,
       FormFilled, SubmitStops, WorkerRecord, WorkerApplied, RecordFails, WorkerCrash
<1>5. /\ \A v \in Workers \ {w} : worker'[v] = worker[v]
      /\ worker'[w].run \in {r, NoRun}
  <2>1. CASE FormFilled(w)
    BY <2>1 DEF FormFilled, TypeOK, OpenTask, Task
  <2>2. CASE ~FormFilled(w)
    <3>1. \E pc : Advances(w, pc)
      BY <2>2, Advancing DEF WorkerContinues, Begin, FormStops, FormRead, FormHandedOver,
         FormAnswered, SubmitStops, Send, Confirm, WorkerRecord, WorkerApplied, RecordFails,
         WorkerCrash
    <3> QED
      BY <3>1 DEF Advances, IdleWorker
  <2> QED
    BY <2>1, <2>2
<1> QED
  BY <1>1, <1>2, <1>3, <1>4, <1>5 DEF WritesOwn

LEMMA OthersPlaced ==
    ASSUME TypeOK, AllPlaced, NEW w \in Workers, WritesOwn(w),
           NEW r \in Runs, worker[w].run = r, Placed(r)'
    PROVE  AllPlaced'
<1>1. ASSUME NEW q \in Runs, q # r PROVE Placed(q)'
  <2>1. Untouched(q)
    BY <1>1, ApplyConstants DEF Untouched, WritesOwn
  <2> QED
    BY <2>1, UntouchedStays DEF AllPlaced
<1> QED
  BY <1>1 DEF AllPlaced

LEMMA WorkerPlaces ==
    ASSUME TypeOK, Known, AllPlaced, NEW w \in Workers,
           TakesTask(w) \/ WorkerContinues(w) \/ RecordFails(w) \/ WorkerCrash(w)
    PROVE  AllPlaced'
<1>1. WorkerAt(w)
  BY DEF Known
<1>2. ASSUME NEW q \in Runs, TakePrepare(w, q) \/ TakeSubmit(w, q) PROVE AllPlaced'
  <2>1. PICK kind \in {"prepare", "submit"} :
            queue[kind][q] > 0 /\ queue' = [queue EXCEPT ![kind][q] = @ - 1]
    BY <1>2 DEF TakePrepare, TakeSubmit
  <2>2. worker[w].pc = "idle" /\ UNCHANGED <<run, request, ledger>>
    BY <1>2 DEF TakePrepare, TakeSubmit
  <2>3. worker[w].run \notin Runs
    BY <1>1, <2>2, ApplyConstants DEF WorkerAt
  <2>4. \/ UNCHANGED worker
        \/ \E kind2, pc, status : pc \in {"begin", "stop", "fill"} /\ Take(w, kind2, q, pc, status)
    BY <1>2 DEF TakePrepare, TakeSubmit
  <2>5. /\ \A v \in Workers \ {w} : worker'[v] = worker[v]
        /\ worker'[w] = worker[w] \/ (worker'[w].run = q /\ worker'[w].pc \in {"begin", "stop", "fill"})
    BY <2>4 DEF Take, TypeOK
  <2>6. Placed(q)'
    BY <2>1, <2>2, <2>3, <2>5, TakesInHand DEF AllPlaced
  <2>7. ASSUME NEW p \in Runs, p # q PROVE Placed(p)'
    <3>1. Untouched(p)
      BY <2>1, <2>2, <2>3, <2>5, <2>7 DEF Untouched, TypeOK
    <3> QED
      BY <3>1, UntouchedStays DEF AllPlaced
  <2> QED
    BY <2>6, <2>7 DEF AllPlaced
<1>3. ASSUME NEW r \in Runs, worker[w].run = r,
             WorkerContinues(w) \/ RecordFails(w) \/ WorkerCrash(w)
      PROVE  AllPlaced'
  <2>1. WritesOwn(w)
    BY <1>3, WorkerWritesOwn
  <2>2. /\ r \in Runs /\ Placed(r) /\ UNCHANGED <<queue, request>>
        /\ \A v \in Workers \ {w} : worker'[v] = worker[v]
        /\ NoRun # r
    BY <2>1, ApplyConstants DEF WritesOwn, AllPlaced
  <2> SUFFICES Placed(r)'
    BY <1>3, <2>1, OthersPlaced
  <2>3. ASSUME Begin(w) PROVE Placed(r)'
    <3>1. Advances(w, "last") /\ worker'[w].status = worker[w].status /\ UNCHANGED ledger
      BY <2>3, Advancing DEF Begin
    <3>2. run'[r].state = worker[w].status /\ worker[w].pc \in {"begin", "stop"}
      BY <1>3, <2>2, <2>3, TransitionIs DEF Begin
    <3>3. Engaged(w)
      BY <3>2 DEF Engaged
    <3>4. CASE worker[w].pc = "begin" /\ worker'[w].pc = "last"
      <4>1. Engaged(w)' /\ run'[r].state \notin UserStates
        BY <1>1, <3>1, <3>2, <3>4 DEF Engaged, WorkerAt, UserStates
      <4> QED
        BY <1>3, <2>2, <3>1, <3>3, <3>4, <4>1, GoesOn
    <3>5. CASE worker'[w].run # r \/ worker[w].pc = "stop"
      <4>1. worker'[w].run = r => ~Engaged(w)' /\ worker'[w].pc = "last"
        BY <1>1, <2>2, <3>1, <3>2, <3>5 DEF Engaged, WorkerAt, StopStates, Advances, IdleWorker
      <4> QED
        BY <1>3, <2>2, <3>1, <3>2, <3>3, <4>1, Leaves
    <3>6. worker'[w].pc = "last" \/ worker'[w].run # r
      BY <1>3, <2>2, <3>1 DEF Advances, IdleWorker
    <3> QED
      BY <3>2, <3>4, <3>5, <3>6
  <2>4. ASSUME FormStops(w) \/ FormHandedOver(w) \/ SubmitStops(w) PROVE Placed(r)'
    <3>1. /\ worker[w].pc \in {"form", "decide", "fill", "click"} /\ UNCHANGED ledger
          /\ \E pc \in {"record", "last"} : \E status \in {"needs_user", "failed", "prefilled"} :
                 Advances(w, pc) /\ worker'[w].status = status
      BY <2>4, Advancing DEF FormStops, FormHandedOver, SubmitStops
    <3>2. run'[r].state \in {"needs_user", "failed"}
      BY <1>3, <2>2, <2>4, TransitionIs DEF FormStops, FormHandedOver, SubmitStops
    <3>3. Engaged(w) /\ (worker'[w].run = r => ~Engaged(w)')
      BY <1>3, <2>2, <3>1 DEF Engaged, Advances, IdleWorker
    <3> QED
      BY <1>3, <2>2, <3>1, <3>2, <3>3, Leaves DEF OpenStates
  <2>5. ASSUME FormRead(w) PROVE Placed(r)'
    <3>1. Advances(w, "decide") /\ UNCHANGED ledger /\ worker[w].pc = "form" /\ Engaged(w)
      BY <2>5, Advancing DEF FormRead, Engaged
    <3>2. run'[r].state = run[r].state /\ run[r].state \notin UserStates
      BY <1>3, <2>2, <2>5, <3>1, EngagedAlone DEF FormRead, TypeOK, Row
    <3>3. CASE worker'[w].pc = "decide"
      BY <1>3, <2>2, <3>1, <3>2, <3>3, GoesOn DEF Engaged
    <3>4. CASE worker'[w].pc # "decide"
      <4>1. worker'[w].run # r
        BY <1>3, <2>2, <3>1, <3>4 DEF Advances, IdleWorker
      <4> QED
        BY <1>3, <2>2, <3>1, <4>1, Leaves
    <3> QED
      BY <3>3, <3>4
  <2>6. ASSUME FormAnswered(w) PROVE Placed(r)'
    <3>1. r \in Runs /\ run[r].plan \in Plan
      BY <1>3, <2>2 DEF TypeOK, Row
    <3> DEFINE state == AfterAnswers(run[r].plan)
    <3>2. state \in {"awaiting_input", "awaiting_review", "queued"}
      BY <3>1, AfterAnswersType
    <3> HIDE DEF state
    <3>3. WorkerEnds(w) \/ \E pc \in {"record", "last"} : WorkerToRecord(w, pc, state)
      BY <1>3, <2>6 DEF FormAnswered, state
    <3>4. /\ \E pc \in {"record", "last"} : Advances(w, pc)
          /\ worker'[w] = IdleWorker \/ worker'[w].status = state
      BY <3>3, Advancing
    <3>5. UNCHANGED ledger /\ worker[w].pc = "decide" /\ worker[w].task = "prepare"
      BY <1>1, <2>6 DEF FormAnswered, WorkerAt
    <3>6. /\ worker'[w].run = r => ~Engaged(w)' /\ worker'[w].task = "prepare"
          /\ Engaged(w)
      BY <1>3, <2>2, <3>2, <3>4, <3>5 DEF Engaged, Advances, IdleWorker
    <3> QED
      BY <1>3, <2>2, <3>5, <3>6, Leaves
  <2>7. ASSUME FormFilled(w) PROVE Placed(r)'
    <3>1. /\ UNCHANGED <<run, ledger>> /\ worker[w].pc = "fill"
          /\ worker'[w].pc = "click" /\ worker'[w].run = worker[w].run
      BY <2>7 DEF FormFilled, TypeOK, OpenTask, Task
    <3>2. Engaged(w) /\ Engaged(w)'
      BY <3>1 DEF Engaged
    <3>3. run[r].state \notin UserStates
      BY <1>3, <2>2, <3>2, EngagedAlone
    <3> QED
      BY <1>3, <2>2, <3>1, <3>2, <3>3, GoesOn
  <2>8. ASSUME Send(w) PROVE Placed(r)'
    <3>1. /\ UNCHANGED run /\ worker[w].pc = "click"
          /\ worker'[w].pc = "confirm" /\ worker'[w].run = worker[w].run
      BY <2>8 DEF Send, Working, TypeOK, OpenTask, Task
    <3>2. ledger'[r].sends = ledger[r].sends + 1
      BY <1>3, <2>2, <2>8 DEF Send, TypeOK, History
    <3>3. Engaged(w) /\ Engaged(w)'
      BY <3>1 DEF Engaged
    <3>4. run[r].state \notin UserStates
      BY <1>3, <2>2, <3>3, EngagedAlone
    <3> QED
      BY <1>3, <2>2, <3>1, <3>2, <3>3, <3>4, GoesOn
  <2>9. ASSUME Confirm(w) PROVE Placed(r)'
    <3>1. run'[r].state \in {"submitted", "needs_user"}
      BY <1>3, <2>9, ConfirmIs
    <3>2. ledger'[r].sends = ledger[r].sends
      BY <1>3, <2>2, <2>9 DEF Confirm, TypeOK, History
    <3>3. /\ worker[w].pc = "confirm" /\ Advances(w, "record")
          /\ worker'[w].status \in {"submitted", "needs_user"}
      BY <2>9, Advancing DEF Confirm
    <3>4. Engaged(w) /\ (worker'[w].run = r => ~Engaged(w)')
      BY <1>3, <2>2, <3>3 DEF Engaged, Advances, IdleWorker
    <3> QED
      BY <1>3, <2>2, <3>1, <3>2, <3>4, Leaves DEF OpenStates
  <2>10. ASSUME WorkerRecord(w), worker[w].status = "preparing" PROVE Placed(r)'
    <3>1. Working(w, "form") /\ worker[w].pc = "last" /\ UNCHANGED <<run, ledger>>
      BY <1>1, <2>10 DEF WorkerRecord, WorkerAt
    <3>2. worker'[w].pc = "form" /\ worker'[w].run = worker[w].run
      BY <3>1 DEF Working, TypeOK, OpenTask, Task
    <3>3. Engaged(w) /\ Engaged(w)'
      BY <2>10, <3>1, <3>2 DEF Engaged
    <3>4. run[r].state \notin UserStates
      BY <1>3, <2>2, <3>3, EngagedAlone
    <3> QED
      BY <1>3, <2>2, <3>1, <3>2, <3>3, <3>4, GoesOn
  <2>11. ASSUME WorkerRecord(w), worker[w].status # "preparing" PROVE Placed(r)'
    <3>1. /\ \/ worker'[w].pc = "apply" /\ worker'[w].task = worker[w].task
                /\ worker[w].pc = "record"
             \/ worker'[w] = IdleWorker
          /\ worker[w].pc \in {"record", "last"} /\ UNCHANGED <<run, ledger>>
      BY <1>1, <2>11 DEF WorkerRecord, Working, WorkerEnds, TypeOK, OpenTask, Task, WorkerAt
    <3>2. ~Engaged(w) /\ (worker'[w].run = r => ~Engaged(w)')
      BY <1>3, <2>2, <2>11, <3>1 DEF Engaged, IdleWorker
    <3>3. worker'[w].run = r => worker'[w].task = worker[w].task /\ worker[w].pc = "record"
      BY <2>2, <3>1 DEF IdleWorker
    <3> QED
      BY <1>3, <2>2, <3>1, <3>2, <3>3, Lingers
  <2>12. ASSUME WorkerApplied(w) PROVE Placed(r)'
    <3>1. worker'[w] = IdleWorker /\ worker[w].pc = "apply" /\ UNCHANGED <<run, ledger>>
      BY <2>12 DEF WorkerApplied, WorkerEnds, TypeOK
    <3>2. ~Engaged(w) /\ worker'[w].run # r
      BY <1>3, <2>2, <3>1 DEF Engaged, IdleWorker
    <3> QED
      BY <1>3, <2>2, <3>1, <3>2, Lingers
  <2>13. ASSUME RecordFails(w) PROVE Placed(r)'
    <3>1. /\ worker[w].pc \in {"record", "apply"} /\ UNCHANGED ledger
          /\ Advances(w, "last") /\ worker'[w].status \in {"needs_user", "failed"}
      BY <2>13, Advancing DEF RecordFails
    <3>2. ~Engaged(w) /\ (worker'[w].run = r => ~Engaged(w)' /\ worker'[w].pc = "last")
      BY <1>3, <2>2, <3>1 DEF Engaged, Advances, IdleWorker
    <3>3. CASE worker[w].task = "submit"
      <4>1. run'[r].state = "needs_user"
        BY <1>3, <2>2, <2>13, <3>3, TransitionIs DEF RecordFails
      <4>2. Spent(r)
        BY <1>3, <2>2, <3>1, <3>3 DEF Placed, Finished
      <4> QED
        BY <1>3, <2>2, <3>1, <3>2, <4>1, <4>2, Lingers DEF OpenStates
    <3>4. CASE worker[w].task # "submit"
      <4>1. run'[r].state = "failed"
        BY <1>3, <2>2, <2>13, <3>4, TransitionIs DEF RecordFails
      <4> QED
        BY <1>3, <2>2, <3>1, <3>2, <4>1, Lingers DEF UserStates
    <3> QED
      BY <3>3, <3>4
  <2>14. ASSUME WorkerCrash(w) PROVE Placed(r)'
    <3>1. worker'[w] = IdleWorker /\ UNCHANGED <<run, ledger>>
      BY <2>14 DEF WorkerCrash, WorkerEnds, TypeOK
    <3>2. worker'[w].run # r
      BY <1>3, <2>2, <3>1 DEF IdleWorker
    <3>3. CASE Engaged(w)
      <4>1. run[r].state \notin OpenStates
        BY <1>3, <2>2, <3>3, EngagedAlone DEF OpenStates, UserStates
      <4> QED
        BY <1>3, <2>2, <3>1, <3>2, <3>3, <4>1, Leaves
    <3>4. CASE ~Engaged(w)
      BY <1>3, <2>2, <3>1, <3>2, <3>4, Lingers
    <3> QED
      BY <3>3, <3>4
  <2> QED
    BY <1>3, <2>3, <2>4, <2>5, <2>6, <2>7, <2>8, <2>9, <2>10, <2>11, <2>12, <2>13, <2>14
    DEF WorkerContinues
<1>4. WorkerContinues(w) \/ RecordFails(w) \/ WorkerCrash(w) => worker[w].run \in Runs
  BY WorkerWritesOwn DEF WritesOwn
<1> QED
  BY <1>2, <1>3, <1>4 DEF TakesTask

\* The user sends one request at a time.
OneRequest == \A g, h \in Requests : g = h

\* What a request does to a run on its way: the row may change its state.
LEMMA Writes ==
    ASSUME TypeOK, OneRequest, NEW r \in Runs, Placed(r), NEW h \in Requests, request[h].run = r,
           NEW pc, Proceeds(h, pc), UNCHANGED <<queue, worker>>,
           ledger'[r].sends = ledger[r].sends,
           run'[r].state \in UserStates => Free(r),
           Spent(r) => run'[r].state \notin OpenStates,
           request[h].op = "approve" /\ pc \in {"record", "dispatch"}
               => run'[r].state \notin UserStates
    PROVE  Placed(r)'
<1>1. /\ Waiting(r)' = Waiting(r) /\ Free(r)' = Free(r)
      /\ \A w \in Workers : Engaged(w)' <=> Engaged(w)
  BY DEF Waiting, Free, Engaged
<1>2. \A g \in Requests :
          /\ g = h
          /\ request'[g] = IdleRequest
             \/ (request'[g].op = request[g].op /\ request'[g].pc = pc)
  BY DEF OneRequest, Proceeds, SameErrand
<1>3. IdleRequest.op = "none"
  BY DEF IdleRequest
<1>4. Spent(r) => Spent(r)'
  BY <1>1, <1>2, <1>3 DEF Spent, Starting
<1>5. OneTask(r)' /\ UsersTurn(r)'
  BY <1>1 DEF OneTask, UsersTurn, Placed
<1>6. Taken(r)'
  BY <1>1, <1>2, <1>3 DEF Taken, Placed, Taking
<1>7. Finished(r)' /\ Once(r)'
  BY <1>4 DEF Finished, Once, Placed
<1> QED
  BY <1>5, <1>6, <1>7 DEF Placed

\* A request loads the row of a run and checks it.
LEMMA Loads ==
    ASSUME TypeOK, OneRequest, NEW r \in Runs, Placed(r), NEW h \in Requests,
           UNCHANGED <<run, queue, worker, ledger>>,
           request'[h].pc \notin {"record", "dispatch"},
           request'[h].op \in Taking => Free(r),
           request'[h].op \in Starting => run[r].state \in OpenStates
    PROVE  Placed(r)'
<1>1. /\ Waiting(r)' = Waiting(r) /\ Free(r)' = Free(r)
      /\ \A w \in Workers : Engaged(w)' <=> Engaged(w)
  BY DEF Waiting, Free, Engaged
<1>2. \A g \in Requests : g = h
  BY DEF OneRequest
<1>3. Spent(r) => Spent(r)'
  BY <1>1, <1>2 DEF Spent
<1>4. OneTask(r)' /\ UsersTurn(r)'
  BY <1>1 DEF OneTask, UsersTurn, Placed
<1>5. Taken(r)'
  BY <1>1, <1>2 DEF Taken, Placed
<1>6. Finished(r)' /\ Once(r)'
  BY <1>3 DEF Finished, Once, Placed
<1> QED
  BY <1>4, <1>5, <1>6 DEF Placed

\* A request writes the row of the run it is about, and no other.
OneRow(h, r) ==
    /\ request[h].run = r /\ request'[h].run \in {r, NoRun}
    /\ \A g \in Requests \ {h} : request'[g] = request[g]
    /\ \A q \in Runs \ {r} :
           /\ run'[q] = run[q] /\ ledger'[q] = ledger[q]
           /\ queue'["prepare"][q] = queue["prepare"][q] /\ queue'["submit"][q] = queue["submit"][q]
    /\ UNCHANGED worker

LEMMA OtherRows ==
    ASSUME TypeOK, AllPlaced, NEW h \in Requests, NEW r \in Runs, OneRow(h, r), Placed(r)'
    PROVE  AllPlaced'
<1>1. ASSUME NEW q \in Runs, q # r PROVE Placed(q)'
  <2>1. Untouched(q)
    <3>1. \A g \in Requests : request'[g].run = q => request'[g] = request[g]
      BY <1>1, ApplyConstants DEF OneRow
    <3> QED
      BY <1>1, <3>1 DEF Untouched, OneRow
  <2> QED
    BY <2>1, UntouchedStays DEF AllPlaced
<1> QED
  BY <1>1 DEF AllPlaced

LEMMA ProceedsOneRow ==
    ASSUME TypeOK, NEW h \in Requests, NEW r \in Runs, request[h].run = r,
           NEW pc, Proceeds(h, pc),
           \A q \in Runs \ {r} : run'[q] = run[q] /\ ledger'[q] = ledger[q],
           UNCHANGED <<queue, worker>>
    PROVE  OneRow(h, r)
BY DEF Proceeds, SameErrand, IdleRequest, OneRow

LEMMA LoadPlaces ==
    ASSUME TypeOK, OneRequest, AllPlaced, NEW h \in Requests, NEW r \in Runs,
           \/ CreateCheck(h, r) \/ CreateInBrowserCheck(h, r) \/ AnswerLoad(h, r)
           \/ ApproveLoad(h, r) \/ CancelLoad(h, r) \/ DoneLoad(h, r) \/ ClosedLoad(h, r)
           \/ BrowserLoad(h, r)
    PROVE  AllPlaced'
<1>1. ASSUME NEW op, NEW status, NEW todo, NEW pc \in {"insert", "cancelling", "write"},
             Load(h, op, r, pc, status, todo), UNCHANGED <<run, queue, worker, ledger>>,
             op \in Taking => run[r].state \in UserStates,
             op \in Starting => run[r].state \in OpenStates
      PROVE  AllPlaced'
  <2>1. /\ request'[h].op = op /\ request'[h].pc = pc /\ request'[h].run = r
        /\ \A g \in Requests \ {h} : request'[g] = request[g]
    BY <1>1 DEF TypeOK, Load
  <2>2. Placed(r)'
    BY <1>1, <2>1, Loads DEF AllPlaced, Placed, UsersTurn
  <2>3. ASSUME NEW q \in Runs, q # r PROVE Placed(q)'
    <3>1. Untouched(q)
      BY <1>1, <2>1, <2>3 DEF Untouched
    <3> QED
      BY <3>1, UntouchedStays DEF AllPlaced
  <2> QED
    BY <2>2, <2>3 DEF AllPlaced
<1>2. CASE CreateCheck(h, r)
  BY <1>1, <1>2 DEF CreateCheck, UserStates, OpenStates
<1>3. CASE CreateInBrowserCheck(h, r)
  <2>1. /\ run[r].state = "none" /\ UNCHANGED <<run, queue, worker, ledger>>
        /\ \E stale : Load(h, "create", r, "cancelling", "in_browser", stale)
    BY <1>3 DEF CreateInBrowserCheck
  <2> QED
    BY <1>1, <2>1 DEF UserStates, OpenStates
<1>4. CASE AnswerLoad(h, r) \/ ApproveLoad(h, r)
  BY <1>1, <1>4 DEF AnswerLoad, ApproveLoad, UserStates, OpenStates
<1>5. CASE CancelLoad(h, r)
  BY <1>1, <1>5 DEF CancelLoad, Taking, Starting
<1>6. CASE DoneLoad(h, r) \/ ClosedLoad(h, r) \/ BrowserLoad(h, r)
  BY <1>1, <1>6 DEF DoneLoad, ClosedLoad, BrowserLoad, UserStates, Starting
<1> QED
  BY <1>2, <1>3, <1>4, <1>5, <1>6

\* Turning a switch off, and cancelling one of the runs it governs.
LEMMA SwitchPlaces ==
    ASSUME TypeOK, OneRequest, Rows, AllPlaced, NEW h \in Requests,
           CancelNext(h) \/ CancelledAll(h) \/ \E switch \in Switches : SwitchOff(h, switch)
    PROVE  AllPlaced'
<1> DEFINE op == request[h].op
<1>1. ASSUME NEW switch \in Switches, SwitchOff(h, switch) PROVE AllPlaced'
  <2>1. /\ request'[h].op = switch /\ request'[h].pc = "cancelling" /\ switch \notin Taking
        /\ switch \notin Starting
        /\ UNCHANGED <<run, queue, worker, ledger>>
    BY <1>1 DEF SwitchOff, TypeOK, IdleRequest, Switches, Taking, Starting
  <2> QED
    BY <2>1, Loads DEF AllPlaced
<1>2. ASSUME NEW q, q \in request[h].todo, request[h].pc = "cancelling",
             Transition(q, "cancelled", request[h].nokey),
             request' = [request EXCEPT ![h].todo = @ \ {q}, ![h].nokey = {},
                   ![h].pc = IF op = "create" THEN @ ELSE "record",
                   ![h].run = IF op = "create" THEN @ ELSE q,
                   ![h].status = IF op = "create" THEN @ ELSE "cancelled"],
             UNCHANGED <<queue, worker, ledger>>
      PROVE  AllPlaced'
  <2>1. request \in [Requests -> Request]
    BY DEF TypeOK, OpenRequest
  <2>2. /\ op = "create" => /\ request'[h].run = request[h].run /\ request'[h].pc = request[h].pc
                            /\ request'[h].op = op /\ request'[h].plan = request[h].plan
        /\ op # "create" => request'[h].run = q /\ request'[h].op = op
        /\ \A g \in Requests \ {h} : request'[g] = request[g]
    BY <1>2, <2>1 DEF Request
  <2>3. q \in Runs /\ (op # "create" => op \in Switches)
    BY <1>2 DEF TypeOK, OpenRequest, Request
  <2>4. run'[q].state = "cancelled" /\ \A p \in Runs \ {q} : run'[p] = run[p]
    BY <1>2, <2>3, TransitionIs
  <2>5. ASSUME NEW p \in Runs, p # q PROVE Placed(p)'
    <3>1. \A g \in Requests : request'[g].run = p =>
              /\ request[g].run = p /\ request'[g].op = request[g].op
              /\ request'[g].pc = request[g].pc /\ request'[g].plan = request[g].plan
      BY <2>2, <2>5 DEF OneRequest
    <3>2. run'[p] = run[p] /\ ledger'[p] = ledger[p]
      BY <1>2, <2>4, <2>5
    <3>3. Untouched(p)
      BY <1>2, <3>1, <3>2 DEF Untouched
    <3> QED
      BY <3>3, UntouchedStays DEF AllPlaced
  <2>6. Placed(q)'
    <3>1. op = "create" => request[h].run # q
      BY <1>2 DEF Rows, RowsKnown, RowsFresh, Creating
    <3>2. \A g \in Requests : request'[g].run = q => request'[g].op \notin Taking
      BY <2>2, <2>3, <3>1 DEF OneRequest, Switches, Taking
    <3>3. /\ Waiting(q)' = Waiting(q) /\ Free(q)' = Free(q)
          /\ \A w \in Workers : Engaged(w)' <=> Engaged(w)
      BY <1>2 DEF Waiting, Free, Engaged
    <3>4. Spent(q) => Spent(q)'
      <4>1. run'[q].state \notin OpenStates
        BY <2>4 DEF OpenStates
      <4>2. \A g \in Requests : request'[g].run = q => request'[g].op \notin Starting
        BY <3>2 DEF Taking, Starting
      <4> QED
        BY <3>3, <4>1, <4>2 DEF Spent
    <3>5. OneTask(q)'
      <4>1. OneTask(q)
        BY <2>3 DEF AllPlaced, Placed
      <4> QED
        BY <1>2, <3>3, <4>1 DEF OneTask
    <3>6. UsersTurn(q)'
      BY <2>4 DEF UsersTurn, UserStates
    <3>7. Taken(q)'
      BY <2>4, <3>2 DEF Taken, UserStates
    <3>8. Finished(q)' /\ Once(q)'
      BY <1>2, <2>3, <3>4 DEF Finished, Once, AllPlaced, Placed
    <3> QED
      BY <3>5, <3>6, <3>7, <3>8 DEF Placed
  <2> QED
    BY <2>5, <2>6 DEF AllPlaced
<1>3. ASSUME CancelNext(h) PROVE AllPlaced'
  BY <1>2, <1>3 DEF CancelNext
<1>4. ASSUME CancelledAll(h) PROVE AllPlaced'
  <2>1. UNCHANGED <<run, queue, worker, ledger>> /\ request[h].pc = "cancelling"
    BY <1>4 DEF CancelledAll
  <2>2. \/ /\ request'[h].run = request[h].run /\ request'[h].op = request[h].op
           /\ request'[h].pc = "insert" /\ op = "create"
        \/ request'[h].op = "none" /\ request'[h].pc = "idle"
    BY <1>4 DEF CancelledAll, Goto, Finish, IdleRequest, TypeOK, OpenRequest, Request
  <2>3. ASSUME NEW q \in Runs PROVE Placed(q)'
    <3>1. CASE request'[h].op = "none" \/ request[h].run = q
      <4>1. request'[h].op \in Taking => Free(q) /\ run[q].state \in OpenStates
        BY <2>1, <2>2, <2>3, <3>1
        DEF Taking, AllPlaced, Placed, Taken, Rows, RowsFresh, Creating, OpenStates
      <4> QED
        BY <2>1, <2>2, <2>3, <4>1, Loads DEF AllPlaced, Taking, Starting
    <3>2. CASE request'[h].run = request[h].run /\ request[h].run # q
      <4>1. Untouched(q)
        BY <2>1, <3>2 DEF Untouched, OneRequest
      <4> QED
        BY <4>1, UntouchedStays DEF AllPlaced
    <3> QED
      BY <2>2, <3>1, <3>2
  <2> QED
    BY <2>3 DEF AllPlaced
<1> QED
  BY <1>1, <1>3, <1>4

\* The commits of a request, and what follows them.
LEMMA WritePlaces ==
    ASSUME TypeOK, OneRequest, Rows, AllPlaced, NEW h \in Requests,
           \/ CreateInsert(h) \/ CreateConfirm(h) \/ AnswerWrite(h) \/ AnswerAfter(h)
           \/ ApproveWrite(h) \/ CancelWrite(h) \/ DoneWrite(h) \/ ClosedWrite(h)
           \/ BrowserWrite(h) \/ RequestRecord(h) \/ RequestApplied(h)
    PROVE  AllPlaced'
<1>1. /\ request[h].pc \notin {"idle", "cancelling"} /\ UNCHANGED <<queue, worker>>
  BY DEF CreateInsert, CreateConfirm, AnswerWrite, AnswerAfter, ApproveWrite, CancelWrite,
     DoneWrite, ClosedWrite, BrowserWrite, RequestRecord, RequestApplied
<1>2. PICK r \in Runs : request[h].run = r
  BY <1>1, RequestRun
<1>3. /\ Placed(r)
      /\ request[h].op \in Taking => Free(r)
      /\ request[h].op \in Starting => ~Spent(r)
  BY <1>2 DEF AllPlaced, Placed, Taken, Spent
\* What each of them has to show.
<1>4. ASSUME NEW pc, Proceeds(h, pc),
             \A q \in Runs \ {r} : run'[q] = run[q] /\ ledger'[q] = ledger[q],
             ledger'[r].sends = ledger[r].sends,
             run'[r].state \in UserStates => Free(r),
             Spent(r) => run'[r].state \notin OpenStates,
             request[h].op = "approve" /\ pc \in {"record", "dispatch"}
                 => run'[r].state \notin UserStates
      PROVE  AllPlaced'
  <2>1. Placed(r)'
    BY <1>1, <1>2, <1>3, <1>4, Writes
  <2>2. OneRow(h, r)
    BY <1>1, <1>2, <1>4, ProceedsOneRow
  <2> QED
    BY <2>1, <2>2, OtherRows
<1>5. \A state, nokey : Transition(r, state, nokey) =>
          run'[r].state = state /\ \A q \in Runs \ {r} : run'[q] = run[q]
  BY <1>2 DEF TypeOK, Transition, Moved, Row
<1>6. CASE CreateInsert(h)
  <2>1. request[h].op = "create" /\ UNCHANGED ledger /\ request[h].status \in {"queued", "in_browser"}
    BY <1>6 DEF CreateInsert, Rows, RowsKnown, TypeOK, OpenRequest
  <2>2. Proceeds(h, "created")
    BY <1>6, Proceeding DEF CreateInsert
  <2>3. \A q \in Runs \ {r} : run'[q] = run[q]
    BY <1>2, <1>6 DEF CreateInsert, TypeOK
  <2> QED
    BY <1>3, <1>4, <2>1, <2>2, <2>3 DEF Taking, Starting
<1>7. CASE CreateConfirm(h)
  <2>1. request[h].op = "create" /\ UNCHANGED ledger
    BY <1>7 DEF CreateConfirm, Rows, RowsKnown
  <2>2. Proceeds(h, "record") /\ Transition(r, request[h].status, {})
    BY <1>2, <1>7, Proceeding DEF CreateConfirm
  <2> QED
    BY <1>3, <1>4, <1>5, <2>1, <2>2 DEF Taking, Starting
<1>8. CASE AnswerWrite(h)
  <2>1. request[h].op = "answer" /\ UNCHANGED ledger /\ Proceeds(h, "after")
    BY <1>8, Proceeding DEF AnswerWrite
  <2>2. run'[r].state = run[r].state /\ \A q \in Runs \ {r} : run'[q] = run[q]
    BY <1>2, <1>8 DEF AnswerWrite, TypeOK, Row
  <2> QED
    BY <1>3, <1>4, <2>1, <2>2 DEF Taking, Starting
<1>9. CASE AnswerAfter(h)
  <2>1. request[h].op = "answer" /\ UNCHANGED ledger
    BY <1>9 DEF AnswerAfter
  <2>2. Proceeds(h, "record") \/ Proceeds(h, "dispatch")
    BY <1>9, Proceeding DEF AnswerAfter
  <2>3. Transition(r, AfterAnswers(run[r].plan), {})
    BY <1>2, <1>9 DEF AnswerAfter
  <2> QED
    BY <1>3, <1>4, <1>5, <2>1, <2>2, <2>3 DEF Taking, Starting
<1>10. CASE ApproveWrite(h)
  <2>1. request[h].op = "approve" /\ Proceeds(h, "record") /\ Transition(r, "submitting", {})
    BY <1>2, <1>10, Proceeding DEF ApproveWrite
  <2>2. /\ ledger'[r].sends = ledger[r].sends
        /\ \A q \in Runs \ {r} : ledger'[q] = ledger[q]
    BY <1>2, <1>10 DEF ApproveWrite, TypeOK, History
  <2> QED
    BY <1>3, <1>4, <1>5, <2>1, <2>2 DEF UserStates, OpenStates
<1>11. CASE CancelWrite(h)
  <2>1. /\ request[h].op = "cancel" /\ Proceeds(h, "record") /\ UNCHANGED ledger
        /\ Transition(r, "cancelled", request[h].nokey)
    BY <1>2, <1>11, Proceeding DEF CancelWrite
  <2> QED
    BY <1>4, <1>5, <2>1 DEF UserStates, OpenStates
<1>12. CASE DoneWrite(h)
  <2>1. request[h].op = "done" /\ Proceeds(h, "record") /\ UNCHANGED ledger
    BY <1>12, Proceeding DEF DoneWrite
  <2>2. run'[r].state \in {"done", "cancelled"} /\ \A q \in Runs \ {r} : run'[q] = run[q]
    BY <1>2, <1>12, DoneIs
  <2> QED
    BY <1>4, <2>1, <2>2 DEF UserStates, OpenStates
<1>13. CASE ClosedWrite(h)
  <2>1. /\ request[h].op = "closed" /\ Proceeds(h, "idle") /\ UNCHANGED ledger
        /\ Transition(r, "needs_user", request[h].nokey)
    BY <1>2, <1>13, Proceeding DEF ClosedWrite
  <2> QED
    BY <1>3, <1>4, <1>5, <2>1 DEF Taking, OpenStates
<1>14. CASE BrowserWrite(h)
  <2>1. request[h].op = "browser" /\ Proceeds(h, "idle") /\ UNCHANGED ledger
    BY <1>14, Proceeding DEF BrowserWrite
  <2>2. \/ UNCHANGED run
        \/ run'[r].state = "in_browser" /\ \A q \in Runs \ {r} : run'[q] = run[q]
    BY <1>2, <1>14, BrowserIs
  <2>3. Spent(r) => run'[r].state \notin OpenStates
    BY <2>2 DEF Spent, OpenStates
  <2> QED
    BY <1>3, <1>4, <2>1, <2>2, <2>3 DEF Taking
<1>15. CASE RequestRecord(h) \/ RequestApplied(h)
  <2>1. /\ UNCHANGED <<run, ledger>>
        /\ \E pc : /\ Proceeds(h, pc)
                   /\ pc = "dispatch" => request[h].pc = "record"
                   /\ pc # "record"
    <3>1. CASE RequestRecord(h)
      <4>1. Proceeds(h, "dispatch") \/ Proceeds(h, "apply") \/ Proceeds(h, "cancelling")
        BY <3>1, Proceeding DEF RequestRecord
      <4> QED
        BY <3>1, <4>1 DEF RequestRecord
    <3>2. CASE RequestApplied(h)
      <4>1. Proceeds(h, "idle")
        BY <3>2, Proceeding DEF RequestApplied
      <4> QED
        BY <3>2, <4>1 DEF RequestApplied
    <3> QED
      BY <1>15, <3>1, <3>2
  <2>2. request[h].op = "approve" /\ request[h].pc = "record" => run[r].state \notin UserStates
    BY <1>2, <1>3 DEF Placed, Taken
  <2>3. /\ run[r].state \in UserStates => Free(r)
        /\ Spent(r) => run[r].state \notin OpenStates
    BY <1>3 DEF Placed, UsersTurn, Spent
  <2> QED
    BY <1>4, <2>1, <2>2, <2>3
<1> QED
  BY <1>6, <1>7, <1>8, <1>9, <1>10, <1>11, <1>12, <1>13, <1>14, <1>15

\* A request ends by starting a task, or dies.
LEMMA EndPlaces ==
    ASSUME TypeOK, OneRequest, Known, AllPlaced, NEW h \in Requests, Dispatch(h) \/ RequestCrash(h)
    PROVE  AllPlaced'
<1>1. ASSUME RequestCrash(h) PROVE AllPlaced'
  <2>1. /\ request'[h] = IdleRequest /\ UNCHANGED <<run, queue, worker, ledger>>
    BY <1>1 DEF RequestCrash, Finish, TypeOK
  <2>2. /\ request'[h].pc \notin {"record", "dispatch"} /\ request'[h].op \notin Taking
        /\ request'[h].op \notin Starting
    BY <2>1 DEF IdleRequest, Taking, Starting
  <2> QED
    BY <2>1, <2>2, Loads DEF AllPlaced
<1>2. ASSUME Dispatch(h) PROVE AllPlaced'
  <2>1. PICK r \in Runs : request[h].run = r
    BY <1>2, RequestRun DEF Dispatch
  <2>2. /\ request[h].pc = "dispatch" /\ request[h].op \in Starting
        /\ UNCHANGED <<run, worker, ledger>>
        /\ request'[h] = IdleRequest /\ \A g \in Requests \ {h} : request'[g] = request[g]
    BY <1>2 DEF Dispatch, Finish, TypeOK, Known, RequestAt
  <2>3. /\ queue["prepare"][r] \in Nat /\ queue["submit"][r] \in Nat
        /\ \/ /\ request[h].op = "approve"
              /\ queue'["submit"][r] = queue["submit"][r] + 1
              /\ queue'["prepare"][r] = queue["prepare"][r]
           \/ /\ run[r].state = "queued"
              /\ queue'["submit"][r] = queue["submit"][r]
              /\ queue'["prepare"][r] = queue["prepare"][r] + 1
           \/ queue' = queue
        /\ \A q \in Runs \ {r} : queue'["prepare"][q] = queue["prepare"][q]
                                 /\ queue'["submit"][q] = queue["submit"][q]
    <3>1. queue \in [{"prepare", "submit"} -> [Runs -> Nat]]
      BY DEF TypeOK
    <3>2. queue' = [queue EXCEPT
              !["submit"][r] = IF request[h].op = "approve" THEN @ + 1 ELSE @,
              !["prepare"][r] = IF ~(request[h].op = "approve") /\ run[r].state = "queued"
                                THEN @ + 1 ELSE @]
      BY <1>2, <2>1 DEF Dispatch
    <3>3. /\ queue'["submit"] = [queue["submit"] EXCEPT
                 ![r] = IF request[h].op = "approve" THEN @ + 1 ELSE @]
          /\ queue'["prepare"] = [queue["prepare"] EXCEPT
                 ![r] = IF ~(request[h].op = "approve") /\ run[r].state = "queued"
                        THEN @ + 1 ELSE @]
      BY <3>1, <3>2
    <3>4. queue' = queue \/ request[h].op = "approve" \/ run[r].state = "queued"
      BY <3>1, <3>2
    <3> QED
      BY <3>1, <3>3, <3>4
  <2>4. OneRow(h, r)
    BY <2>1, <2>2, <2>3 DEF OneRow, IdleRequest
  <2>5. Placed(r) /\ Free(r) /\ ~Spent(r)
    BY <2>1, <2>2 DEF AllPlaced, Placed, Taken, Spent, Taking, Starting
  <2>6. \A w \in Workers : Engaged(w)' <=> Engaged(w)
    BY <2>2 DEF Engaged
  <2>7. \A g \in Requests : request'[g].op \notin Taking
    BY <2>2 DEF OneRequest, IdleRequest, Taking
  <2>8. queue' = queue \/ run[r].state \notin UserStates
    BY <2>1, <2>2, <2>3, <2>5 DEF Placed, Taken, UserStates
  <2>9. Waiting(r)' <= 1 /\ \A w \in Workers : worker'[w].run = r => ~Engaged(w)'
    <3>1. Waiting(r) = 0 /\ \A w \in Workers : worker[w].run = r => ~Engaged(w)
      BY <2>5 DEF Free
    <3> QED
      BY <2>2, <2>3, <2>6, <3>1 DEF Waiting
  <2>10. OneTask(r)'
    BY <2>9 DEF OneTask
  <2>11. UsersTurn(r)'
    <3>1. queue' = queue => Free(r)'
      BY <2>2, <2>5, <2>6 DEF Free, Waiting
    <3> QED
      BY <2>2, <2>8, <3>1 DEF UsersTurn
  <2>12. Taken(r)'
    BY <2>7 DEF Taken, Taking
  <2>13. Finished(r)'
    BY <2>2, <2>5 DEF Placed, Finished
  <2>14. Once(r)'
    <3>1. ledger[r].sends = 0
      BY <2>5 DEF Placed, Once, Free, Engaged
    <3> QED
      BY <2>2, <3>1 DEF Once
  <2>15. Placed(r)'
    BY <2>10, <2>11, <2>12, <2>13, <2>14 DEF Placed
  <2> QED
    BY <2>4, <2>15, OtherRows
<1> QED
  BY <1>1, <1>2

----------------------------------------------------------------------------
(* The theorems on sends *)

LEMMA InitPlaced == Init => AllPlaced
<1> SUFFICES ASSUME Init, NEW r \in Runs PROVE Placed(r)
  BY DEF AllPlaced
<1>1. Waiting(r) = 0 /\ \A w \in Workers : ~Engaged(w)
  BY DEF Init, Waiting, Engaged, IdleWorker
<1>2. Free(r) /\ OneTask(r) /\ UsersTurn(r)
  BY <1>1 DEF Free, OneTask, UsersTurn
<1>3. Taken(r)
  BY <1>2 DEF Taken, Init, IdleRequest
<1>4. Finished(r) /\ Once(r)
  BY DEF Finished, Once, Init, IdleWorker, NoSends
<1> QED
  BY <1>2, <1>3, <1>4 DEF Placed

\* What the requests and the workers are at, in every state.
LEMMA KnownHolds == Spec => []Known
<1>1. TypeOK /\ Known /\ [Next]_vars => Known'
  <2> SUFFICES ASSUME TypeOK, Known, [Next]_vars PROVE Known'
    OBVIOUS
  <2>1. ASSUME UNCHANGED <<request, worker>> PROVE Known'
    BY <2>1 DEF Known, RequestAt, WorkerAt
  <2>2. ASSUME NEW switch \in Switches, SwitchOn(switch) PROVE Known'
    BY <2>1, <2>2 DEF SwitchOn
  <2> QED
    BY <2>1, <2>2, WorkerKnows, RequestKnows DEF Next, vars
<1> QED
  BY TypeCorrect, InitKnown, <1>1, PTL DEF Spec

\* A run is in one pair of hands at a time, and in nobody's once it was sent.
LEMMA PlacedHolds ==
    ASSUME \A g, h \in Requests : g = h
    PROVE  Spec => []AllPlaced
<1>1. TypeOK /\ Rows /\ Known /\ AllPlaced /\ [Next]_vars => AllPlaced'
  <2> SUFFICES ASSUME TypeOK, Rows, Known, AllPlaced, [Next]_vars PROVE AllPlaced'
    OBVIOUS
  <2>1. OneRequest
    BY DEF OneRequest
  <2>2. ASSUME UNCHANGED <<run, queue, request, worker, ledger>> PROVE AllPlaced'
    <3>1. \A q \in Runs : Untouched(q)
      BY <2>2 DEF Untouched
    <3> QED
      BY <3>1, UntouchedStays DEF AllPlaced
  <2>3. ASSUME NEW switch \in Switches, SwitchOn(switch) PROVE AllPlaced'
    BY <2>2, <2>3 DEF SwitchOn
  <2>4. ASSUME NEW h \in Requests, RequestStarts(h) \/ RequestContinues(h) \/ RequestCrash(h)
        PROVE  AllPlaced'
    BY <2>1, <2>4, LoadPlaces, SwitchPlaces, WritePlaces, EndPlaces
    DEF RequestStarts, RequestContinues
  <2> QED
    BY <2>2, <2>3, <2>4, WorkerPlaces DEF Next, vars
<1> QED
  BY TypeCorrect, RowsHold, KnownHolds, InitPlaced, <1>1, PTL DEF Spec

\* With one request at a time, a run reaches the employer at most once, through
\* cancellations, caps that send it back to review, lost tasks, lost processes
\* and database failures, for any number of runs and workers.
THEOREM SentOnce ==
    ASSUME \A g, h \in Requests : g = h
    PROVE  Spec => []SentAtMostOnce
<1>1. TypeOK /\ AllPlaced => SentAtMostOnce
  BY DEF TypeOK, History, AllPlaced, Placed, Once, SentAtMostOnce
<1> QED
  BY TypeCorrect, PlacedHolds, <1>1, PTL

----------------------------------------------------------------------------
(* What was approved is what is sent *)

Version(r) == run[r].plan.version \in ledger[r].approvedPlans

\* From the moment the user approves a plan until it is sent, the plan of the
\* run is that one.
Versions(r) ==
    /\ \A h \in Requests : request[h].run = r /\ request[h].op = "approve" =>
           /\ request[h].pc = "write" => request[h].plan = run[r].plan
           /\ request[h].pc \in {"record", "dispatch"} => Version(r)
    /\ queue["submit"][r] > 0 => Version(r)
    /\ \A w \in Workers : worker[w].run = r =>
           /\ worker[w].pc = "fill" => Version(r)
           /\ worker[w].pc = "click" => worker[w].version \in ledger[r].approvedPlans
    /\ ledger[r].sentPlans \subseteq ledger[r].approvedPlans

AllVersions == \A r \in Runs : Versions(r)

LEMMA UntouchedVersions ==
    ASSUME NEW q \in Runs, Versions(q), Untouched(q)
    PROVE  Versions(q)'
BY DEF Versions, Version, Untouched

\* A worker that leaves the plan as it is.
LEMMA WorkerKeepsPlan ==
    ASSUME TypeOK, NEW r \in Runs, Versions(r), NEW w \in Workers,
           \A v \in Workers \ {w} : worker'[v] = worker[v],
           UNCHANGED request, queue'["submit"][r] > 0 => queue["submit"][r] > 0,
           run'[r].plan = run[r].plan, ledger'[r].approvedPlans = ledger[r].approvedPlans,
           ledger'[r].sentPlans \subseteq ledger[r].approvedPlans,
           worker'[w].run = r /\ worker'[w].pc = "fill" => Version(r),
           worker'[w].run = r /\ worker'[w].pc = "click" =>
               worker'[w].version \in ledger[r].approvedPlans
    PROVE  Versions(r)'
BY DEF Versions, Version

LEMMA WorkerVersions ==
    ASSUME TypeOK, AllPlaced, AllVersions, NEW w \in Workers,
           TakesTask(w) \/ WorkerContinues(w) \/ RecordFails(w) \/ WorkerCrash(w)
    PROVE  AllVersions'
<1>1. ASSUME NEW r \in Runs, TakePrepare(w, r) \/ TakeSubmit(w, r) PROVE AllVersions'
  <2>1. /\ \A v \in Workers \ {w} : worker'[v] = worker[v]
        /\ worker'[w].pc = "fill" => queue["submit"][r] > 0 /\ worker'[w].run = r
        /\ worker'[w].pc # "click"
        /\ UNCHANGED <<run, request, ledger>>
    BY <1>1 DEF TakePrepare, TakeSubmit, Take, TypeOK
  <2>2. \A q \in Runs : queue'["submit"][q] > 0 => queue["submit"][q] > 0
    BY <1>1 DEF TakePrepare, TakeSubmit, TypeOK
  <2>3. ASSUME NEW q \in Runs PROVE Versions(q)'
    BY <2>1, <2>2, <2>3, WorkerKeepsPlan DEF AllVersions, Versions
  <2> QED
    BY <2>3 DEF AllVersions
<1>2. ASSUME NEW r \in Runs, worker[w].run = r,
             WorkerContinues(w) \/ RecordFails(w) \/ WorkerCrash(w)
      PROVE  AllVersions'
  <2>1. WritesOwn(w)
    BY <1>2, WorkerWritesOwn
  <2>2. /\ Placed(r) /\ Versions(r) /\ UNCHANGED <<queue, request>>
        /\ \A v \in Workers \ {w} : worker'[v] = worker[v]
    BY <2>1 DEF WritesOwn, AllPlaced, AllVersions
  <2>3. ASSUME NEW q \in Runs, q # r PROVE Versions(q)'
    <3>1. Untouched(q)
      BY <1>2, <2>1, <2>3, ApplyConstants DEF Untouched, WritesOwn
    <3> QED
      BY <3>1, UntouchedVersions DEF AllVersions
  <2> SUFFICES Versions(r)'
    BY <2>3 DEF AllVersions
  <2>4. CASE FormRead(w)
    <3>1. worker[w].pc = "form" /\ worker'[w].pc \notin {"fill", "click"} /\ UNCHANGED ledger
      BY <2>4 DEF FormRead, Working, TypeOK
    <3>2. Engaged(w) /\ \A v \in Workers : worker[v].pc \in {"fill", "click"} => Engaged(v)
      BY <3>1 DEF Engaged
    <3>3. /\ Waiting(r) = 0
          /\ \A v \in Workers \ {w} : worker[v].run = r => ~Engaged(v)
          /\ \A h \in Requests : request[h].run = r => request[h].op # "approve"
      BY <1>2, <2>2, <3>2, EngagedAlone DEF Taking
    <3>4. ~(queue["submit"][r] > 0)
      BY <3>3 DEF Waiting, TypeOK
    <3> QED
      BY <2>2, <3>1, <3>2, <3>3, <3>4 DEF Versions
  <2>5. CASE FormFilled(w)
    <3>1. /\ UNCHANGED <<run, ledger>> /\ worker[w].pc = "fill" /\ worker'[w].pc = "click"
          /\ worker'[w].version = run[r].plan.version
      BY <1>2, <2>5 DEF FormFilled, TypeOK, OpenTask, Task
    <3> QED
      BY <1>2, <2>2, <3>1, WorkerKeepsPlan DEF Versions, Version
  <2>6. CASE Send(w)
    <3>1. UNCHANGED run /\ worker[w].pc = "click" /\ worker'[w].pc = "confirm"
      BY <2>6 DEF Send, Working, TypeOK, OpenTask, Task
    <3>2. /\ ledger'[r].approvedPlans = ledger[r].approvedPlans
          /\ ledger'[r].sentPlans = ledger[r].sentPlans \cup {worker[w].version}
      BY <1>2, <2>6 DEF Send, TypeOK, History
    <3> QED
      BY <1>2, <2>2, <3>1, <3>2, WorkerKeepsPlan DEF Versions
  <2>7. CASE /\ ~FormRead(w) /\ ~FormFilled(w) /\ ~Send(w)
    <3>1. run'[r].plan = run[r].plan
      <4>1. \A state, nokey : Transition(r, state, nokey) => run'[r].plan = run[r].plan
        BY DEF TypeOK, Transition, Moved, Row
      <4>2. CASE Begin(w) \/ FormStops(w) \/ FormHandedOver(w) \/ FormAnswered(w)
                 \/ SubmitStops(w) \/ RecordFails(w)
        BY <1>2, <4>1, <4>2 DEF Begin, FormStops, FormHandedOver, FormAnswered, SubmitStops,
           RecordFails
      <4>3. CASE Confirm(w)
        BY <1>2, <4>3, ConfirmIs
      <4> QED
        BY <1>2, <2>7, <4>2, <4>3 DEF WorkerContinues, WorkerRecord, WorkerApplied, WorkerCrash
    <3>2. /\ ledger'[r].approvedPlans = ledger[r].approvedPlans
          /\ ledger'[r].sentPlans = ledger[r].sentPlans
      <4>1. CASE Confirm(w)
        <5>1. UNCHANGED ledger \/ ledger' = [ledger EXCEPT ![r].confirmed = TRUE]
          BY <1>2, <4>1, ConfirmIs
        <5> QED
          BY <5>1 DEF TypeOK, History
      <4> QED
        BY <1>2, <2>7, <4>1 DEF WorkerContinues, Begin, FormStops, FormHandedOver, FormAnswered,
           SubmitStops, WorkerRecord, WorkerApplied, RecordFails, WorkerCrash
    <3>3. worker'[w].pc \notin {"fill", "click"}
      <4>1. \E pc \in {"last", "record", "form", "apply", "idle"} : Advances(w, pc)
        BY <1>2, <2>7, Advancing DEF WorkerContinues, Begin, FormStops, FormHandedOver,
           FormAnswered, SubmitStops, Confirm, WorkerRecord, WorkerApplied, RecordFails,
           WorkerCrash
      <4> QED
        BY <4>1 DEF Advances, IdleWorker
    <3> QED
      BY <2>2, <3>1, <3>2, <3>3, WorkerKeepsPlan DEF Versions
  <2> QED
    BY <2>4, <2>5, <2>6, <2>7
<1>3. WorkerContinues(w) \/ RecordFails(w) \/ WorkerCrash(w) => worker[w].run \in Runs
  BY WorkerWritesOwn DEF WritesOwn
<1> QED
  BY <1>1, <1>2, <1>3 DEF TakesTask

\* A request that leaves the plan as it is, or has the run in hand.
LEMMA RequestKeepsPlan ==
    ASSUME TypeOK, OneRequest, NEW r \in Runs, Placed(r), Versions(r), NEW h \in Requests,
           UNCHANGED worker, queue'["submit"][r] > 0 => queue["submit"][r] > 0 \/ Version(r),
           ledger[r].approvedPlans \subseteq ledger'[r].approvedPlans,
           ledger'[r].sentPlans = ledger[r].sentPlans,
           \/ /\ run'[r].plan = run[r].plan
              /\ request'[h].run = r /\ request'[h].op = "approve" =>
                     /\ request'[h].pc = "write" => request'[h].plan = run[r].plan
                     /\ request'[h].pc \in {"record", "dispatch"} => Version(r)'
           \/ Free(r) /\ request'[h].op # "approve" /\ UNCHANGED queue
    PROVE  Versions(r)'
<1>1. \A g \in Requests : g = h
  BY DEF OneRequest
<1>2. CASE /\ run'[r].plan = run[r].plan
           /\ request'[h].run = r /\ request'[h].op = "approve" =>
                  /\ request'[h].pc = "write" => request'[h].plan = run[r].plan
                  /\ request'[h].pc \in {"record", "dispatch"} => Version(r)'
  <2>1. Version(r) => Version(r)'
    BY <1>2 DEF Version
  <2> QED
    BY <1>1, <1>2, <2>1 DEF Versions
<1>3. CASE Free(r) /\ request'[h].op # "approve" /\ UNCHANGED queue
  <2>1. ~(queue["submit"][r] > 0)
    BY <1>3 DEF Free, Waiting, TypeOK
  <2>2. \A w \in Workers : worker[w].run = r => worker[w].pc \notin {"fill", "click"}
    BY <1>3 DEF Free, Engaged
  <2> QED
    BY <1>1, <1>3, <2>1, <2>2 DEF Versions
<1> QED
  BY <1>2, <1>3

LEMMA LoadVersions ==
    ASSUME TypeOK, OneRequest, AllPlaced, AllVersions, NEW h \in Requests, NEW r \in Runs,
           \/ CreateCheck(h, r) \/ CreateInBrowserCheck(h, r) \/ AnswerLoad(h, r)
           \/ ApproveLoad(h, r) \/ CancelLoad(h, r) \/ DoneLoad(h, r) \/ ClosedLoad(h, r)
           \/ BrowserLoad(h, r)
    PROVE  AllVersions'
<1>1. ASSUME NEW op, NEW status, NEW todo, NEW pc \in {"insert", "cancelling", "write"},
             Load(h, op, r, pc, status, todo), UNCHANGED <<run, queue, worker, ledger>>
      PROVE  AllVersions'
  <2>1. /\ request'[h].pc = pc /\ request'[h].run = r /\ request'[h].plan = run[r].plan
    BY <1>1 DEF TypeOK, Load
  <2>2. ASSUME NEW q \in Runs PROVE Versions(q)'
    BY <1>1, <2>1, <2>2, RequestKeepsPlan DEF AllPlaced, AllVersions
  <2> QED
    BY <2>2 DEF AllVersions
<1>2. CASE CreateCheck(h, r)
  BY <1>1, <1>2 DEF CreateCheck
<1>3. CASE CreateInBrowserCheck(h, r)
  <2>1. /\ UNCHANGED <<run, queue, worker, ledger>>
        /\ \E stale : Load(h, "create", r, "cancelling", "in_browser", stale)
    BY <1>3 DEF CreateInBrowserCheck
  <2> QED
    BY <1>1, <2>1
<1>4. CASE AnswerLoad(h, r) \/ ApproveLoad(h, r) \/ CancelLoad(h, r)
  BY <1>1, <1>4 DEF AnswerLoad, ApproveLoad, CancelLoad
<1>5. CASE DoneLoad(h, r) \/ ClosedLoad(h, r) \/ BrowserLoad(h, r)
  BY <1>1, <1>5 DEF DoneLoad, ClosedLoad, BrowserLoad
<1> QED
  BY <1>2, <1>3, <1>4, <1>5

LEMMA SwitchVersions ==
    ASSUME TypeOK, OneRequest, AllPlaced, AllVersions, NEW h \in Requests,
           \/ CancelNext(h) \/ CancelledAll(h) \/ RequestCrash(h)
           \/ \E switch \in Switches : SwitchOff(h, switch)
    PROVE  AllVersions'
<1>1. UNCHANGED <<queue, worker, ledger>> /\ request'[h].op # "approve"
  <2>1. CASE CancelNext(h)
    <3>1. request[h].pc = "cancelling" /\ request[h].op # "approve"
      BY <2>1 DEF CancelNext, TypeOK, OpenRequest, Switches
    <3>2. request'[h].op = request[h].op
      <4>1. PICK q \in request[h].todo :
                request' = [request EXCEPT ![h].todo = @ \ {q}, ![h].nokey = {},
                   ![h].pc = IF request[h].op = "create" THEN @ ELSE "record",
                   ![h].run = IF request[h].op = "create" THEN @ ELSE q,
                   ![h].status = IF request[h].op = "create" THEN @ ELSE "cancelled"]
        BY <2>1 DEF CancelNext
      <4>2. request \in [Requests -> Request]
        BY DEF TypeOK, OpenRequest
      <4> QED
        BY <4>1, <4>2 DEF Request
    <3> QED
      BY <2>1, <3>1, <3>2 DEF CancelNext
  <2>2. CASE CancelledAll(h)
    <3>1. request[h].pc = "cancelling" /\ request[h].op # "approve"
      BY <2>2 DEF CancelledAll, TypeOK, OpenRequest, Switches
    <3>2. request'[h].op \in {request[h].op, "none"}
      BY <2>2 DEF CancelledAll, Goto, Finish, IdleRequest, TypeOK, OpenRequest, Request
    <3> QED
      BY <2>2, <3>1, <3>2 DEF CancelledAll
  <2>3. CASE RequestCrash(h)
    BY <2>3 DEF RequestCrash, Finish, IdleRequest, TypeOK
  <2>4. CASE \E switch \in Switches : SwitchOff(h, switch)
    BY <2>4 DEF SwitchOff, IdleRequest, TypeOK, Switches
  <2> QED
    BY <2>1, <2>2, <2>3, <2>4
<1>2. \A q \in Runs : run'[q].plan = run[q].plan
  <2>1. CASE CancelNext(h)
    <3>1. PICK q \in request[h].todo : Transition(q, "cancelled", request[h].nokey)
      BY <2>1 DEF CancelNext
    <3>2. q \in Runs
      BY <3>1 DEF TypeOK, OpenRequest, Request
    <3> QED
      BY <3>1, <3>2, TransitionIs
  <2> QED
    BY <2>1 DEF CancelledAll, RequestCrash, SwitchOff
<1>3. ASSUME NEW q \in Runs PROVE Versions(q)'
  BY <1>1, <1>2, <1>3, RequestKeepsPlan DEF AllPlaced, AllVersions
<1> QED
  BY <1>3 DEF AllVersions

LEMMA WriteVersions ==
    ASSUME TypeOK, OneRequest, Rows, AllPlaced, AllVersions, NEW h \in Requests,
           \/ CreateInsert(h) \/ CreateConfirm(h) \/ AnswerWrite(h) \/ AnswerAfter(h)
           \/ ApproveWrite(h) \/ CancelWrite(h) \/ DoneWrite(h) \/ ClosedWrite(h)
           \/ BrowserWrite(h) \/ RequestRecord(h) \/ RequestApplied(h) \/ Dispatch(h)
    PROVE  AllVersions'
<1>1. request[h].pc \notin {"idle", "cancelling"} /\ UNCHANGED worker
  BY DEF CreateInsert, CreateConfirm, AnswerWrite, AnswerAfter, ApproveWrite, CancelWrite,
     DoneWrite, ClosedWrite, BrowserWrite, RequestRecord, RequestApplied, Dispatch
<1>2. PICK r \in Runs : request[h].run = r
  BY <1>1, RequestRun
<1>3. /\ Placed(r) /\ Versions(r)
      /\ request[h].op \in Taking => Free(r)
  BY <1>2 DEF AllPlaced, AllVersions, Placed, Taken
<1>4. request \in [Requests -> Request]
  BY DEF TypeOK, OpenRequest
\* Other runs are not touched.
<1>5. ASSUME OneRow(h, r), Versions(r)' PROVE AllVersions'
  <2>1. ASSUME NEW q \in Runs, q # r PROVE Versions(q)'
    <3>1. \A g \in Requests : request'[g].run # q
      BY <1>5, <2>1, ApplyConstants DEF OneRow, OneRequest
    <3>2. Untouched(q)
      BY <1>5, <2>1, <3>1 DEF Untouched, OneRow
    <3> QED
      BY <3>2, UntouchedVersions DEF AllVersions
  <2> QED
    BY <1>5, <2>1 DEF AllVersions
\* A commit of a request that has the run in hand.
<1>6. ASSUME NEW pc, Proceeds(h, pc), UNCHANGED <<queue, ledger>>,
             \A q \in Runs \ {r} : run'[q] = run[q],
             \/ request[h].op \in Taking \ {"approve"}
             \/ run'[r].plan = run[r].plan /\ request[h].op # "approve"
      PROVE  AllVersions'
  <2>1. OneRow(h, r)
    BY <1>1, <1>2, <1>6, ProceedsOneRow
  <2>2. request'[h].op # "approve"
    BY <1>6 DEF Proceeds, SameErrand, IdleRequest
  <2>3. Versions(r)'
    BY <1>1, <1>3, <1>6, <2>2, RequestKeepsPlan
  <2> QED
    BY <1>5, <2>1, <2>3
<1>7. CASE CreateInsert(h) \/ CreateConfirm(h)
  <2>1. /\ request[h].op = "create" /\ UNCHANGED <<queue, ledger>>
        /\ Proceeds(h, "created") \/ Proceeds(h, "record")
    BY <1>7, Proceeding DEF CreateInsert, CreateConfirm, Rows, RowsKnown
  <2>2. \A q \in Runs \ {r} : run'[q] = run[q]
    BY <1>2, <1>7 DEF CreateInsert, CreateConfirm, Transition, TypeOK
  <2> QED
    BY <1>6, <2>1, <2>2 DEF Taking
<1>8. CASE AnswerWrite(h) \/ AnswerAfter(h)
  <2>1. /\ request[h].op = "answer" /\ UNCHANGED <<queue, ledger>>
        /\ Proceeds(h, "after") \/ Proceeds(h, "record") \/ Proceeds(h, "dispatch")
    BY <1>8, Proceeding DEF AnswerWrite, AnswerAfter
  <2>2. \A q \in Runs \ {r} : run'[q] = run[q]
    BY <1>2, <1>8 DEF AnswerWrite, AnswerAfter, Transition, TypeOK
  <2> QED
    BY <1>6, <2>1, <2>2 DEF Taking
<1>9. CASE CancelWrite(h) \/ ClosedWrite(h)
  <2>1. /\ request[h].op \in {"cancel", "closed"} /\ UNCHANGED <<queue, ledger>>
        /\ Proceeds(h, "record") \/ Proceeds(h, "idle")
    BY <1>9, Proceeding DEF CancelWrite, ClosedWrite
  <2>2. run'[r].plan = run[r].plan /\ \A q \in Runs \ {r} : run'[q] = run[q]
    <3>1. \E state, nokey : Transition(r, state, nokey)
      BY <1>2, <1>9 DEF CancelWrite, ClosedWrite
    <3> QED
      BY <3>1, TransitionIs
  <2> QED
    BY <1>6, <2>1, <2>2
<1>10. CASE DoneWrite(h) \/ BrowserWrite(h)
  <2>1. /\ request[h].op \in {"done", "browser"} /\ UNCHANGED <<queue, ledger>>
        /\ Proceeds(h, "record") \/ Proceeds(h, "idle")
    BY <1>10, Proceeding DEF DoneWrite, BrowserWrite
  <2>2. \A q \in Runs \ {r} : run'[q] = run[q]
    BY <1>2, <1>10, DoneIs, BrowserIs
  <2> QED
    BY <1>6, <2>1, <2>2 DEF Taking
<1>11. CASE ApproveWrite(h)
  <2>1. /\ request[h].op = "approve" /\ request[h].pc = "write" /\ Proceeds(h, "record")
        /\ Transition(r, "submitting", {}) /\ UNCHANGED <<queue, worker>>
    BY <1>2, <1>11, Proceeding DEF ApproveWrite
  <2>2. /\ run'[r].plan = run[r].plan /\ \A q \in Runs \ {r} : run'[q] = run[q]
    BY <2>1, TransitionIs
  <2>3. /\ ledger'[r].approvedPlans = ledger[r].approvedPlans \cup {request[h].plan.version}
        /\ ledger'[r].sentPlans = ledger[r].sentPlans
        /\ \A q \in Runs \ {r} : ledger'[q] = ledger[q]
    BY <1>2, <1>11 DEF ApproveWrite, TypeOK, History
  <2>4. Version(r)'
    BY <1>2, <1>3, <2>1, <2>2, <2>3 DEF Versions, Version
  <2>5. request'[h].run = r /\ request'[h].op = "approve" => request'[h].pc = "record"
    BY <2>1 DEF Proceeds, IdleRequest
  <2>6. Versions(r)'
    BY <1>1, <1>3, <2>1, <2>2, <2>3, <2>4, <2>5, RequestKeepsPlan
  <2>7. OneRow(h, r)
    BY <1>1, <1>2, <2>1, <2>2, <2>3, ProceedsOneRow
  <2> QED
    BY <1>5, <2>6, <2>7
<1>12. CASE RequestRecord(h) \/ RequestApplied(h)
  <2>1. UNCHANGED <<run, queue, worker, ledger>>
    BY <1>12 DEF RequestRecord, RequestApplied
  <2>2. \E pc : /\ Proceeds(h, pc)
                /\ pc \in {"dispatch", "record"} => request[h].pc = "record"
                /\ pc # "write"
    <3>1. CASE RequestRecord(h)
      <4>1. Proceeds(h, "dispatch") \/ Proceeds(h, "apply") \/ Proceeds(h, "cancelling")
        BY <3>1, Proceeding DEF RequestRecord
      <4> QED
        BY <3>1, <4>1 DEF RequestRecord
    <3>2. CASE RequestApplied(h)
      <4>1. Proceeds(h, "idle")
        BY <3>2, Proceeding DEF RequestApplied
      <4> QED
        BY <4>1
    <3> QED
      BY <1>12, <3>1, <3>2
  <2>3. OneRow(h, r)
    BY <1>2, <2>1, <2>2, ProceedsOneRow
  <2>4. request'[h].run = r /\ request'[h].op = "approve" =>
            /\ request'[h].pc # "write"
            /\ request'[h].pc \in {"record", "dispatch"} => Version(r)
    BY <1>2, <1>3, <2>2 DEF Versions, Proceeds, SameErrand, IdleRequest
  <2>5. Version(r)' <=> Version(r)
    BY <2>1 DEF Version
  <2>6. Versions(r)'
    BY <1>3, <2>1, <2>4, <2>5, RequestKeepsPlan
  <2> QED
    BY <1>5, <2>3, <2>6
<1>13. CASE Dispatch(h)
  <2>1. /\ UNCHANGED <<run, worker, ledger>> /\ request[h].pc = "dispatch"
        /\ request'[h] = IdleRequest /\ \A g \in Requests \ {h} : request'[g] = request[g]
    BY <1>13 DEF Dispatch, Finish, TypeOK
  <2>2. /\ queue'["submit"][r] = queue["submit"][r] \/ request[h].op = "approve"
        /\ \A q \in Runs \ {r} : queue'["prepare"][q] = queue["prepare"][q]
                                 /\ queue'["submit"][q] = queue["submit"][q]
    BY <1>2, <1>13 DEF Dispatch, TypeOK
  <2>3. queue'["submit"][r] > 0 => queue["submit"][r] > 0 \/ Version(r)
    BY <1>2, <1>3, <2>1, <2>2 DEF Versions
  <2>4. request'[h].op # "approve"
    BY <2>1 DEF IdleRequest
  <2>5. Versions(r)'
    BY <1>3, <2>1, <2>3, <2>4, RequestKeepsPlan
  <2>6. OneRow(h, r)
    BY <1>2, <2>1, <2>2 DEF OneRow, IdleRequest
  <2> QED
    BY <1>5, <2>5, <2>6
<1> QED
  BY <1>7, <1>8, <1>9, <1>10, <1>11, <1>12, <1>13

LEMMA InitVersions == Init => AllVersions
BY DEF Init, AllVersions, Versions, NoSends, IdleRequest, IdleWorker

LEMMA VersionsHold ==
    ASSUME \A g, h \in Requests : g = h
    PROVE  Spec => []AllVersions
<1>1. TypeOK /\ Rows /\ AllPlaced /\ AllVersions /\ [Next]_vars => AllVersions'
  <2> SUFFICES ASSUME TypeOK, Rows, AllPlaced, AllVersions, [Next]_vars PROVE AllVersions'
    OBVIOUS
  <2>1. OneRequest
    BY DEF OneRequest
  <2>2. ASSUME UNCHANGED <<run, queue, request, worker, ledger>> PROVE AllVersions'
    <3>1. \A q \in Runs : Untouched(q)
      BY <2>2 DEF Untouched
    <3> QED
      BY <3>1, UntouchedVersions DEF AllVersions
  <2>3. ASSUME NEW switch \in Switches, SwitchOn(switch) PROVE AllVersions'
    BY <2>2, <2>3 DEF SwitchOn
  <2>4. ASSUME NEW h \in Requests, RequestStarts(h) \/ RequestContinues(h) \/ RequestCrash(h)
        PROVE  AllVersions'
    BY <2>1, <2>4, LoadVersions, SwitchVersions, WriteVersions
    DEF RequestStarts, RequestContinues
  <2> QED
    BY <2>2, <2>3, <2>4, WorkerVersions DEF Next, vars
<1> QED
  BY TypeCorrect, RowsHold, PlacedHolds, InitVersions, <1>1, PTL DEF Spec

\* With one request at a time, no two workers carry out tasks of one run, and
\* what the employer receives is a version of the plan the user approved: no
\* answer given and no form read after the approval gets in.
THEOREM SentWasWorkedOnOnce ==
    ASSUME \A g, h \in Requests : g = h
    PROVE  Spec => []WorkedAsApproved
<1>1. TypeOK /\ AllPlaced => OneWorkerPerRun
  <2> SUFFICES ASSUME TypeOK, AllPlaced, NEW v \in Workers, NEW w \in Workers,
                      v # w, worker[v].run = worker[w].run,
                      worker[v].pc \notin {"idle", "record", "last", "apply"},
                      worker[w].pc \notin {"idle", "record", "last", "apply"}
               PROVE  FALSE
    BY DEF OneWorkerPerRun
  <2>1. Engaged(v) /\ Engaged(w) /\ worker[w].run \in Runs
    BY DEF Engaged, TypeOK, OpenTask, Task, WorkerPcs
  <2> QED
    BY <2>1 DEF AllPlaced, Placed, OneTask
<1>2. AllVersions => SentAsApproved
  BY DEF AllVersions, Versions, SentAsApproved
<1>3. TypeOK /\ AllPlaced /\ AllVersions => WorkedAsApproved
  BY <1>1, <1>2 DEF WorkedAsApproved
<1> QED
  BY TypeCorrect, PlacedHolds, VersionsHold, <1>3, PTL

----------------------------------------------------------------------------
(* The key of a job follows the state of its run *)

KeyRow(r) ==
    /\ run[r].key => run[r].state \in ActiveStates
    /\ run[r].state \in ActiveStates /\ ~run[r].ended => run[r].key
    /\ run[r].state \in ActiveStates \/ run[r].ended \/ run[r].state = "none"

\* What was loaded without a key has none when it is written.
KeyRequest(h, r) ==
    /\ request[h].pc = "write" /\ request[h].run = r /\ r \in request[h].nokey => ~run[r].key
    /\ request[h].pc = "cancelling" /\ r \in request[h].todo /\ r \in request[h].nokey
           => ~run[r].key

KeyWorker(w, r) ==
    worker[w].pc \in {"begin", "stop"} /\ worker[w].run = r /\ r \in worker[w].nokey => ~run[r].key

Keys(r) ==
    KeyRow(r) /\ (\A h \in Requests : KeyRequest(h, r)) /\ (\A w \in Workers : KeyWorker(w, r))

\* A switch forgets what it loaded with its first commit.
SwitchesForget ==
    \A h \in Requests :
        request[h].op \in Switches /\ request[h].pc # "cancelling" => request[h].nokey = {}

AllKeys == (\A r \in Runs : Keys(r)) /\ SwitchesForget

LEMMA TransitionKeys ==
    ASSUME TypeOK, NEW r \in Runs, KeyRow(r), NEW state, NEW nokey, Transition(r, state, nokey),
           run[r].state # "none", r \in nokey /\ state \notin ActiveStates => ~run[r].key
    PROVE  /\ KeyRow(r)' /\ (run'[r].key => run[r].key)
           /\ \A q \in Runs \ {r} : run'[q] = run[q]
<1>1. /\ run'[r].state = state
      /\ state \in ActiveStates \/ r \in nokey => run'[r].key = run[r].key
      /\ state \notin ActiveStates /\ r \notin nokey => ~run'[r].key
      /\ run'[r].ended <=> run[r].ended \/ state \notin ActiveStates
      /\ \A q \in Runs \ {r} : run'[q] = run[q]
  BY TransitionIs
<1>2. run'[r].key => run[r].key /\ state \in ActiveStates
  BY <1>1
<1>3. state \in ActiveStates /\ ~run'[r].ended => run'[r].key
  BY <1>1 DEF KeyRow
<1> QED
  BY <1>1, <1>2, <1>3 DEF KeyRow

\* A step of a worker: keys only go.
LEMMA WorkerKeepsKeys ==
    ASSUME TypeOK, AllKeys, NEW w \in Workers, UNCHANGED request,
           \A v \in Workers \ {w} : worker'[v] = worker[v],
           \A q \in Runs : KeyRow(q)' /\ (run'[q].key => run[q].key),
           \A q \in Runs : KeyWorker(w, q)'
    PROVE  AllKeys'
<1>1. ASSUME NEW q \in Runs PROVE Keys(q)'
  <2>1. \A h \in Requests : KeyRequest(h, q)'
    BY <1>1 DEF AllKeys, Keys, KeyRequest
  <2>2. \A v \in Workers \ {w} : KeyWorker(v, q)'
    BY <1>1 DEF AllKeys, Keys, KeyWorker
  <2> QED
    BY <1>1, <2>1, <2>2 DEF Keys
<1> QED
  BY <1>1 DEF AllKeys, SwitchesForget

LEMMA WorkerKeys ==
    ASSUME TypeOK, Rows, AllKeys, NEW w \in Workers,
           TakesTask(w) \/ WorkerContinues(w) \/ RecordFails(w) \/ WorkerCrash(w)
    PROVE  AllKeys'
<1>1. ASSUME NEW r \in Runs, TakePrepare(w, r) \/ TakeSubmit(w, r) PROVE AllKeys'
  <2>1. /\ UNCHANGED <<run, request>> /\ worker[w].pc = "idle"
        /\ \A v \in Workers \ {w} : worker'[v] = worker[v]
        /\ worker'[w] = worker[w] \/ worker'[w].nokey = NoKey({r})
    BY <1>1 DEF TakePrepare, TakeSubmit, Take, TypeOK
  <2>2. \A q \in Runs : KeyRow(q)'
    BY <2>1 DEF KeyRow, AllKeys, Keys
  <2>3. \A q \in Runs : KeyWorker(w, q)'
    BY <2>1 DEF KeyWorker, NoKey
  <2> QED
    BY <2>1, <2>2, <2>3, WorkerKeepsKeys
<1>2. ASSUME NEW r \in Runs, worker[w].run = r,
             WorkerContinues(w) \/ RecordFails(w) \/ WorkerCrash(w)
      PROVE  AllKeys'
  <2>1. /\ UNCHANGED request
        /\ \A v \in Workers \ {w} : worker'[v] = worker[v]
        /\ \A q \in Runs \ {r} : run'[q] = run[q]
    BY <1>2, WorkerWritesOwn DEF WritesOwn
  <2>2. worker[w].pc # "idle" /\ run[r].state # "none" /\ KeyRow(r)
    BY <1>2 DEF WorkerContinues, Begin, FormStops, FormRead, FormHandedOver, FormAnswered,
       FormFilled, SubmitStops, Send, Confirm, WorkerRecord, WorkerApplied, RecordFails,
       WorkerCrash, Rows, RowsKnown, AllKeys, Keys
  <2>3. worker'[w].pc \notin {"begin", "stop"}
    <3>1. CASE FormFilled(w)
      BY <3>1 DEF FormFilled, TypeOK, OpenTask, Task
    <3>2. CASE ~FormFilled(w)
      <4>1. \E pc \in {"last", "record", "form", "decide", "confirm", "apply", "idle"} :
                Advances(w, pc)
        BY <1>2, <3>2, Advancing DEF WorkerContinues, Begin, FormStops, FormRead,
           FormHandedOver, FormAnswered, SubmitStops, Send, Confirm, WorkerRecord,
           WorkerApplied, RecordFails, WorkerCrash
      <4> QED
        BY <4>1 DEF Advances, IdleWorker
    <3> QED
      BY <3>1, <3>2
  <2>4. KeyRow(r)' /\ (run'[r].key => run[r].key)
    <3>1. CASE \E state, nokey : /\ Transition(r, state, nokey)
                                 /\ r \in nokey => ~run[r].key
      BY <2>2, <3>1, TransitionKeys
    <3>2. CASE Begin(w)
      <4>1. KeyWorker(w, r)
        BY DEF AllKeys, Keys
      <4>2. Transition(r, worker[w].status, worker[w].nokey) /\ worker[w].pc \in {"begin", "stop"}
        BY <1>2, <3>2 DEF Begin
      <4> QED
        BY <1>2, <3>1, <4>1, <4>2 DEF KeyWorker
    <3>3. CASE FormStops(w) \/ FormHandedOver(w) \/ FormAnswered(w) \/ SubmitStops(w)
               \/ RecordFails(w)
      <4>1. \E state : Transition(r, state, {})
        BY <1>2, <3>3 DEF FormStops, FormHandedOver, FormAnswered, SubmitStops, RecordFails
      <4> QED
        BY <3>1, <4>1
    <3>4. CASE FormRead(w)
      <4>1. /\ run'[r].state = run[r].state /\ run'[r].key = run[r].key
            /\ run'[r].ended = run[r].ended
        BY <1>2, <3>4 DEF FormRead, TypeOK, Row
      <4> QED
        BY <2>2, <4>1 DEF KeyRow
    <3>5. CASE Confirm(w)
      <4>1. run'[r].state \notin ActiveStates /\ ~run'[r].key /\ run'[r].ended
        BY <1>2, <3>5, ConfirmIs, KindsOfState
      <4> QED
        BY <4>1 DEF KeyRow
    <3>6. CASE FormFilled(w) \/ Send(w) \/ WorkerRecord(w) \/ WorkerApplied(w) \/ WorkerCrash(w)
      <4>1. UNCHANGED run
        BY <3>6 DEF FormFilled, Send, WorkerRecord, WorkerApplied, WorkerCrash
      <4> QED
        BY <2>2, <4>1 DEF KeyRow
    <3> QED
      BY <1>2, <3>2, <3>3, <3>4, <3>5, <3>6 DEF WorkerContinues
  <2>5. \A q \in Runs : KeyRow(q)' /\ (run'[q].key => run[q].key)
    BY <2>1, <2>4 DEF KeyRow, AllKeys, Keys
  <2>6. \A q \in Runs : KeyWorker(w, q)'
    BY <2>3 DEF KeyWorker
  <2> QED
    BY <2>1, <2>5, <2>6, WorkerKeepsKeys
<1>3. WorkerContinues(w) \/ RecordFails(w) \/ WorkerCrash(w) => worker[w].run \in Runs
  BY WorkerWritesOwn DEF WritesOwn
<1> QED
  BY <1>1, <1>2, <1>3 DEF TakesTask

\* A step of the only request: it takes a key for a run only while no worker
\* is engaged with it.
LEMMA RequestKeepsKeys ==
    ASSUME TypeOK, OneRequest, AllKeys, NEW h \in Requests, UNCHANGED worker,
           \A q \in Runs : KeyRow(q)' /\ (run'[q].key => run[q].key \/ Free(q)),
           \A q \in Runs : KeyRequest(h, q)',
           request'[h].op \in Switches /\ request'[h].pc # "cancelling" => request'[h].nokey = {}
    PROVE  AllKeys'
<1>1. \A g \in Requests : g = h
  BY DEF OneRequest
<1>2. ASSUME NEW q \in Runs PROVE Keys(q)'
  <2>1. \A w \in Workers : KeyWorker(w, q)'
    BY <1>2 DEF AllKeys, Keys, KeyWorker, Free, Engaged
  <2> QED
    BY <1>1, <1>2, <2>1 DEF Keys
<1> QED
  BY <1>1, <1>2 DEF AllKeys, SwitchesForget

LEMMA LoadKeys ==
    ASSUME TypeOK, OneRequest, AllKeys, NEW h \in Requests,
           \/ \E r \in Runs :
                  \/ CreateCheck(h, r) \/ CreateInBrowserCheck(h, r) \/ AnswerLoad(h, r)
                  \/ ApproveLoad(h, r) \/ CancelLoad(h, r) \/ DoneLoad(h, r) \/ ClosedLoad(h, r)
                  \/ BrowserLoad(h, r)
           \/ \E switch \in Switches : SwitchOff(h, switch)
    PROVE  AllKeys'
<1>1. ASSUME UNCHANGED <<run, worker>>,
             \A q \in request'[h].nokey : ~run[q].key,
             request'[h].op \in Switches => request'[h].pc = "cancelling"
      PROVE  AllKeys'
  <2>1. \A q \in Runs : KeyRow(q)' /\ (run'[q].key => run[q].key) /\ KeyRequest(h, q)'
    BY <1>1 DEF AllKeys, Keys, KeyRow, KeyRequest
  <2> QED
    BY <1>1, <2>1, RequestKeepsKeys
<1>2. ASSUME NEW switch \in Switches, SwitchOff(h, switch) PROVE AllKeys'
  <2>1. /\ UNCHANGED <<run, worker>> /\ request'[h].pc = "cancelling"
        /\ request'[h].nokey = NoKey({q \in Runs : Governs(switch, q)})
    BY <1>2 DEF SwitchOff, TypeOK, IdleRequest
  <2> QED
    BY <1>1, <2>1 DEF NoKey
<1>3. ASSUME NEW r \in Runs, NEW op, NEW status, NEW todo, NEW pc,
             Load(h, op, r, pc, status, todo), UNCHANGED <<run, worker>>, op \notin Switches
      PROVE  AllKeys'
  <2>1. request'[h].op = op /\ request'[h].nokey = NoKey({r} \cup todo)
    BY <1>3 DEF Load, TypeOK
  <2> QED
    BY <1>1, <1>3, <2>1 DEF NoKey
<1>4. ASSUME NEW r \in Runs, CreateCheck(h, r) PROVE AllKeys'
  BY <1>3, <1>4 DEF CreateCheck, Switches
<1>5. ASSUME NEW r \in Runs, CreateInBrowserCheck(h, r) PROVE AllKeys'
  <2>1. /\ UNCHANGED <<run, worker>>
        /\ \E stale : Load(h, "create", r, "cancelling", "in_browser", stale)
    BY <1>5 DEF CreateInBrowserCheck
  <2> QED
    BY <1>3, <2>1 DEF Switches
<1>6. ASSUME NEW r \in Runs, AnswerLoad(h, r) \/ ApproveLoad(h, r) \/ CancelLoad(h, r)
      PROVE  AllKeys'
  BY <1>3, <1>6 DEF AnswerLoad, ApproveLoad, CancelLoad, Switches
<1>7. ASSUME NEW r \in Runs, DoneLoad(h, r) \/ ClosedLoad(h, r) \/ BrowserLoad(h, r)
      PROVE  AllKeys'
  BY <1>3, <1>7 DEF DoneLoad, ClosedLoad, BrowserLoad, Switches
<1> QED
  BY <1>2, <1>4, <1>5, <1>6, <1>7

LEMMA CancelKeys ==
    ASSUME TypeOK, OneRequest, Rows, AllKeys, NEW h \in Requests,
           CancelNext(h) \/ CancelledAll(h) \/ RequestCrash(h)
    PROVE  AllKeys'
<1>1. CASE CancelNext(h)
  <2>1. PICK q \in request[h].todo :
            /\ Transition(q, "cancelled", request[h].nokey)
            /\ request' = [request EXCEPT ![h].todo = @ \ {q}, ![h].nokey = {},
                   ![h].pc = IF request[h].op = "create" THEN @ ELSE "record",
                   ![h].run = IF request[h].op = "create" THEN @ ELSE q,
                   ![h].status = IF request[h].op = "create" THEN @ ELSE "cancelled"]
    BY <1>1 DEF CancelNext
  <2>2. request \in [Requests -> Request]
    BY DEF TypeOK, OpenRequest
  <2>3. request'[h].nokey = {}
    BY <2>1, <2>2 DEF Request
  <2>4. /\ q \in Runs /\ run[q].state # "none" /\ request[h].pc = "cancelling"
        /\ UNCHANGED worker
    BY <1>1, <2>1, <2>2 DEF CancelNext, Request, Rows, RowsKnown
  <2>5. KeyRow(q) /\ (q \in request[h].nokey => ~run[q].key)
    BY <2>1, <2>4 DEF AllKeys, Keys, KeyRequest
  <2>6. KeyRow(q)' /\ (run'[q].key => run[q].key) /\ \A p \in Runs \ {q} : run'[p] = run[p]
    BY <2>1, <2>4, <2>5, TransitionKeys
  <2>7. \A p \in Runs : KeyRow(p)' /\ (run'[p].key => run[p].key)
    BY <2>6 DEF AllKeys, Keys, KeyRow
  <2>8. \A p \in Runs : KeyRequest(h, p)'
    BY <2>3 DEF KeyRequest
  <2> QED
    BY <2>3, <2>4, <2>7, <2>8, RequestKeepsKeys
<1>2. CASE CancelledAll(h) \/ RequestCrash(h)
  <2>1. UNCHANGED <<run, worker>>
    BY <1>2 DEF CancelledAll, RequestCrash
  <2>2. request'[h].pc \in {"insert", "idle"} /\ request'[h].op \in {"create", "none"}
    BY <1>2 DEF CancelledAll, RequestCrash, Goto, Finish, IdleRequest, TypeOK, OpenRequest, Request
  <2>3. \A p \in Runs : KeyRow(p)' /\ (run'[p].key => run[p].key) /\ KeyRequest(h, p)'
    BY <2>1, <2>2 DEF AllKeys, Keys, KeyRow, KeyRequest
  <2> QED
    BY <2>1, <2>2, <2>3, RequestKeepsKeys DEF Switches
<1> QED
  BY <1>1, <1>2

LEMMA WriteKeys ==
    ASSUME TypeOK, OneRequest, Rows, AllPlaced, AllKeys, NEW h \in Requests,
           \/ CreateInsert(h) \/ CreateConfirm(h) \/ AnswerWrite(h) \/ AnswerAfter(h)
           \/ ApproveWrite(h) \/ CancelWrite(h) \/ DoneWrite(h) \/ ClosedWrite(h)
           \/ BrowserWrite(h) \/ RequestRecord(h) \/ RequestApplied(h) \/ Dispatch(h)
    PROVE  AllKeys'
<1>1. request[h].pc \notin {"idle", "cancelling"} /\ UNCHANGED worker
  BY DEF CreateInsert, CreateConfirm, AnswerWrite, AnswerAfter, ApproveWrite, CancelWrite,
     DoneWrite, ClosedWrite, BrowserWrite, RequestRecord, RequestApplied, Dispatch
<1>2. PICK r \in Runs : request[h].run = r
  BY <1>1, RequestRun
<1>3. /\ KeyRow(r) /\ KeyRequest(h, r)
      /\ request[h].op \in Taking => Free(r)
      /\ request[h].pc # "insert" => run[r].state # "none"
  BY <1>1, <1>2 DEF AllPlaced, AllKeys, Keys, Placed, Taken, Rows, RowsKnown
\* Where the request gets to.
<1>4. ASSUME KeyRow(r)', run'[r].key => run[r].key \/ Free(r),
             \A q \in Runs \ {r} : run'[q] = run[q]
      PROVE  AllKeys'
  <2>1. PICK pc : Proceeds(h, pc) /\ pc # "write" /\ (pc = "cancelling" => request[h].op \in Switches)
    <3>1. CASE RequestRecord(h)
      <4>1. \/ Proceeds(h, "dispatch") \/ Proceeds(h, "apply")
            \/ Proceeds(h, "cancelling") /\ request[h].op \in Switches
        BY <3>1, Proceeding DEF RequestRecord
      <4> QED
        BY <4>1
    <3>2. CASE ~RequestRecord(h)
      <4>1. \E pc \in {"created", "record", "after", "dispatch", "idle"} : Proceeds(h, pc)
        BY <3>2, Proceeding DEF CreateInsert, CreateConfirm, AnswerWrite, AnswerAfter,
           ApproveWrite, CancelWrite, DoneWrite, ClosedWrite, BrowserWrite, RequestApplied,
           Dispatch
      <4> QED
        BY <4>1
    <3> QED
      BY <3>1, <3>2
  <2>2. /\ request'[h].pc # "write"
        /\ request'[h].op \in Switches => request'[h].nokey = {}
        /\ request'[h].pc = "cancelling" => request'[h].nokey = {}
    BY <1>1, <2>1 DEF Proceeds, SameErrand, IdleRequest, AllKeys, SwitchesForget, Switches
  <2>3. \A q \in Runs : KeyRequest(h, q)'
    BY <2>2 DEF KeyRequest
  <2>4. \A q \in Runs : KeyRow(q)' /\ (run'[q].key => run[q].key \/ Free(q))
    BY <1>4 DEF AllKeys, Keys, KeyRow
  <2> QED
    BY <1>1, <2>2, <2>3, <2>4, RequestKeepsKeys
<1>5. ASSUME NEW state, NEW nokey, Transition(r, state, nokey), request[h].pc # "insert",
             r \in nokey /\ state \notin ActiveStates => ~run[r].key
      PROVE  AllKeys'
  <2>1. /\ KeyRow(r)' /\ (run'[r].key => run[r].key)
        /\ \A q \in Runs \ {r} : run'[q] = run[q]
    BY <1>3, <1>5, TransitionKeys
  <2> QED
    BY <1>4, <2>1
<1>6. CASE CreateInsert(h)
  <2>1. request[h].op = "create" /\ request[h].status \in {"queued", "in_browser"}
    BY <1>6 DEF CreateInsert, Rows, RowsKnown, TypeOK, OpenRequest
  <2>2. \/ UNCHANGED run
        \/ run' = [run EXCEPT ![r] = [NoRow EXCEPT !.state = request[h].status, !.key = TRUE]]
    BY <1>2, <1>6 DEF CreateInsert
  <2>3. CASE UNCHANGED run
    BY <1>3, <1>4, <2>3 DEF KeyRow
  <2>4. CASE run' = [run EXCEPT ![r] = [NoRow EXCEPT !.state = request[h].status, !.key = TRUE]]
    <3>1. /\ run'[r].state = request[h].status /\ run'[r].key
          /\ \A q \in Runs \ {r} : run'[q] = run[q]
      BY <2>4 DEF NoRow, TypeOK
    <3>2. run'[r].state \in ActiveStates
      BY <2>1, <3>1 DEF ActiveStates
    <3>3. KeyRow(r)'
      BY <3>1, <3>2 DEF KeyRow
    <3> QED
      BY <1>3, <1>4, <2>1, <3>1, <3>3 DEF Taking
  <2> QED
    BY <2>2, <2>3, <2>4
<1>7. CASE CreateConfirm(h) \/ AnswerAfter(h) \/ ApproveWrite(h)
  <2>1. request[h].pc # "insert" /\ \E state : Transition(r, state, {})
    BY <1>2, <1>7 DEF CreateConfirm, AnswerAfter, ApproveWrite
  <2> QED
    BY <1>5, <2>1
<1>8. CASE AnswerWrite(h)
  <2>1. /\ run'[r].state = run[r].state /\ run'[r].key = run[r].key
        /\ run'[r].ended = run[r].ended /\ \A q \in Runs \ {r} : run'[q] = run[q]
    BY <1>2, <1>8 DEF AnswerWrite, TypeOK, Row
  <2> QED
    BY <1>3, <1>4, <2>1 DEF KeyRow
<1>9. CASE CancelWrite(h) \/ ClosedWrite(h)
  <2>1. request[h].pc = "write" /\ \E state : Transition(r, state, request[h].nokey)
    BY <1>2, <1>9 DEF CancelWrite, ClosedWrite
  <2> QED
    BY <1>2, <1>3, <1>5, <2>1 DEF KeyRequest
<1>10. CASE DoneWrite(h)
  <2>1. /\ run'[r].state \in {"done", "cancelled"} /\ run'[r].ended
        /\ r \in request[h].nokey => run'[r].key = run[r].key
        /\ r \notin request[h].nokey => ~run'[r].key
        /\ \A q \in Runs \ {r} : run'[q] = run[q]
    BY <1>2, <1>10, DoneIs
  <2>2. request[h].pc = "write"
    BY <1>10 DEF DoneWrite
  <2>3. ~run'[r].key
    BY <1>2, <1>3, <2>1, <2>2 DEF KeyRequest
  <2>4. KeyRow(r)'
    BY <2>1, <2>3, KindsOfState DEF KeyRow
  <2> QED
    BY <1>4, <2>1, <2>3, <2>4
<1>11. CASE BrowserWrite(h)
  <2>1. \/ UNCHANGED run
        \/ /\ run'[r].state = "in_browser" /\ run'[r].ended = run[r].ended
           /\ run'[r].key = (r \in request[h].nokey \/ run[r].key)
           /\ \A q \in Runs \ {r} : run'[q] = run[q]
    BY <1>2, <1>11, BrowserIs
  <2>2. request[h].op = "browser" /\ request[h].pc = "write"
    BY <1>11 DEF BrowserWrite
  <2>3. CASE UNCHANGED run
    BY <1>3, <1>4, <2>3 DEF KeyRow
  <2>4. CASE /\ run'[r].state = "in_browser" /\ run'[r].ended = run[r].ended
             /\ run'[r].key = (r \in request[h].nokey \/ run[r].key)
             /\ \A q \in Runs \ {r} : run'[q] = run[q]
    <3>1. run'[r].key <=> (r \in request[h].nokey \/ run[r].key)
      BY <2>4
    <3>2. ~run[r].ended => run[r].key
      BY <1>3, <2>2 DEF KeyRow
    <3>3. KeyRow(r)'
      BY <2>4, <3>1, <3>2, KindsOfState DEF KeyRow
    <3> QED
      BY <1>3, <1>4, <2>2, <2>4, <3>3 DEF Taking
  <2> QED
    BY <2>1, <2>3, <2>4
<1>12. CASE RequestRecord(h) \/ RequestApplied(h) \/ Dispatch(h)
  <2>1. UNCHANGED run
    BY <1>12 DEF RequestRecord, RequestApplied, Dispatch
  <2> QED
    BY <1>3, <1>4, <2>1 DEF KeyRow
<1> QED
  BY <1>6, <1>7, <1>8, <1>9, <1>10, <1>11, <1>12

LEMMA InitKeys == Init => AllKeys
<1>1. "none" \notin ActiveStates
  BY DEF ActiveStates
<1> QED
  BY <1>1 DEF Init, AllKeys, Keys, KeyRow, KeyRequest, KeyWorker, SwitchesForget, NoRow,
     IdleRequest, IdleWorker

\* With one request at a time, a run that is over does not lock its job, and a
\* run that never was over holds it, through every failure.
THEOREM KeysFollowRuns ==
    ASSUME \A g, h \in Requests : g = h
    PROVE  Spec => []KeyFollowsRun
<1>1. TypeOK /\ Rows /\ AllPlaced /\ AllKeys /\ [Next]_vars => AllKeys'
  <2> SUFFICES ASSUME TypeOK, Rows, AllPlaced, AllKeys, [Next]_vars PROVE AllKeys'
    OBVIOUS
  <2>1. OneRequest
    BY DEF OneRequest
  <2>2. ASSUME UNCHANGED <<run, request, worker>> PROVE AllKeys'
    BY <2>2 DEF AllKeys, Keys, KeyRow, KeyRequest, KeyWorker, SwitchesForget
  <2>3. ASSUME NEW switch \in Switches, SwitchOn(switch) PROVE AllKeys'
    BY <2>2, <2>3 DEF SwitchOn
  <2>4. ASSUME NEW h \in Requests, RequestStarts(h) \/ RequestContinues(h) \/ RequestCrash(h)
        PROVE  AllKeys'
    BY <2>1, <2>4, LoadKeys, CancelKeys, WriteKeys DEF RequestStarts, RequestContinues
  <2> QED
    BY <2>2, <2>3, <2>4, WorkerKeys DEF Next, vars
<1>2. AllKeys => KeyFollowsRun
  BY DEF AllKeys, Keys, KeyRow, KeyFollowsRun, KeyOnlyWhileActive, FirstLifeHoldsKey
<1> QED
  BY TypeCorrect, RowsHold, PlacedHolds, InitKeys, <1>1, <1>2, PTL DEF Spec

----------------------------------------------------------------------------
(* What the gate promises: every step of a request or a worker approves,     *)
(* sends or confirms one run as the gate may, or is none of its business.    *)

\* A worker that waits for the employer's answer has sent the form, and a run
\* that was not sent has no version that was.
Clicked ==
    /\ \A w \in Workers : worker[w].pc = "confirm" => ledger[worker[w].run].sends > 0
    /\ \A r \in Runs : ledger[r].sends = 0 => ledger[r].sentPlans = {}

LEMMA RequestIsClicked ==
    ASSUME TypeOK, Clicked, NEW h \in Requests,
           RequestStarts(h) \/ RequestContinues(h) \/ RequestCrash(h)
    PROVE  Clicked'
<1>1. UNCHANGED worker
  BY DEF RequestStarts, CreateCheck, CreateInBrowserCheck, AnswerLoad, ApproveLoad, CancelLoad, DoneLoad,
     ClosedLoad, BrowserLoad, SwitchOff, RequestContinues, CreateInsert, CreateConfirm, AnswerWrite,
     AnswerAfter, ApproveWrite, CancelWrite, DoneWrite, ClosedWrite, BrowserWrite, CancelNext,
     CancelledAll, RequestRecord, RequestApplied, Dispatch, RequestCrash
<1>2. CASE ApproveWrite(h)
  <2>1. \A r \in Runs : ledger'[r].sends = ledger[r].sends /\ ledger'[r].sentPlans = ledger[r].sentPlans
    BY <1>2 DEF ApproveWrite, TypeOK, History
  <2>2. \A w \in Workers : worker[w].pc = "confirm" => worker[w].run \in Runs
    BY WorkerRun
  <2> QED
    BY <1>1, <2>1, <2>2 DEF Clicked
<1>3. CASE ~ApproveWrite(h)
  <2>1. UNCHANGED ledger
    BY <1>3 DEF RequestStarts, CreateCheck, CreateInBrowserCheck, AnswerLoad, ApproveLoad, CancelLoad,
       DoneLoad, ClosedLoad, BrowserLoad, SwitchOff, RequestContinues, CreateInsert, CreateConfirm,
       AnswerWrite, AnswerAfter, CancelWrite, DoneWrite, ClosedWrite, BrowserWrite, CancelNext,
       CancelledAll, RequestRecord, RequestApplied, Dispatch, RequestCrash
  <2> QED
    BY <1>1, <2>1 DEF Clicked
<1> QED
  BY <1>2, <1>3

LEMMA WorkerIsClicked ==
    ASSUME TypeOK, Clicked, NEW w \in Workers,
           TakesTask(w) \/ WorkerContinues(w) \/ RecordFails(w) \/ WorkerCrash(w)
    PROVE  Clicked'
<1>1. \A v \in Workers : worker[v].pc = "confirm" => worker[v].run \in Runs
  BY WorkerRun
<1>2. CASE TakesTask(w)
  <2>1. PICK r \in Runs : TakePrepare(w, r) \/ TakeSubmit(w, r)
    BY <1>2 DEF TakesTask
  <2>2. UNCHANGED ledger
    BY <2>1 DEF TakePrepare, TakeSubmit
  <2>3. UNCHANGED worker \/ \E task, pc, status : pc # "confirm" /\ Take(w, task, r, pc, status)
    BY <2>1 DEF TakePrepare, TakeSubmit
  <2>4. \A v \in Workers : worker'[v] = worker[v] \/ worker'[v].pc # "confirm"
    <3>1. CASE UNCHANGED worker
      BY <3>1
    <3>2. ASSUME NEW task, NEW pc, NEW status, pc # "confirm", Take(w, task, r, pc, status)
          PROVE  \A v \in Workers : worker'[v] = worker[v] \/ worker'[v].pc # "confirm"
      <4>1. worker' = [worker EXCEPT ![w] = [pc |-> pc, task |-> task, run |-> r, nokey |-> NoKey({r}),
                                              version |-> 0, status |-> status]]
        BY <3>2 DEF Take
      <4>2. worker'[w].pc = pc /\ \A v \in Workers \ {w} : worker'[v] = worker[v]
        BY <4>1 DEF TypeOK
      <4> QED
        BY <3>2, <4>2
    <3> QED
      BY <2>3, <3>1, <3>2
  <2> QED
    BY <2>2, <2>4 DEF Clicked
<1>3. CASE Send(w)
  <2>1. worker[w].pc = "click" /\ worker[w].run \in Runs /\ Working(w, "confirm")
    BY <1>3, WorkerRun DEF Send
  <2>2. /\ worker'[w].run = worker[w].run
        /\ \A v \in Workers \ {w} : worker'[v] = worker[v]
    BY <2>1 DEF Working, TypeOK, OpenTask, Task
  <2>3. /\ ledger'[worker[w].run].sends = ledger[worker[w].run].sends + 1
        /\ \A r \in Runs \ {worker[w].run} : ledger'[r] = ledger[r]
    BY <1>3, <2>1 DEF Send, TypeOK, History
  <2>4. \A r \in Runs : ledger[r].sends \in Nat
    BY DEF TypeOK, History
  <2> QED
    BY <1>1, <2>1, <2>2, <2>3, <2>4 DEF Clicked
<1>4. CASE FormFilled(w)
  <2>1. UNCHANGED ledger /\ \A v \in Workers : worker'[v] = worker[v] \/ worker'[v].pc # "confirm"
    BY <1>4 DEF FormFilled, TypeOK, OpenTask, Task
  <2> QED
    BY <2>1 DEF Clicked
<1>5. CASE Confirm(w)
  <2>1. \/ UNCHANGED ledger
        \/ worker[w].run \in Runs /\ ledger' = [ledger EXCEPT ![worker[w].run].confirmed = TRUE]
    BY <1>5, ConfirmIs
  <2>2. \A r \in Runs : ledger'[r].sends = ledger[r].sends /\ ledger'[r].sentPlans = ledger[r].sentPlans
    <3>1. CASE UNCHANGED ledger
      BY <3>1
    <3>2. CASE worker[w].run \in Runs /\ ledger' = [ledger EXCEPT ![worker[w].run].confirmed = TRUE]
      BY <3>2 DEF TypeOK, History
    <3> QED
      BY <2>1, <3>1, <3>2
  <2>3. \E pc : pc # "confirm" /\ Advances(w, pc)
    BY <1>5, Advancing DEF Confirm
  <2>4. \A v \in Workers : worker'[v] = worker[v] \/ worker'[v].pc # "confirm"
    BY <2>3 DEF Advances, IdleWorker
  <2> QED
    BY <1>1, <2>2, <2>4 DEF Clicked
<1>6. CASE ~Send(w) /\ ~Confirm(w) /\ ~FormFilled(w) /\ (WorkerContinues(w) \/ RecordFails(w) \/ WorkerCrash(w))
  <2>1. UNCHANGED ledger /\ \E pc : pc # "confirm" /\ Advances(w, pc)
    BY <1>6, Advancing DEF WorkerContinues, Begin, FormStops, FormRead, FormHandedOver, FormAnswered,
       SubmitStops, WorkerRecord, WorkerApplied, RecordFails, WorkerCrash
  <2>2. \A v \in Workers : worker'[v] = worker[v] \/ worker'[v].pc # "confirm"
    BY <2>1 DEF Advances, IdleWorker
  <2> QED
    BY <2>1, <2>2 DEF Clicked
<1> QED
  BY <1>2, <1>3, <1>4, <1>5, <1>6

LEMMA ClickedHolds == Spec => []Clicked
<1>1. Init => Clicked
  BY DEF Init, Clicked, IdleWorker, NoSends
<1>2. TypeOK /\ Clicked /\ [Next]_vars => Clicked'
  <2> SUFFICES ASSUME TypeOK, Clicked, [Next]_vars PROVE Clicked'
    OBVIOUS
  <2>1. ASSUME UNCHANGED <<worker, ledger>> PROVE Clicked'
    BY <2>1 DEF Clicked
  <2>2. ASSUME NEW switch \in Switches, SwitchOn(switch) PROVE Clicked'
    BY <2>1, <2>2 DEF SwitchOn
  <2> QED
    BY <2>1, <2>2, RequestIsClicked, WorkerIsClicked DEF Next, vars
<1> QED
  BY TypeCorrect, <1>1, <1>2, PTL DEF Spec

\* Step by step: what the gate sees of a step.
Seen == <<[r \in Runs |-> ledger[r].approvedPlans], [r \in Runs |-> ledger[r].sentPlans],
          [r \in Runs |-> ledger[r].sends], [r \in Runs |-> ledger[r].confirmed]>>
Gated == Gate!Next \/ UNCHANGED Seen

LEMMA UnseenIsGated == ASSUME UNCHANGED ledger PROVE Gated
BY DEF Gated, Seen

\* An approval finds its run unsent: the user has it in hand.
LEMMA ApprovalIsGated ==
    ASSUME TypeOK, AllPlaced, NEW h \in Requests, ApproveWrite(h)
    PROVE  Gated
<1> DEFINE approved == [q \in Runs |-> ledger[q].approvedPlans]
<1>1. PICK r \in Runs : r = request[h].run /\ request[h].op = "approve"
  BY RequestRun DEF ApproveWrite
<1>2. Free(r) /\ ~Spent(r)
  BY <1>1 DEF AllPlaced, Placed, Taken, Taking, Spent, Starting
<1>3. ledger[r].sends = 0
  BY <1>1, <1>2 DEF AllPlaced, Placed, Once, Free, Engaged
<1>4. PICK v : v = request[h].plan.version
  OBVIOUS
<1>5. ledger' = [ledger EXCEPT ![r].approvals = @ + 1, ![r].approvedPlans = @ \cup {v}]
  BY <1>1, <1>4 DEF ApproveWrite
<1>6. /\ \A q \in Runs : /\ ledger'[q].sentPlans = ledger[q].sentPlans
                         /\ ledger'[q].sends = ledger[q].sends
                         /\ ledger'[q].confirmed = ledger[q].confirmed
      /\ ledger'[r].approvedPlans = ledger[r].approvedPlans \cup {v}
      /\ \A q \in Runs \ {r} : ledger'[q].approvedPlans = ledger[q].approvedPlans
  BY <1>1, <1>5 DEF TypeOK, History
<1>7. v \in approved'[r] /\ approved' = [approved EXCEPT ![r] = @ \cup {v}]
  BY <1>6
<1>8. Gate!Approve(r)
  BY <1>3, <1>6, <1>7 DEF Gate!Approve
<1> QED
  BY <1>8 DEF Gated, Gate!Next

\* A send finds its run unsent, since one worker is engaged with it, and sends
\* a version that was approved.
LEMMA SendIsGated ==
    ASSUME TypeOK, AllPlaced, AllVersions, Clicked, NEW w \in Workers, Send(w)
    PROVE  Gated
<1> DEFINE v == worker[w].version
<1>1. PICK r \in Runs : r = worker[w].run /\ worker[w].pc = "click" /\ Engaged(w)
  BY WorkerRun DEF Send, Engaged
<1>2. ~Spent(r)
  BY <1>1 DEF Spent, Free
<1>3. \A u \in Workers : worker[u].run = r => worker[u].pc # "confirm"
  BY <1>1 DEF AllPlaced, Placed, OneTask, Engaged
<1>4. ledger[r].sends = 0
  BY <1>1, <1>2, <1>3 DEF AllPlaced, Placed, Once
<1>5. v \in ledger[r].approvedPlans
  BY <1>1 DEF AllVersions, Versions
<1>6. ledger' = [ledger EXCEPT ![r].sends = @ + 1, ![r].sentPlans = @ \cup {v}]
  BY <1>1 DEF Send
<1>7. /\ \A q \in Runs : /\ ledger'[q].approvedPlans = ledger[q].approvedPlans
                         /\ ledger'[q].confirmed = ledger[q].confirmed
      /\ ledger'[r].sends = 1 /\ ledger'[r].sentPlans = {v}
      /\ \A q \in Runs \ {r} : ledger'[q].sends = ledger[q].sends /\ ledger'[q].sentPlans = ledger[q].sentPlans
  BY <1>1, <1>4, <1>6 DEF TypeOK, History, Clicked
<1> HIDE DEF v
<1>8. Gate!Send(r)
  BY <1>1, <1>4, <1>5, <1>7 DEF Gate!Send
<1> QED
  BY <1>1, <1>8 DEF Gated, Gate!Next

\* A run is confirmed that was sent.
LEMMA ConfirmationIsGated ==
    ASSUME TypeOK, AllPlaced, Clicked, NEW w \in Workers, Confirm(w)
    PROVE  Gated
<1>1. PICK r \in Runs : r = worker[w].run /\ worker[w].pc = "confirm"
  BY ConfirmIs DEF Confirm
<1>2. ledger[r].sends = 1
  BY <1>1 DEF Clicked, AllPlaced, Placed, Once
<1>3. CASE ledger' = [ledger EXCEPT ![r].confirmed = TRUE]
  <2>1. /\ \A q \in Runs : /\ ledger'[q].approvedPlans = ledger[q].approvedPlans
                           /\ ledger'[q].sentPlans = ledger[q].sentPlans
                           /\ ledger'[q].sends = ledger[q].sends
        /\ ledger'[r].confirmed = TRUE
        /\ \A q \in Runs \ {r} : ledger'[q].confirmed = ledger[q].confirmed
    BY <1>1, <1>3 DEF TypeOK, History
  <2>2. Gate!Confirm(r)
    BY <1>1, <1>2, <2>1 DEF Gate!Confirm
  <2> QED
    BY <1>1, <2>2 DEF Gated, Gate!Next
<1> QED
  BY <1>1, <1>3, ConfirmIs, UnseenIsGated

LEMMA StepIsGated ==
    ASSUME TypeOK, AllPlaced, AllVersions, Clicked, [Next]_vars
    PROVE  Gated
<1>1. ASSUME NEW h \in Requests, RequestStarts(h) \/ RequestContinues(h) \/ RequestCrash(h), ~ApproveWrite(h)
      PROVE  UNCHANGED ledger
  BY <1>1 DEF RequestStarts, CreateCheck, CreateInBrowserCheck, AnswerLoad, ApproveLoad, CancelLoad,
     DoneLoad, ClosedLoad, BrowserLoad, SwitchOff, RequestContinues, CreateInsert, CreateConfirm,
     AnswerWrite, AnswerAfter, CancelWrite, DoneWrite, ClosedWrite, BrowserWrite, CancelNext,
     CancelledAll, RequestRecord, RequestApplied, Dispatch, RequestCrash
<1>2. ASSUME NEW w \in Workers, TakesTask(w) \/ WorkerContinues(w) \/ RecordFails(w) \/ WorkerCrash(w),
             ~Send(w), ~Confirm(w)
      PROVE  UNCHANGED ledger
  BY <1>2 DEF TakesTask, TakePrepare, TakeSubmit, WorkerContinues, Begin, FormStops, FormRead,
     FormHandedOver, FormAnswered, FormFilled, SubmitStops, WorkerRecord, WorkerApplied, RecordFails,
     WorkerCrash
<1>3. ASSUME NEW switch \in Switches, SwitchOn(switch) PROVE UNCHANGED ledger
  BY <1>3 DEF SwitchOn
<1>4. CASE UNCHANGED vars
  BY <1>4, UnseenIsGated DEF vars
<1>5. CASE Next
  BY <1>1, <1>2, <1>3, <1>5, UnseenIsGated, ApprovalIsGated, SendIsGated, ConfirmationIsGated DEF Next
<1> QED
  BY <1>4, <1>5

\* With one request at a time the engine implements ApprovalGate (apply_engine.py:
\* 6-33): the requests and tasks of any number of runs, with their crashes,
\* losses and late writes, come down to approving versions, sending one of them
\* once, and confirming what was sent.
THEOREM EngineKeepsTheGate ==
    ASSUME \A g, h \in Requests : g = h
    PROVE  Spec => GateKept
<1>1. Init => Gate!Init
  BY DEF Init, NoSends, Gate!Init
<1>2. Gated <=> [Gate!Next]_(Gate!vars)
  BY DEF Gated, Seen, Gate!vars
<1>3. TypeOK /\ AllPlaced /\ AllVersions /\ Clicked /\ [Next]_vars => [Gate!Next]_(Gate!vars)
  BY StepIsGated, <1>2
<1> QED
  BY TypeCorrect, PlacedHolds, VersionsHold, ClickedHolds, <1>1, <1>3, PTL DEF Spec, GateKept, Gate!Spec

=============================================================================
