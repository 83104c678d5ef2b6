------------------------- MODULE ApplyEngineProofs -------------------------
(***************************************************************************)
(* Theorems about ApplyEngine, for any number of runs, jobs, requests and   *)
(* workers, any caps and any bounds: its types, and what it never does,     *)
(* however many requests and tasks overlap, die or run late: send a         *)
(* LinkedIn run (FastNeverSubmits), send without an approval                *)
(* (SendsNeedApprovals), pass the daily cap by more than the tasks at work  *)
(* (CapOvershootIsBounded).                                                 *)
(*                                                                          *)
(* None of the last three is inductive.  Each rests on what the requests    *)
(* and workers hold between two commits:                                    *)
(*   - Rows: what they hold is a row that was inserted, and one request     *)
(*     creates a row;                                                       *)
(*   - FastInv: no request that answers or approves, and no worker that     *)
(*     submits, is about a LinkedIn run;                                    *)
(*   - Approved: an approval is in one place at a time, the request that    *)
(*     got it, the queue, a worker, or the employer;                        *)
(*   - Capped: a worker under way has checked the cap when it was not used. *)
(***************************************************************************)
EXTENDS ApplyEngine, FiniteSetTheorems, TLAPS

States == ActiveStates \cup EndStates

USE DEF States

----------------------------------------------------------------------------
(* What the building blocks of the actions write *)

\* A transition to a state of a run keeps the table well formed.
LEMMA MovedType ==
    ASSUME TypeOK, NEW r \in Runs, NEW state \in States, NEW nokey
    PROVE  Moved(r, state, nokey) \in Row
<1> DEFINE key == IF state \in ActiveStates \/ r \in nokey THEN run[r].key ELSE FALSE
           ended == run[r].ended \/ state \notin ActiveStates
<1>1. run[r] \in Row
  BY DEF TypeOK
<1>2. state \in RunStates
  BY DEF RunStates
<1>3. run[r].key \in BOOLEAN
  BY <1>1 DEF Row
<1>4. key \in BOOLEAN
  BY <1>3
<1>5. ended \in BOOLEAN
  BY Zenon
<1> HIDE DEF key, ended
<1>6. [run[r] EXCEPT !.state = state, !.key = key, !.ended = ended] \in Row
  BY <1>1, <1>2, <1>4, <1>5 DEF Row
<1> QED
  BY <1>6 DEF Moved, key, ended

LEMMA TransitionType ==
    ASSUME TypeOK, NEW r \in Runs, NEW state \in States, NEW nokey,
           Transition(r, state, nokey)
    PROVE  run' \in [Runs -> Row]
BY MovedType DEF TypeOK, Transition

\* Once its questions are answered, a run waits for the user or for a worker.
LEMMA AfterAnswersType ==
    ASSUME NEW plan \in Plan
    PROVE  AfterAnswers(plan) \in {"awaiting_input", "awaiting_review", "queued"}
BY DEF AfterAnswers, Plan

LEMMA IdleRequestType == IdleRequest \in OpenRequest
BY DEF IdleRequest, OpenRequest, Request, RequestPcs, EmptyPlan, Plan, Statuses

LEMMA FinishType ==
    ASSUME TypeOK, NEW h \in Requests, Finish(h)
    PROVE  request' \in [Requests -> OpenRequest]
BY IdleRequestType DEF TypeOK, Finish

LEMMA GotoType ==
    ASSUME TypeOK, NEW h \in Requests, request[h].run \in Runs,
           NEW pc \in RequestPcs \ {"insert", "created"},
           pc = "cancelling" => request[h].op \in Switches, Goto(h, pc)
    PROVE  request' \in [Requests -> OpenRequest]
<1>1. request[h] \in OpenRequest
  BY DEF TypeOK
<1>2. [request[h] EXCEPT !.pc = pc] \in Request
  BY <1>1 DEF OpenRequest, Request
<1>3. [request[h] EXCEPT !.pc = pc] \in OpenRequest
  BY <1>1, <1>2 DEF OpenRequest, Request, Switches
<1> QED
  BY <1>3 DEF TypeOK, Goto

LEMMA ToRecordType ==
    ASSUME TypeOK, NEW h \in Requests, request[h].run \in Runs,
           NEW status \in Statuses, ToRecord(h, status)
    PROVE  request' \in [Requests -> OpenRequest]
<1> DEFINE next == [request[h] EXCEPT !.pc = "record", !.status = status]
<1>1. next \in OpenRequest
  <2>1. request[h] \in OpenRequest /\ request[h] \in Request
    BY DEF TypeOK, OpenRequest
  <2>2. next \in Request
    BY <2>1 DEF Request, RequestPcs
  <2>3. next.pc = "record" /\ next.run = request[h].run
    BY <2>1 DEF Request
  <2> QED
    BY <2>2, <2>3 DEF OpenRequest
<1>2. request' = [request EXCEPT ![h] = [request[h] EXCEPT !.pc = "record", !.status = status]]
  BY DEF TypeOK, ToRecord
<1> QED
  BY <1>1, <1>2 DEF TypeOK

LEMMA LoadType ==
    ASSUME TypeOK, NEW h \in Requests, NEW op \in UserOps, NEW r \in Runs,
           NEW pc \in RequestPcs, NEW status \in Statuses, NEW todo \in SUBSET Runs,
           pc \in {"insert", "created"} \/ (op = "create" /\ pc = "cancelling")
               => status \in {"queued", "in_browser"},
           pc = "cancelling" => op = "create",
           Load(h, op, r, pc, status, todo)
    PROVE  request' \in [Requests -> OpenRequest]
<1>1. NoKey({r} \cup todo) \in SUBSET Runs
  BY DEF NoKey
<1>2. run[r].plan \in Plan
  BY DEF TypeOK, Row
<1>3. [pc |-> pc, op |-> op, run |-> r, todo |-> todo, nokey |-> NoKey({r} \cup todo),
       plan |-> run[r].plan, status |-> status] \in OpenRequest
  BY <1>1, <1>2 DEF OpenRequest, Request
<1> QED
  BY <1>3 DEF TypeOK, Load

LEMMA WorkerEndsType ==
    ASSUME TypeOK, NEW w \in Workers, WorkerEnds(w)
    PROVE  worker' \in [Workers -> OpenTask]
<1>1. IdleWorker \in OpenTask
  BY DEF IdleWorker, OpenTask, Task, WorkerPcs, Statuses
<1> QED
  BY <1>1 DEF TypeOK, WorkerEnds

LEMMA WorkingType ==
    ASSUME TypeOK, NEW w \in Workers, worker[w].run \in Runs,
           NEW pc \in WorkerPcs \ {"begin", "stop"}, Working(w, pc)
    PROVE  worker' \in [Workers -> OpenTask]
BY DEF TypeOK, Working, OpenTask, Task

LEMMA WorkerToRecordType ==
    ASSUME TypeOK, NEW w \in Workers, worker[w].run \in Runs,
           NEW pc \in {"record", "last"}, NEW status \in Statuses, WorkerToRecord(w, pc, status)
    PROVE  worker' \in [Workers -> OpenTask]
<1> DEFINE next == [worker[w] EXCEPT !.pc = pc, !.status = status]
<1>1. next \in OpenTask
  <2>1. worker[w] \in Task
    BY DEF TypeOK, OpenTask
  <2>2. next \in Task
    BY <2>1 DEF Task, WorkerPcs
  <2>3. next.pc = pc /\ next.run = worker[w].run
    BY <2>1 DEF Task
  <2> QED
    BY <2>2, <2>3 DEF OpenTask
<1>2. worker' = [worker EXCEPT ![w] = [worker[w] EXCEPT !.pc = pc, !.status = status]]
  BY DEF TypeOK, WorkerToRecord
<1> QED
  BY <1>1, <1>2 DEF TypeOK

LEMMA TakeType ==
    ASSUME TypeOK, NEW w \in Workers, NEW task \in {"prepare", "submit"}, NEW r \in Runs,
           NEW pc \in WorkerPcs, NEW status \in Statuses,
           pc \in {"begin", "stop"} => status \in States,
           Take(w, task, r, pc, status)
    PROVE  worker' \in [Workers -> OpenTask]
<1>1. NoKey({r}) \in SUBSET Runs
  BY DEF NoKey
<1>2. [pc |-> pc, task |-> task, run |-> r, nokey |-> NoKey({r}), version |-> 0,
       status |-> status] \in OpenTask
  BY <1>1 DEF OpenTask, Task
<1> QED
  BY <1>2 DEF TypeOK, Take

\* A request or a worker with something to do has a run to do it to.
LEMMA RequestRun ==
    ASSUME TypeOK, NEW h \in Requests, request[h].pc \notin {"idle", "cancelling"}
    PROVE  request[h].run \in Runs
BY DEF TypeOK, OpenRequest

LEMMA WorkerRun ==
    ASSUME TypeOK, NEW w \in Workers, worker[w].pc # "idle"
    PROVE  worker[w].run \in Runs
BY DEF TypeOK, OpenTask

----------------------------------------------------------------------------
(* Type correctness *)

LEMMA InitType == Init => TypeOK
<1> SUFFICES ASSUME Init PROVE TypeOK
  OBVIOUS
<1>1. NoRow \in Row
  BY DEF NoRow, Row, RunStates, EmptyPlan, Plan
<1>2. IdleWorker \in OpenTask
  BY DEF IdleWorker, OpenTask, Task, WorkerPcs, Statuses
<1>3. NoSends \in History
  BY DEF NoSends, History
<1>4. queue \in [{"prepare", "submit"} -> [Runs -> Nat]]
  BY DEF Init
<1> QED
  BY <1>1, <1>2, <1>3, <1>4, IdleRequestType DEF Init, TypeOK, Statuses

\* A request keeps the table and the processes well formed.
LEMMA RequestType ==
    ASSUME TypeOK, NEW h \in Requests, RequestStarts(h) \/ RequestContinues(h) \/ RequestCrash(h)
    PROVE  TypeOK'
<1> USE DEF UserOps, RequestPcs, Statuses, ActiveStates, EndStates
<1>1. ASSUME NEW r \in Runs, CreateCheck(h, r) PROVE TypeOK'
  <2>1. request' \in [Requests -> OpenRequest]
    BY <1>1, LoadType DEF CreateCheck
  <2> QED
    BY <1>1, <2>1 DEF CreateCheck, TypeOK
<1>2. ASSUME NEW r \in Runs, CreateInBrowserCheck(h, r) PROVE TypeOK'
  <2>1. PICK stale \in SUBSET Runs : Load(h, "create", r, "cancelling", "in_browser", stale)
    BY <1>2 DEF CreateInBrowserCheck, SameJob
  <2>2. request' \in [Requests -> OpenRequest]
    BY <2>1, LoadType
  <2> QED
    BY <1>2, <2>2 DEF CreateInBrowserCheck, TypeOK
<1>3. ASSUME CreateInsert(h) PROVE TypeOK'
  <2>1. request[h].run \in Runs /\ request[h].status \in {"queued", "in_browser"}
    BY <1>3 DEF CreateInsert, TypeOK, OpenRequest
  <2>2. request' \in [Requests -> OpenRequest]
    <3>1. CASE Finish(h)
      BY <3>1, FinishType
    <3>2. CASE Goto(h, "created")
      <4> DEFINE next == [request[h] EXCEPT !.pc = "created"]
      <4>1. request[h] \in Request
        BY DEF TypeOK, OpenRequest
      <4>2. /\ next \in Request /\ next.pc = "created"
            /\ next.run = request[h].run /\ next.status = request[h].status
        BY <4>1 DEF Request
      <4>3. next \in OpenRequest
        BY <2>1, <4>2 DEF OpenRequest
      <4> QED
        BY <3>2, <4>3 DEF TypeOK, Goto
    <3> QED
      BY <1>3, <3>1, <3>2 DEF CreateInsert
  <2>3. run' \in [Runs -> Row]
    <3>1. [NoRow EXCEPT !.state = request[h].status, !.key = TRUE] \in Row
      BY <2>1 DEF NoRow, Row, RunStates, EmptyPlan, Plan
    <3> QED
      BY <1>3, <2>1, <3>1 DEF CreateInsert, TypeOK
  <2> QED
    BY <1>3, <2>2, <2>3 DEF CreateInsert, TypeOK
<1>4. ASSUME CreateConfirm(h) PROVE TypeOK'
  <2>1. request[h].run \in Runs /\ request[h].status \in States
    BY <1>4 DEF CreateConfirm, TypeOK, OpenRequest
  <2>2. run' \in [Runs -> Row]
    BY <1>4, <2>1, TransitionType DEF CreateConfirm
  <2>3. request' \in [Requests -> OpenRequest]
    BY <1>4, <2>1, ToRecordType DEF CreateConfirm
  <2> QED
    BY <1>4, <2>2, <2>3 DEF CreateConfirm, TypeOK
<1>5. ASSUME NEW r \in Runs, AnswerLoad(h, r) PROVE TypeOK'
  <2>1. request' \in [Requests -> OpenRequest]
    BY <1>5, LoadType DEF AnswerLoad
  <2> QED
    BY <1>5, <2>1 DEF AnswerLoad, TypeOK
<1>6. ASSUME AnswerWrite(h) PROVE TypeOK'
  <2>1. request[h].run \in Runs
    BY <1>6, RequestRun DEF AnswerWrite
  <2>2. request' \in [Requests -> OpenRequest]
    BY <1>6, <2>1, GotoType DEF AnswerWrite
  <2>3. run' \in [Runs -> Row]
    <3>1. PICK missing \in BOOLEAN :
              run' = [run EXCEPT ![request[h].run].plan =
                         [version |-> run[request[h].run].plan.version + 1, missing |-> missing,
                          partial |-> request[h].plan.partial]]
      BY <1>6 DEF AnswerWrite
    <3>2. request[h].plan \in Plan
      BY DEF TypeOK, OpenRequest, Request
    <3>3. run[request[h].run].plan \in Plan
      BY <2>1 DEF TypeOK, Row
    <3>4. [version |-> run[request[h].run].plan.version + 1, missing |-> missing,
           partial |-> request[h].plan.partial] \in Plan
      BY <3>2, <3>3 DEF Plan
    <3> QED
      BY <2>1, <3>1, <3>4 DEF TypeOK, Row
  <2> QED
    BY <1>6, <2>2, <2>3 DEF AnswerWrite, TypeOK
<1>7. ASSUME AnswerAfter(h) PROVE TypeOK'
  <2> DEFINE r == request[h].run
             state == AfterAnswers(run[r].plan)
  <2>1. r \in Runs
    BY <1>7, RequestRun DEF AnswerAfter
  <2>2. state \in {"awaiting_input", "awaiting_review", "queued"}
    BY <2>1, AfterAnswersType DEF TypeOK, Row
  <2>3. run' \in [Runs -> Row]
    BY <1>7, <2>1, <2>2, TransitionType DEF AnswerAfter
  <2>4. request' \in [Requests -> OpenRequest]
    <3>1. CASE state = "queued"
      BY <1>7, <2>1, <3>1, GotoType DEF AnswerAfter
    <3>2. CASE state # "queued"
      <4>1. ToRecord(h, state)
        BY <1>7, <3>2 DEF AnswerAfter
      <4> QED
        BY <2>1, <2>2, <4>1, ToRecordType
    <3> QED
      BY <3>1, <3>2
  <2> QED
    BY <1>7, <2>3, <2>4 DEF AnswerAfter, TypeOK
<1>8. ASSUME NEW r \in Runs, ApproveLoad(h, r) PROVE TypeOK'
  <2>1. request' \in [Requests -> OpenRequest]
    BY <1>8, LoadType DEF ApproveLoad
  <2> QED
    BY <1>8, <2>1 DEF ApproveLoad, TypeOK
<1>9. ASSUME ApproveWrite(h) PROVE TypeOK'
  <2> DEFINE r == request[h].run
  <2>1. r \in Runs
    BY <1>9, RequestRun DEF ApproveWrite
  <2>2. run' \in [Runs -> Row]
    BY <1>9, <2>1, TransitionType DEF ApproveWrite
  <2>3. request' \in [Requests -> OpenRequest]
    BY <1>9, <2>1, ToRecordType DEF ApproveWrite
  <2>4. ledger' \in [Runs -> History]
    <3>1. request[h].plan.version \in Nat
      BY DEF TypeOK, OpenRequest, Request, Plan
    <3>2. [ledger[r] EXCEPT !.approvals = @ + 1,
                            !.approvedPlans = @ \cup {request[h].plan.version}] \in History
      <4>1. ledger[r] \in History
        BY <2>1 DEF TypeOK
      <4>2. ledger[r].approvals + 1 \in Nat
        BY <4>1 DEF History
      <4>3. ledger[r].approvedPlans \cup {request[h].plan.version} \in SUBSET Nat
        BY <3>1, <4>1 DEF History
      <4> QED
        BY <4>1, <4>2, <4>3 DEF History
    <3>3. ledger' = [ledger EXCEPT ![r] = [ledger[r] EXCEPT !.approvals = @ + 1,
                            !.approvedPlans = @ \cup {request[h].plan.version}]]
      BY <1>9 DEF ApproveWrite, TypeOK
    <3> QED
      BY <3>2, <3>3 DEF TypeOK
  <2> QED
    BY <1>9, <2>2, <2>3, <2>4 DEF ApproveWrite, TypeOK
<1>10. ASSUME NEW r \in Runs, CancelLoad(h, r) PROVE TypeOK'
  <2>1. request' \in [Requests -> OpenRequest]
    BY <1>10, LoadType DEF CancelLoad
  <2> QED
    BY <1>10, <2>1 DEF CancelLoad, TypeOK
<1>11. ASSUME CancelWrite(h) PROVE TypeOK'
  <2>1. request[h].run \in Runs
    BY <1>11, RequestRun DEF CancelWrite
  <2>2. run' \in [Runs -> Row]
    BY <1>11, <2>1, TransitionType DEF CancelWrite
  <2>3. request' \in [Requests -> OpenRequest]
    BY <1>11, <2>1, ToRecordType DEF CancelWrite
  <2> QED
    BY <1>11, <2>2, <2>3 DEF CancelWrite, TypeOK
<1>12. ASSUME NEW r \in Runs, DoneLoad(h, r) PROVE TypeOK'
  <2>1. request' \in [Requests -> OpenRequest]
    BY <1>12, LoadType DEF DoneLoad
  <2> QED
    BY <1>12, <2>1 DEF DoneLoad, TypeOK
<1>13. ASSUME DoneWrite(h) PROVE TypeOK'
  <2> DEFINE r == request[h].run
  <2>1. r \in Runs
    BY <1>13, RequestRun DEF DoneWrite
  <2>2. CASE /\ run' = [run EXCEPT ![r] = [Moved(r, "done", request[h].nokey) EXCEPT
                                               !.submitted = TRUE]]
             /\ ToRecord(h, "submitted")
    <3>1. [Moved(r, "done", request[h].nokey) EXCEPT !.submitted = TRUE] \in Row
      <4>1. Moved(r, "done", request[h].nokey) \in Row
        BY <2>1, MovedType
      <4> QED
        BY <4>1 DEF Row
    <3>2. request' \in [Requests -> OpenRequest]
      BY <2>1, <2>2, ToRecordType
    <3> QED
      BY <1>13, <2>2, <3>1, <3>2 DEF DoneWrite, TypeOK
  <2>3. CASE Transition(r, "cancelled", request[h].nokey) /\ ToRecord(h, "cancelled")
    <3>1. run' \in [Runs -> Row]
      BY <2>1, <2>3, TransitionType
    <3>2. request' \in [Requests -> OpenRequest]
      BY <2>1, <2>3, ToRecordType
    <3> QED
      BY <1>13, <3>1, <3>2 DEF DoneWrite, TypeOK
  <2> QED
    BY <1>13, <2>2, <2>3 DEF DoneWrite
<1>14. ASSUME NEW r \in Runs, ClosedLoad(h, r) \/ BrowserLoad(h, r) PROVE TypeOK'
  <2>1. request' \in [Requests -> OpenRequest]
    BY <1>14, LoadType DEF ClosedLoad, BrowserLoad
  <2> QED
    BY <1>14, <2>1 DEF ClosedLoad, BrowserLoad, TypeOK
<1>15. ASSUME ClosedWrite(h) PROVE TypeOK'
  <2>1. request[h].run \in Runs
    BY <1>15, RequestRun DEF ClosedWrite
  <2>2. run' \in [Runs -> Row]
    BY <1>15, <2>1, TransitionType DEF ClosedWrite
  <2>3. request' \in [Requests -> OpenRequest]
    BY <1>15, FinishType DEF ClosedWrite
  <2> QED
    BY <1>15, <2>2, <2>3 DEF ClosedWrite, TypeOK
<1>16. ASSUME BrowserWrite(h) PROVE TypeOK'
  <2> DEFINE r == request[h].run
             key == r \in request[h].nokey \/ run[r].key
  <2>1. r \in Runs
    BY <1>16, RequestRun DEF BrowserWrite
  <2>2. request' \in [Requests -> OpenRequest]
    BY <1>16, FinishType DEF BrowserWrite
  <2>3. run' \in [Runs -> Row]
    <3>1. Moved(r, "in_browser", {}) \in Row /\ request[h].plan \in Plan
      BY <2>1, MovedType DEF TypeOK, OpenRequest, Request
    <3>2. Moved(r, "in_browser", {}).key = run[r].key
      BY <2>1 DEF Moved, TypeOK, Row
    <3>3. ASSUME NEW k \in BOOLEAN
          PROVE  [Moved(r, "in_browser", {}) EXCEPT !.key = k, !.plan = request[h].plan] \in Row
      BY <3>1 DEF Row
    <3>4. (r \in request[h].nokey \/ Moved(r, "in_browser", {}).key) \in BOOLEAN
      BY Zenon
    <3>5. [Moved(r, "in_browser", {}) EXCEPT
              !.key = r \in request[h].nokey \/ @, !.plan = request[h].plan] \in Row
      BY <3>3, <3>4
    <3>6. \/ UNCHANGED run
          \/ run' = [run EXCEPT ![r] = [Moved(r, "in_browser", {}) EXCEPT
                        !.key = r \in request[h].nokey \/ @, !.plan = request[h].plan]]
      BY <1>16 DEF BrowserWrite
    <3> QED
      BY <2>1, <3>5, <3>6 DEF TypeOK
  <2> QED
    BY <1>16, <2>2, <2>3 DEF BrowserWrite, TypeOK
<1>17. ASSUME NEW switch \in Switches, SwitchOff(h, switch) PROVE TypeOK'
  <2> DEFINE todo == {r \in Runs : Governs(switch, r)}
             next == [IdleRequest EXCEPT !.pc = "cancelling", !.op = switch, !.todo = todo,
                                         !.nokey = NoKey(todo)]
  <2>1. todo \in SUBSET Runs /\ NoKey(todo) \in SUBSET Runs
    BY DEF NoKey
  <2>2. next \in OpenRequest
    BY <2>1 DEF IdleRequest, OpenRequest, Request, EmptyPlan, Plan, Switches
  <2>3. request' = [request EXCEPT ![h] = next] /\ off' \in SUBSET Switches
    BY <1>17 DEF SwitchOff, TypeOK
  <2> QED
    BY <1>17, <2>2, <2>3 DEF SwitchOff, TypeOK
<1>18. ASSUME CancelNext(h) PROVE TypeOK'
  <2> DEFINE op == request[h].op
  <2>1. PICK q \in request[h].todo :
            /\ Transition(q, "cancelled", request[h].nokey)
            /\ request' = [request EXCEPT ![h].todo = @ \ {q}, ![h].nokey = {},
                   ![h].pc = IF op = "create" THEN @ ELSE "record",
                   ![h].run = IF op = "create" THEN @ ELSE q,
                   ![h].status = IF op = "create" THEN @ ELSE "cancelled"]
    BY <1>18 DEF CancelNext
  <2>2. request[h] \in OpenRequest /\ request[h] \in Request /\ q \in Runs
    BY DEF TypeOK, OpenRequest, Request
  <2>3. run' \in [Runs -> Row]
    BY <2>1, <2>2, TransitionType
  <2>4. request' \in [Requests -> OpenRequest]
    <3>1. CASE op = "create"
      <4> DEFINE next == [request[h] EXCEPT !.todo = @ \ {q}, !.nokey = {}]
      <4>1. next \in Request
        BY <2>2 DEF Request
      <4>2. /\ next.pc = request[h].pc /\ next.op = request[h].op
            /\ next.run = request[h].run /\ next.status = request[h].status
        BY <2>2 DEF Request
      <4>3. next \in OpenRequest
        BY <2>2, <4>1, <4>2 DEF OpenRequest
      <4>4. request' = [request EXCEPT ![h] = next]
        BY <2>1, <2>2, <3>1 DEF Request, TypeOK
      <4> QED
        BY <4>3, <4>4 DEF TypeOK
    <3>2. CASE op # "create"
      <4> DEFINE next == [request[h] EXCEPT !.todo = @ \ {q}, !.nokey = {}, !.pc = "record",
                                            !.run = q, !.status = "cancelled"]
      <4>1. next \in Request
        BY <2>2 DEF Request
      <4>2. next.pc = "record" /\ next.run = q
        BY <2>2 DEF Request
      <4>3. next \in OpenRequest
        BY <2>2, <4>1, <4>2 DEF OpenRequest
      <4>4. request' = [request EXCEPT ![h] = next]
        BY <2>1, <2>2, <3>2 DEF Request, TypeOK
      <4> QED
        BY <4>3, <4>4 DEF TypeOK
    <3> QED
      BY <3>1, <3>2
  <2> QED
    BY <1>18, <2>3, <2>4 DEF CancelNext, TypeOK
<1>19. ASSUME CancelledAll(h) PROVE TypeOK'
  <2>1. request' \in [Requests -> OpenRequest]
    <3>1. CASE request[h].op = "create"
      <4> DEFINE next == [request[h] EXCEPT !.pc = "insert"]
      <4>1. request[h] \in OpenRequest /\ request[h].pc = "cancelling"
        BY <1>19 DEF CancelledAll, TypeOK
      <4>2. request[h].run \in Runs /\ request[h].status \in {"queued", "in_browser"}
        BY <3>1, <4>1 DEF OpenRequest
      <4>3. next \in Request
        BY <4>1 DEF OpenRequest, Request
      <4>4. next \in OpenRequest
        BY <4>1, <4>2, <4>3 DEF OpenRequest, Request
      <4> QED
        BY <1>19, <3>1, <4>4 DEF CancelledAll, Goto, TypeOK
    <3> QED
      BY <1>19, <3>1, FinishType DEF CancelledAll
  <2> QED
    BY <1>19, <2>1 DEF CancelledAll, TypeOK
<1>20. ASSUME RequestRecord(h) PROVE TypeOK'
  <2>1. request[h].run \in Runs /\ request[h].status \in Statuses
    BY <1>20, RequestRun DEF RequestRecord, TypeOK, OpenRequest, Request
  <2>2. request' \in [Requests -> OpenRequest]
    <3>1. CASE Goto(h, "dispatch") \/ Goto(h, "apply")
      BY <2>1, <3>1, GotoType
    <3>2. CASE request[h].op \in Switches /\ Goto(h, "cancelling")
      BY <2>1, <3>2, GotoType DEF Switches
    <3>3. CASE Finish(h)
      BY <3>3, FinishType
    <3> QED
      BY <1>20, <3>1, <3>2, <3>3 DEF RequestRecord
  <2>3. tracker' \in [Jobs -> Statuses]
    BY <1>20, <2>1 DEF RequestRecord, TypeOK
  <2> QED
    BY <1>20, <2>2, <2>3 DEF RequestRecord, TypeOK
<1>21. ASSUME RequestApplied(h) PROVE TypeOK'
  BY <1>21, FinishType DEF RequestApplied, TypeOK
<1>22. ASSUME Dispatch(h) PROVE TypeOK'
  <2>1. request' \in [Requests -> OpenRequest]
    BY <1>22, FinishType DEF Dispatch
  <2>2. queue' \in [{"prepare", "submit"} -> [Runs -> Nat]]
    <3> DEFINE r == request[h].run
               approved == request[h].op = "approve"
               submit == [queue["submit"] EXCEPT ![r] = IF approved THEN @ + 1 ELSE @]
               prepare == [queue["prepare"] EXCEPT
                              ![r] = IF ~approved /\ run[r].state = "queued" THEN @ + 1 ELSE @]
    <3>1. queue["submit"] \in [Runs -> Nat] /\ queue["prepare"] \in [Runs -> Nat] /\ r \in Runs
      BY <1>22, RequestRun DEF TypeOK, Dispatch
    <3>2. submit \in [Runs -> Nat]
      BY <3>1
    <3>3. prepare \in [Runs -> Nat]
      BY <3>1
    <3>4. queue' = [queue EXCEPT !["submit"] = submit, !["prepare"] = prepare]
      BY <1>22 DEF Dispatch, TypeOK
    <3> QED
      BY <3>2, <3>3, <3>4 DEF TypeOK
  <2> QED
    BY <1>22, <2>1, <2>2 DEF Dispatch, TypeOK
<1>23. ASSUME RequestCrash(h) PROVE TypeOK'
  BY <1>23, FinishType DEF RequestCrash, TypeOK
<1> QED
  BY <1>1, <1>2, <1>3, <1>4, <1>5, <1>6, <1>7, <1>8, <1>9, <1>10, <1>11, <1>12, <1>13, <1>14,
     <1>15, <1>16, <1>17, <1>18, <1>19, <1>20, <1>21, <1>22, <1>23
  DEF RequestStarts, RequestContinues
\* So does a worker.
LEMMA WorkerType ==
    ASSUME TypeOK, NEW w \in Workers,
           TakesTask(w) \/ WorkerContinues(w) \/ RecordFails(w) \/ WorkerCrash(w)
    PROVE  TypeOK'
<1> USE DEF WorkerPcs, Statuses, ActiveStates, EndStates
<1> DEFINE r == worker[w].run
<1>1. ASSUME NEW q \in Runs, TakePrepare(w, q) PROVE TypeOK'
  <2>1. queue' \in [{"prepare", "submit"} -> [Runs -> Nat]]
    <3>1. queue["prepare"] \in [Runs -> Nat] /\ queue["prepare"][q] > 0
      BY <1>1 DEF TakePrepare, TypeOK
    <3>2. [queue["prepare"] EXCEPT ![q] = @ - 1] \in [Runs -> Nat]
      BY <3>1
    <3>3. queue' = [queue EXCEPT !["prepare"] = [queue["prepare"] EXCEPT ![q] = @ - 1]]
      BY <1>1 DEF TakePrepare, TypeOK
    <3> QED
      BY <3>2, <3>3 DEF TypeOK
  <2>2. worker' \in [Workers -> OpenTask]
    <3>1. CASE UNCHANGED worker
      BY <3>1 DEF TypeOK
    <3>2. CASE Take(w, "prepare", q, "begin", "preparing")
      BY <3>2, TakeType
    <3>3. CASE Take(w, "prepare", q, "stop", "cancelled")
      BY <3>3, TakeType
    <3> QED
      BY <1>1, <3>1, <3>2, <3>3 DEF TakePrepare
  <2> QED
    BY <1>1, <2>1, <2>2 DEF TakePrepare, TypeOK
<1>2. ASSUME NEW q \in Runs, TakeSubmit(w, q) PROVE TypeOK'
  <2>1. queue' \in [{"prepare", "submit"} -> [Runs -> Nat]]
    <3>1. queue["submit"] \in [Runs -> Nat] /\ queue["submit"][q] > 0
      BY <1>2 DEF TakeSubmit, TypeOK
    <3>2. [queue["submit"] EXCEPT ![q] = @ - 1] \in [Runs -> Nat]
      BY <3>1
    <3>3. queue' = [queue EXCEPT !["submit"] = [queue["submit"] EXCEPT ![q] = @ - 1]]
      BY <1>2 DEF TakeSubmit, TypeOK
    <3> QED
      BY <3>2, <3>3 DEF TypeOK
  <2>2. SubmitVerdict(q) \in {"cancelled", "needs_user", "awaiting_review", "submitting"}
    BY Zenon DEF SubmitVerdict
  <2>3. worker' \in [Workers -> OpenTask]
    <3>1. CASE UNCHANGED worker
      BY <3>1 DEF TypeOK
    <3>2. CASE Take(w, "submit", q, "fill", "none")
      BY <3>2, TakeType
    <3>3. CASE Take(w, "submit", q, "stop", SubmitVerdict(q))
      BY <2>2, <3>3, TakeType
    <3> QED
      BY <1>2, <3>1, <3>2, <3>3 DEF TakeSubmit
  <2> QED
    BY <1>2, <2>1, <2>3 DEF TakeSubmit, TypeOK
<1>3. ASSUME Begin(w) PROVE TypeOK'
  <2>1. r \in Runs /\ worker[w].status \in States
    BY <1>3 DEF Begin, TypeOK, OpenTask
  <2>2. run' \in [Runs -> Row]
    BY <1>3, <2>1, TransitionType DEF Begin
  <2>3. worker' \in [Workers -> OpenTask]
    BY <1>3, <2>1, WorkingType DEF Begin
  <2> QED
    BY <1>3, <2>2, <2>3 DEF Begin, TypeOK
<1>4. ASSUME NEW state \in States, Transition(r, state, {}), worker[w].pc # "idle",
             NEW pc \in {"record", "last"}, NEW status \in Statuses,
             WorkerToRecord(w, pc, status) \/ WorkerEnds(w),
             UNCHANGED <<off, queue, tracker, applied, request, ledger>>
      PROVE  TypeOK'
  <2>1. run' \in [Runs -> Row]
    BY <1>4, WorkerRun, TransitionType
  <2>2. worker' \in [Workers -> OpenTask]
    BY <1>4, WorkerRun, WorkerToRecordType, WorkerEndsType
  <2> QED
    BY <1>4, <2>1, <2>2 DEF TypeOK
<1>5. ASSUME FormStops(w) PROVE TypeOK'
  BY <1>4, <1>5 DEF FormStops
<1>6. ASSUME FormRead(w) PROVE TypeOK'
  <2>1. r \in Runs
    BY <1>6, WorkerRun DEF FormRead
  <2>2. PICK missing, partial \in BOOLEAN :
            run' = [run EXCEPT ![r].plan = [version |-> @.version + 1, missing |-> missing,
                                            partial |-> partial]]
    BY <1>6 DEF FormRead
  <2>3. run[r].plan \in Plan
    BY <2>1 DEF TypeOK, Row
  <2>4. [version |-> run[r].plan.version + 1, missing |-> missing, partial |-> partial] \in Plan
    BY <2>3 DEF Plan
  <2>5. run' \in [Runs -> Row]
    BY <2>1, <2>2, <2>4 DEF TypeOK, Row
  <2>6. worker' \in [Workers -> OpenTask]
    BY <1>6, <2>1, WorkingType DEF FormRead
  <2> QED
    BY <1>6, <2>5, <2>6 DEF FormRead, TypeOK
<1>7. ASSUME FormHandedOver(w) PROVE TypeOK'
  <2>1. CASE Transition(r, "failed", {}) /\ WorkerToRecord(w, "last", "failed")
    BY <1>4, <1>7, <2>1 DEF FormHandedOver
  <2>2. CASE /\ Transition(r, "needs_user", {})
             /\ \E status \in {"needs_user", "prefilled"} : WorkerToRecord(w, "record", status)
    BY <1>4, <1>7, <2>2 DEF FormHandedOver
  <2> QED
    BY <1>7, <2>1, <2>2 DEF FormHandedOver
<1>8. ASSUME FormAnswered(w) PROVE TypeOK'
  <2> DEFINE state == AfterAnswers(run[r].plan)
  <2>1. r \in Runs
    BY <1>8, WorkerRun DEF FormAnswered
  <2>2. state \in {"awaiting_input", "awaiting_review", "queued"}
    BY <2>1, AfterAnswersType DEF TypeOK, Row
  <2>3. \/ WorkerEnds(w)
        \/ WorkerToRecord(w, "record", state) \/ WorkerToRecord(w, "last", state)
    BY <1>8 DEF FormAnswered
  <2> HIDE DEF state
  <2> QED
    BY <1>4, <1>8, <2>2, <2>3 DEF FormAnswered, state
<1>9. ASSUME FormFilled(w) PROVE TypeOK'
  <2> DEFINE next == [worker[w] EXCEPT !.pc = "click", !.version = run[r].plan.version]
  <2>1. worker[w] \in Task /\ r \in Runs /\ run[r].plan.version \in Nat
    BY <1>9, WorkerRun DEF FormFilled, TypeOK, OpenTask, Row, Plan
  <2>2. next \in Task /\ next.pc = "click" /\ next.run = r
    BY <2>1 DEF Task
  <2>3. next \in OpenTask
    BY <2>1, <2>2 DEF OpenTask
  <2>4. worker' = [worker EXCEPT ![w] = next]
    BY <1>9 DEF FormFilled, TypeOK
  <2> QED
    BY <1>9, <2>3, <2>4 DEF FormFilled, TypeOK
<1>10. ASSUME SubmitStops(w) PROVE TypeOK'
  BY <1>4, <1>10 DEF SubmitStops
<1>11. ASSUME Send(w) PROVE TypeOK'
  <2>1. r \in Runs /\ worker[w].version \in Nat
    BY <1>11, WorkerRun DEF Send, TypeOK, OpenTask, Task
  <2>2. worker' \in [Workers -> OpenTask]
    BY <1>11, <2>1, WorkingType DEF Send
  <2>3. ledger' \in [Runs -> History]
    <3> DEFINE next == [ledger[r] EXCEPT !.sends = @ + 1,
                                         !.sentPlans = @ \cup {worker[w].version}]
    <3>1. ledger[r] \in History
      BY <2>1 DEF TypeOK
    <3>2. ledger[r].sends + 1 \in Nat
      BY <3>1 DEF History
    <3>3. ledger[r].sentPlans \cup {worker[w].version} \in SUBSET Nat
      BY <2>1, <3>1 DEF History
    <3>4. next \in History
      BY <3>1, <3>2, <3>3 DEF History
    <3>5. ledger' = [ledger EXCEPT ![r] = next]
      BY <1>11 DEF Send, TypeOK
    <3> QED
      BY <3>4, <3>5 DEF TypeOK
  <2> QED
    BY <1>11, <2>2, <2>3 DEF Send, TypeOK
<1>12. ASSUME Confirm(w) PROVE TypeOK'
  <2>1. r \in Runs
    BY <1>12, WorkerRun DEF Confirm
  <2>2. CASE /\ run' = [run EXCEPT ![r] = [Moved(r, "submitted", {}) EXCEPT !.submitted = TRUE]]
             /\ ledger' = [ledger EXCEPT ![r].confirmed = TRUE]
             /\ WorkerToRecord(w, "record", "submitted")
    <3>1. Moved(r, "submitted", {}) \in Row
      BY <2>1, MovedType
    <3>2. [Moved(r, "submitted", {}) EXCEPT !.submitted = TRUE] \in Row
      BY <3>1 DEF Row
    <3>3. ledger' \in [Runs -> History]
      BY <2>1, <2>2 DEF TypeOK, History
    <3>4. worker' \in [Workers -> OpenTask]
      BY <2>1, <2>2, WorkerToRecordType
    <3> QED
      BY <1>12, <2>2, <3>2, <3>3, <3>4 DEF Confirm, TypeOK
  <2>3. CASE /\ Transition(r, "needs_user", {}) /\ UNCHANGED ledger
             /\ WorkerToRecord(w, "record", "needs_user")
    BY <1>4, <1>12, <2>3 DEF Confirm
  <2> QED
    BY <1>12, <2>2, <2>3 DEF Confirm
<1>13. ASSUME WorkerRecord(w) PROVE TypeOK'
  <2>1. r \in Runs /\ worker[w].status \in Statuses
    BY <1>13, WorkerRun DEF WorkerRecord, TypeOK, OpenTask, Task
  <2>2. worker' \in [Workers -> OpenTask]
    BY <1>13, <2>1, WorkingType, WorkerEndsType DEF WorkerRecord
  <2>3. tracker' \in [Jobs -> Statuses]
    BY <1>13, <2>1 DEF WorkerRecord, TypeOK
  <2> QED
    BY <1>13, <2>2, <2>3 DEF WorkerRecord, TypeOK
<1>14. ASSUME WorkerApplied(w) PROVE TypeOK'
  BY <1>14, WorkerEndsType DEF WorkerApplied, TypeOK
<1>15. ASSUME RecordFails(w) PROVE TypeOK'
  BY <1>4, <1>15 DEF RecordFails
<1>16. ASSUME WorkerCrash(w) PROVE TypeOK'
  BY <1>16, WorkerEndsType DEF WorkerCrash, TypeOK
<1> QED
  BY <1>1, <1>2, <1>3, <1>5, <1>6, <1>7, <1>8, <1>9, <1>10, <1>11, <1>12, <1>13, <1>14, <1>15,
     <1>16
  DEF TakesTask, WorkerContinues

\* Every reachable table, queue and process is well formed, and every process
\* that works on something works on a run.
THEOREM TypeCorrect == Spec => []TypeOK
<1>1. TypeOK /\ [Next]_vars => TypeOK'
  <2> SUFFICES ASSUME TypeOK, [Next]_vars PROVE TypeOK'
    OBVIOUS
  <2>1. CASE UNCHANGED vars
    BY <2>1 DEF vars, TypeOK
  <2>2. ASSUME NEW switch \in Switches, SwitchOn(switch) PROVE TypeOK'
    BY <2>2 DEF SwitchOn, TypeOK
  <2> QED
    BY <2>1, <2>2, RequestType, WorkerType DEF Next
<1> QED
  BY InitType, <1>1, PTL DEF Spec

HIDE DEF States

----------------------------------------------------------------------------
(* What the building blocks of the actions leave behind *)

LEMMA KindsOfState ==
    /\ "queued" \in ActiveStates /\ "preparing" \in ActiveStates
    /\ "awaiting_input" \in ActiveStates /\ "awaiting_review" \in ActiveStates
    /\ "submitting" \in ActiveStates /\ "in_browser" \in ActiveStates
    /\ "submitted" \notin ActiveStates /\ "failed" \notin ActiveStates
    /\ "cancelled" \notin ActiveStates /\ "needs_user" \notin ActiveStates
    /\ "done" \notin ActiveStates
BY DEF ActiveStates

LEMMA TransitionIs ==
    ASSUME TypeOK, NEW r \in Runs, NEW state, NEW nokey, Transition(r, state, nokey)
    PROVE  /\ run'[r].state = state /\ run'[r].plan = run[r].plan
           /\ run'[r].submitted = run[r].submitted
           /\ state \in ActiveStates \/ r \in nokey => run'[r].key = run[r].key
           /\ state \notin ActiveStates /\ r \notin nokey => ~run'[r].key
           /\ run'[r].ended \in BOOLEAN
           /\ run'[r].ended <=> run[r].ended \/ state \notin ActiveStates
           /\ \A q \in Runs \ {r} : run'[q] = run[q]
BY DEF TypeOK, Transition, Moved, Row

LEMMA MovedIs ==
    ASSUME TypeOK, NEW r \in Runs, NEW state, NEW nokey
    PROVE  /\ DOMAIN Moved(r, state, nokey) = {"state", "key", "plan", "submitted", "ended"}
           /\ Moved(r, state, nokey).state = state
           /\ Moved(r, state, nokey).plan = run[r].plan
           /\ Moved(r, state, nokey).submitted = run[r].submitted
           /\ state \in ActiveStates \/ r \in nokey => Moved(r, state, nokey).key = run[r].key
           /\ state \notin ActiveStates /\ r \notin nokey => ~Moved(r, state, nokey).key
           /\ Moved(r, state, nokey).ended \in BOOLEAN
           /\ Moved(r, state, nokey).ended <=> run[r].ended \/ state \notin ActiveStates
BY DEF TypeOK, Moved, Row

\* A row that a user marks done, or takes back.
LEMMA DoneIs ==
    ASSUME TypeOK, NEW h \in Requests, DoneWrite(h)
    PROVE  LET r == request[h].run IN
           /\ r \in Runs
           /\ run'[r].state \in {"done", "cancelled"} /\ run'[r].plan = run[r].plan
           /\ run[r].submitted => run'[r].submitted
           /\ r \in request[h].nokey => run'[r].key = run[r].key
           /\ r \notin request[h].nokey => ~run'[r].key
           /\ run'[r].ended
           /\ \A q \in Runs \ {r} : run'[q] = run[q]
<1> DEFINE r == request[h].run
           nokey == request[h].nokey
<1>1. r \in Runs
  BY RequestRun DEF DoneWrite
<1>2. CASE Transition(r, "cancelled", nokey)
  BY <1>1, <1>2, TransitionIs, KindsOfState
<1>3. CASE run' = [run EXCEPT ![r] = [Moved(r, "done", nokey) EXCEPT !.submitted = TRUE]]
  <2> DEFINE moved == Moved(r, "done", nokey)
  <2>1. /\ DOMAIN moved = {"state", "key", "plan", "submitted", "ended"}
        /\ moved.state = "done" /\ moved.plan = run[r].plan
        /\ r \in nokey => moved.key = run[r].key
        /\ r \notin nokey => ~moved.key
        /\ moved.ended
    BY <1>1, MovedIs, KindsOfState
  <2>2. run'[r] = [moved EXCEPT !.submitted = TRUE] /\ \A q \in Runs \ {r} : run'[q] = run[q]
    BY <1>1, <1>3 DEF TypeOK
  <2> HIDE DEF moved
  <2>3. /\ run'[r].state = moved.state /\ run'[r].plan = moved.plan /\ run'[r].key = moved.key
        /\ run'[r].ended = moved.ended /\ run'[r].submitted
    BY <2>1, <2>2
  <2> QED
    BY <1>1, <2>1, <2>2, <2>3
<1> QED
  BY <1>2, <1>3 DEF DoneWrite

\* A row that goes to the user's browser, unless another run has its job.
LEMMA BrowserIs ==
    ASSUME TypeOK, NEW h \in Requests, BrowserWrite(h)
    PROVE  LET r == request[h].run IN
           /\ r \in Runs
           /\ \/ UNCHANGED run
              \/ /\ run'[r].state = "in_browser" /\ run'[r].plan = request[h].plan
                 /\ run'[r].submitted = run[r].submitted /\ run'[r].ended = run[r].ended
                 /\ run'[r].key = (r \in request[h].nokey \/ run[r].key)
                 /\ \A q \in Runs \ {r} : run'[q] = run[q]
<1> DEFINE r == request[h].run
           moved == Moved(r, "in_browser", {})
<1>1. r \in Runs
  BY RequestRun DEF BrowserWrite
<1>2. CASE run' = [run EXCEPT ![r] = [moved EXCEPT !.key = r \in request[h].nokey \/ @,
                                                   !.plan = request[h].plan]]
  <2>1. /\ DOMAIN moved = {"state", "key", "plan", "submitted", "ended"}
        /\ moved.state = "in_browser" /\ moved.key = run[r].key
        /\ moved.submitted = run[r].submitted
    BY <1>1, MovedIs, KindsOfState
  <2>2. moved.ended = run[r].ended
    <3>1. moved.ended \in BOOLEAN /\ (moved.ended <=> run[r].ended)
      BY <1>1, MovedIs, KindsOfState
    <3>2. run[r].ended \in BOOLEAN
      BY <1>1 DEF TypeOK, Row
    <3> QED
      BY <3>1, <3>2 DEF ActiveStates
  <2>3. /\ run'[r] = [moved EXCEPT !.key = r \in request[h].nokey \/ @,
                                   !.plan = request[h].plan]
        /\ \A q \in Runs \ {r} : run'[q] = run[q]
    BY <1>1, <1>2 DEF TypeOK
  <2> HIDE DEF moved
  <2>4. /\ run'[r].state = moved.state /\ run'[r].plan = request[h].plan
        /\ run'[r].key = (r \in request[h].nokey \/ moved.key)
        /\ run'[r].ended = moved.ended /\ run'[r].submitted = moved.submitted
    BY <2>1, <2>3
  <2> QED
    BY <1>1, <2>1, <2>2, <2>3, <2>4
<1> QED
  BY <1>1, <1>2 DEF BrowserWrite

\* What a worker leaves behind that waited for the employer's answer.
LEMMA ConfirmIs ==
    ASSUME TypeOK, NEW w \in Workers, Confirm(w)
    PROVE  LET r == worker[w].run IN
           /\ r \in Runs
           /\ run'[r].state \in {"submitted", "needs_user"} /\ run'[r].plan = run[r].plan
           /\ run[r].submitted => run'[r].submitted
           /\ run'[r].state = "submitted" => run'[r].submitted
           /\ ~run'[r].key /\ run'[r].ended
           /\ \A q \in Runs \ {r} : run'[q] = run[q]
           /\ \/ UNCHANGED ledger
              \/ run'[r].state = "submitted" /\ ledger' = [ledger EXCEPT ![r].confirmed = TRUE]
<1> DEFINE r == worker[w].run
           moved == Moved(r, "submitted", {})
<1>1. r \in Runs
  BY WorkerRun DEF Confirm
<1>2. CASE Transition(r, "needs_user", {}) /\ UNCHANGED ledger
  BY <1>1, <1>2, TransitionIs, KindsOfState
<1>3. CASE /\ run' = [run EXCEPT ![r] = [moved EXCEPT !.submitted = TRUE]]
           /\ ledger' = [ledger EXCEPT ![r].confirmed = TRUE]
  <2>1. /\ DOMAIN moved = {"state", "key", "plan", "submitted", "ended"}
        /\ moved.state = "submitted" /\ moved.plan = run[r].plan /\ ~moved.key /\ moved.ended
    BY <1>1, MovedIs, KindsOfState
  <2>2. run'[r] = [moved EXCEPT !.submitted = TRUE] /\ \A q \in Runs \ {r} : run'[q] = run[q]
    BY <1>1, <1>3 DEF TypeOK
  <2> HIDE DEF moved
  <2>3. /\ run'[r].state = moved.state /\ run'[r].plan = moved.plan /\ run'[r].key = moved.key
        /\ run'[r].ended = moved.ended /\ run'[r].submitted
    BY <2>1, <2>2
  <2> QED
    BY <1>1, <1>3, <2>1, <2>2, <2>3
<1> QED
  BY <1>2, <1>3 DEF Confirm

\* What a started request keeps until it ends.
SameErrand(h) ==
    /\ request'[h].op = request[h].op /\ request'[h].run = request[h].run
    /\ request'[h].todo = request[h].todo /\ request'[h].nokey = request[h].nokey
    /\ request'[h].plan = request[h].plan

\* A request goes on to another place with its errand, or ends.
Proceeds(h, pc) ==
    /\ \/ SameErrand(h) /\ request'[h].pc = pc
       \/ request'[h] = IdleRequest
    /\ \A g \in Requests \ {h} : request'[g] = request[g]

LEMMA Proceeding ==
    ASSUME TypeOK, NEW h \in Requests, NEW pc, NEW status
    PROVE  /\ Goto(h, pc) => Proceeds(h, pc)
           /\ ToRecord(h, status) => Proceeds(h, "record")
           /\ Finish(h) => Proceeds(h, pc)
<1>1. request \in [Requests -> Request]
  BY DEF TypeOK, OpenRequest
<1>2. ASSUME Goto(h, pc) PROVE Proceeds(h, pc)
  BY <1>1, <1>2 DEF Goto, Request, Proceeds, SameErrand
<1>3. ASSUME ToRecord(h, status) PROVE Proceeds(h, "record")
  BY <1>1, <1>3 DEF ToRecord, Request, Proceeds, SameErrand
<1>4. ASSUME Finish(h) PROVE Proceeds(h, pc)
  BY <1>1, <1>4 DEF Finish, Proceeds
<1> QED
  BY <1>2, <1>3, <1>4

LEMMA LoadIs ==
    ASSUME TypeOK, NEW h \in Requests, NEW op, NEW r, NEW pc, NEW status, NEW todo,
           Load(h, op, r, pc, status, todo)
    PROVE  /\ request[h].pc = "idle" /\ op \in Ops
           /\ request'[h] = [pc |-> pc, op |-> op, run |-> r, todo |-> todo,
                             nokey |-> NoKey({r} \cup todo), plan |-> run[r].plan,
                             status |-> status]
           /\ \A g \in Requests \ {h} : request'[g] = request[g]
BY DEF TypeOK, Load

\* A worker goes on with its task, or is done with it.
Advances(w, pc) ==
    /\ \/ /\ worker'[w].task = worker[w].task /\ worker'[w].run = worker[w].run
          /\ worker'[w].nokey = worker[w].nokey /\ worker'[w].version = worker[w].version
          /\ worker'[w].pc = pc
       \/ worker'[w] = IdleWorker
    /\ \A v \in Workers \ {w} : worker'[v] = worker[v]

LEMMA Advancing ==
    ASSUME TypeOK, NEW w \in Workers, NEW pc, NEW status
    PROVE  /\ Working(w, pc) => Advances(w, pc) /\ worker'[w].status = worker[w].status
           /\ WorkerToRecord(w, pc, status) => Advances(w, pc) /\ worker'[w].status = status
           /\ WorkerEnds(w) => Advances(w, pc) /\ worker'[w] = IdleWorker
<1>1. worker \in [Workers -> Task]
  BY DEF TypeOK, OpenTask
<1>2. ASSUME Working(w, pc) PROVE Advances(w, pc) /\ worker'[w].status = worker[w].status
  BY <1>1, <1>2 DEF Working, Task, Advances
<1>3. ASSUME WorkerToRecord(w, pc, status) PROVE Advances(w, pc) /\ worker'[w].status = status
  BY <1>1, <1>3 DEF WorkerToRecord, Task, Advances
<1>4. ASSUME WorkerEnds(w) PROVE Advances(w, pc) /\ worker'[w] = IdleWorker
  BY <1>1, <1>4 DEF WorkerEnds, Advances
<1> QED
  BY <1>2, <1>3, <1>4

LEMMA TakeIs ==
    ASSUME TypeOK, NEW w \in Workers, NEW task, NEW r, NEW pc, NEW status,
           Take(w, task, r, pc, status)
    PROVE  /\ worker'[w] = [pc |-> pc, task |-> task, run |-> r, nokey |-> NoKey({r}),
                            version |-> 0, status |-> status]
           /\ \A v \in Workers \ {w} : worker'[v] = worker[v]
BY DEF TypeOK, Take

----------------------------------------------------------------------------
(* Rows: what requests and workers know of the runs they are about *)

\* A request that is going to insert the row of its run.
Creating(h) ==
    request[h].pc = "insert" \/ (request[h].op = "create" /\ request[h].pc = "cancelling")

\* What was loaded is there: rows are never deleted.
RowsKnown ==
    /\ \A h \in Requests :
         /\ request[h].pc \notin {"idle", "cancelling", "insert"} =>
                run[request[h].run].state # "none"
         /\ \A q \in request[h].todo : run[q].state # "none"
         /\ request[h].pc \in {"insert", "created"} => request[h].op = "create"
    /\ \A w \in Workers : worker[w].pc # "idle" => run[worker[w].run].state # "none"

\* A row that is going to be inserted is not there, and nobody else inserts it.
RowsFresh ==
    \A h \in Requests : Creating(h) =>
        /\ run[request[h].run].state = "none"
        /\ \A g \in Requests : Creating(g) /\ request[g].run = request[h].run => g = h

Rows == RowsKnown /\ RowsFresh

\* No row comes or goes.
SameRows == \A q \in Runs : run'[q].state = "none" <=> run[q].state = "none"

LEMMA WrittenRows ==
    ASSUME NEW r \in Runs, run[r].state # "none", run'[r].state # "none",
           \A q \in Runs \ {r} : run'[q] = run[q]
    PROVE  SameRows
BY DEF SameRows

\* A transition of a run whose row is there.
LEMMA TransitionRows ==
    ASSUME TypeOK, NEW r \in Runs, run[r].state # "none", NEW state \in States, NEW nokey,
           Transition(r, state, nokey)
    PROVE  SameRows
BY TransitionIs, WrittenRows DEF States, ActiveStates, EndStates

LEMMA RowsKept ==
    ASSUME TypeOK, Rows, SameRows, UNCHANGED <<request, worker>>
    PROVE  Rows'
BY DEF TypeOK, OpenRequest, Request, OpenTask, Rows, RowsKnown, RowsFresh, Creating, SameRows

\* A request that has a row goes on.
LEMMA RowsProceed ==
    ASSUME TypeOK, Rows, SameRows, NEW h \in Requests, NEW pc,
           pc \notin {"insert", "created"}, pc = "cancelling" => request[h].op # "create",
           request[h].pc \notin {"idle", "cancelling", "insert"}
               \/ (request[h].pc = "cancelling" /\ pc = "idle"),
           Proceeds(h, pc), UNCHANGED worker
    PROVE  Rows'
<1>1. \A g \in Requests : request[g].todo \in SUBSET Runs
  BY DEF TypeOK, OpenRequest, Request
<1>2. \A g \in Requests : request[g].pc \notin {"idle", "cancelling"} \/ Creating(g) =>
          request[g].run \in Runs
  BY DEF TypeOK, OpenRequest, Creating
<1>3. \A w \in Workers : worker[w].pc # "idle" => worker[w].run \in Runs
  BY DEF TypeOK, OpenTask
<1>4. IdleRequest.pc = "idle" /\ IdleRequest.todo = {} /\ IdleRequest.op = "none"
  BY DEF IdleRequest
<1>5. \A g \in Requests : Creating(g)' => Creating(g) /\ request'[g].run = request[g].run
  BY <1>4 DEF Creating, Proceeds, SameErrand, Rows, RowsKnown
<1>6. RowsFresh'
  BY <1>2, <1>5 DEF Rows, RowsFresh, SameRows
<1>7. \A g \in Requests : request'[g].todo \subseteq request[g].todo
  BY <1>4 DEF Proceeds, SameErrand
<1>8. \A g \in Requests : request'[g].pc \notin {"idle", "cancelling", "insert"} =>
          /\ request[g].pc \notin {"idle", "cancelling", "insert"}
          /\ request'[g].run = request[g].run
  BY <1>4 DEF Proceeds, SameErrand
<1>9. \A g \in Requests : request'[g].pc \in {"insert", "created"} =>
          request[g].pc = request'[g].pc /\ request'[g].op = request[g].op
  BY <1>4 DEF Proceeds, SameErrand
<1>10. RowsKnown'
  BY <1>1, <1>2, <1>3, <1>7, <1>8, <1>9 DEF Rows, RowsKnown, SameRows
<1> QED
  BY <1>6, <1>10 DEF Rows

\* A request loads a row that is there.
LEMMA RowsLoad ==
    ASSUME TypeOK, Rows, NEW h \in Requests, NEW op, NEW r \in Runs, run[r].state # "none",
           op # "create", Load(h, op, r, "write", "none", {}), UNCHANGED <<run, worker>>
    PROVE  Rows'
<1>1. /\ request'[h].pc = "write" /\ request'[h].op = op /\ request'[h].run = r
      /\ request'[h].todo = {}
      /\ \A g \in Requests \ {h} : request'[g] = request[g]
  BY DEF TypeOK, Load
<1>2. RowsKnown'
  BY <1>1 DEF Rows, RowsKnown
<1>3. \A g \in Requests : Creating(g)' => Creating(g) /\ request'[g].run = request[g].run
  BY <1>1 DEF Creating
<1>4. RowsFresh'
  BY <1>3 DEF Rows, RowsFresh
<1> QED
  BY <1>2, <1>4 DEF Rows

\* A request starts to create a row that is not there.
LEMMA RowsCreate ==
    ASSUME TypeOK, Rows, NEW h \in Requests, NEW r \in Runs, run[r].state = "none",
           \A g \in Requests : request[g].run # r,
           NEW pc \in {"insert", "cancelling"}, NEW status, NEW todo \in SUBSET Runs,
           \A q \in todo : run[q].state # "none",
           Load(h, "create", r, pc, status, todo), UNCHANGED <<run, worker>>
    PROVE  Rows'
<1>1. /\ request'[h].pc = pc /\ request'[h].op = "create" /\ request'[h].run = r
      /\ request'[h].todo = todo
      /\ \A g \in Requests \ {h} : request'[g] = request[g]
  BY DEF TypeOK, Load
<1> QED
  BY <1>1 DEF Rows, RowsKnown, RowsFresh, Creating

\* A worker goes on with a run whose row is there.
LEMMA RowsAdvance ==
    ASSUME TypeOK, Rows, SameRows, NEW w \in Workers, NEW pc, worker[w].pc # "idle",
           Advances(w, pc), UNCHANGED request
    PROVE  Rows'
<1>1. \A g \in Requests : request[g].todo \in SUBSET Runs
  BY DEF TypeOK, OpenRequest, Request
<1>2. \A g \in Requests : request[g].pc \notin {"idle", "cancelling"} \/ Creating(g) =>
          request[g].run \in Runs
  BY DEF TypeOK, OpenRequest, Creating
<1>3. \A v \in Workers : worker[v].pc # "idle" => worker[v].run \in Runs
  BY DEF TypeOK, OpenTask
<1>4. IdleWorker.pc = "idle"
  BY DEF IdleWorker
<1> QED
  BY <1>1, <1>2, <1>3, <1>4 DEF Rows, RowsKnown, RowsFresh, Creating, SameRows, Advances

LEMMA InitRows == Init => Rows
BY DEF Init, Rows, RowsKnown, RowsFresh, Creating, IdleRequest, IdleWorker

\* A request inserts only a row that nobody has, and writes rows that are there.
LEMMA RequestRows ==
    ASSUME TypeOK, Rows, NEW h \in Requests,
           RequestStarts(h) \/ RequestContinues(h) \/ RequestCrash(h)
    PROVE  Rows'
<1> USE DEF ActiveStates
<1> DEFINE r == request[h].run
<1>1. ASSUME NEW q \in Runs, CreateCheck(h, q) PROVE Rows'
  BY <1>1, RowsCreate DEF CreateCheck
<1>2. ASSUME NEW q \in Runs, CreateInBrowserCheck(h, q) PROVE Rows'
  <2>1. PICK stale \in SUBSET {p \in SameJob(q) : run[p].state = "in_browser" /\ run[p].key} :
            Load(h, "create", q, "cancelling", "in_browser", stale)
    BY <1>2 DEF CreateInBrowserCheck
  <2>2. stale \in SUBSET Runs /\ \A p \in stale : run[p].state # "none"
    BY <2>1 DEF SameJob
  <2> QED
    BY <1>2, <2>1, <2>2, RowsCreate DEF CreateInBrowserCheck
<1>3. ASSUME CreateInsert(h) PROVE Rows'
  <2>1. /\ r \in Runs /\ request[h].status \in {"queued", "in_browser"}
        /\ request[h].pc = "insert" /\ request[h].op = "create" /\ Creating(h)
    BY <1>3 DEF CreateInsert, TypeOK, OpenRequest, Rows, RowsKnown, Creating
  <2>2. \A g \in Requests : request[g].todo \in SUBSET Runs
    BY DEF TypeOK, OpenRequest, Request
  <2>3. \A g \in Requests : request[g].pc \notin {"idle", "cancelling"} \/ Creating(g) =>
            request[g].run \in Runs
    BY DEF TypeOK, OpenRequest, Creating
  <2>4. \A w \in Workers : worker[w].pc # "idle" => worker[w].run \in Runs
    BY DEF TypeOK, OpenTask
  <2>5. Proceeds(h, "created")
    BY <1>3, Proceeding DEF CreateInsert
  <2>6. IdleRequest.pc = "idle" /\ IdleRequest.todo = {} /\ IdleRequest.op = "none"
    BY DEF IdleRequest
  <2>7. \A g \in Requests : Creating(g)' =>
            g # h /\ Creating(g) /\ request'[g].run = request[g].run /\ request[g].run # r
    BY <2>1, <2>5, <2>6 DEF Creating, Proceeds, SameErrand, Rows, RowsFresh
  <2>8. CASE /\ UNCHANGED run
             /\ Finish(h)
    <3>1. Proceeds(h, "idle")
      BY <2>8, Proceeding
    <3>2. request'[h] = IdleRequest
      BY <2>8 DEF Finish, TypeOK
    <3>3. RowsKnown'
      BY <1>3, <2>8, <3>1, <3>2, <2>6 DEF CreateInsert, Rows, RowsKnown, Proceeds
    <3>4. RowsFresh'
      BY <2>7, <2>8 DEF Rows, RowsFresh
    <3> QED
      BY <3>3, <3>4 DEF Rows
  <2>9. CASE run' = [run EXCEPT ![r] = [NoRow EXCEPT !.state = request[h].status, !.key = TRUE]]
    <3>1. /\ run'[r].state # "none"
          /\ \A q \in Runs \ {r} : run'[q] = run[q]
      BY <2>1, <2>9 DEF TypeOK, NoRow
    <3>2. RowsKnown'
      BY <1>3, <2>1, <2>2, <2>3, <2>4, <2>5, <2>6, <3>1
      DEF CreateInsert, Rows, RowsKnown, Proceeds, SameErrand
    <3>3. RowsFresh'
      BY <2>3, <2>7, <3>1 DEF Rows, RowsFresh
    <3> QED
      BY <3>2, <3>3 DEF Rows
  <2> QED
    BY <1>3, <2>8, <2>9 DEF CreateInsert
<1>4. ASSUME request[h].pc \notin {"idle", "cancelling", "insert"},
             NEW state \in States, NEW nokey, Transition(r, state, nokey),
             NEW pc \in {"record", "dispatch", "idle"}, Proceeds(h, pc), UNCHANGED worker
      PROVE  Rows'
  <2>1. r \in Runs /\ run[r].state # "none"
    BY <1>4, RequestRun DEF Rows, RowsKnown
  <2>2. SameRows
    BY <1>4, <2>1, TransitionRows
  <2> QED
    BY <1>4, <2>2, RowsProceed
<1>5. ASSUME CreateConfirm(h) PROVE Rows'
  <2>1. request[h].status \in States
    BY <1>5 DEF CreateConfirm, TypeOK, OpenRequest, States
  <2>2. Proceeds(h, "record")
    BY <1>5, Proceeding DEF CreateConfirm
  <2> QED
    BY <1>4, <1>5, <2>1, <2>2 DEF CreateConfirm
<1>6. ASSUME NEW q \in Runs,
             AnswerLoad(h, q) \/ ApproveLoad(h, q) \/ CancelLoad(h, q) \/ DoneLoad(h, q)
                 \/ ClosedLoad(h, q) \/ BrowserLoad(h, q)
      PROVE  Rows'
  BY <1>6, RowsLoad DEF AnswerLoad, ApproveLoad, CancelLoad, DoneLoad, ClosedLoad, BrowserLoad
<1>7. ASSUME AnswerWrite(h) PROVE Rows'
  <2>1. r \in Runs /\ run[r].state # "none"
    BY <1>7, RequestRun DEF AnswerWrite, Rows, RowsKnown
  <2>2. run'[r].state = run[r].state /\ \A q \in Runs \ {r} : run'[q] = run[q]
    BY <1>7, <2>1 DEF AnswerWrite, TypeOK, Row
  <2>3. SameRows
    BY <2>1, <2>2, WrittenRows
  <2>4. Proceeds(h, "after")
    BY <1>7, Proceeding DEF AnswerWrite
  <2> QED
    BY <1>7, <2>3, <2>4, RowsProceed DEF AnswerWrite
<1>8. ASSUME AnswerAfter(h) PROVE Rows'
  <2> DEFINE state == AfterAnswers(run[r].plan)
  <2>1. r \in Runs /\ run[r].plan \in Plan
    BY <1>8, RequestRun DEF AnswerAfter, TypeOK, Row
  <2>2. state \in States
    BY <2>1, AfterAnswersType DEF States
  <2>3. Proceeds(h, "dispatch") \/ Proceeds(h, "record")
    BY <1>8, Proceeding DEF AnswerAfter
  <2>4. Transition(r, state, {}) /\ UNCHANGED worker
    BY <1>8 DEF AnswerAfter
  <2> HIDE DEF state
  <2> QED
    BY <1>4, <1>8, <2>2, <2>3, <2>4 DEF AnswerAfter
<1>9. ASSUME ApproveWrite(h) \/ CancelWrite(h) \/ ClosedWrite(h) PROVE Rows'
  <2>1. Proceeds(h, "record") \/ Proceeds(h, "idle")
    BY <1>9, Proceeding DEF ApproveWrite, CancelWrite, ClosedWrite
  <2>2. \E state \in States : \E nokey : Transition(r, state, nokey)
    BY <1>9 DEF ApproveWrite, CancelWrite, ClosedWrite, States, EndStates
  <2>3. request[h].pc = "write" /\ UNCHANGED worker
    BY <1>9 DEF ApproveWrite, CancelWrite, ClosedWrite
  <2> QED
    BY <1>4, <2>1, <2>2, <2>3
<1>10. ASSUME DoneWrite(h) PROVE Rows'
  <2>1. r \in Runs /\ run[r].state # "none"
    BY <1>10, RequestRun DEF DoneWrite, Rows, RowsKnown
  <2>2. run'[r].state # "none" /\ \A q \in Runs \ {r} : run'[q] = run[q]
    BY <1>10, DoneIs
  <2>3. SameRows
    BY <2>1, <2>2, WrittenRows
  <2>4. Proceeds(h, "record")
    BY <1>10, Proceeding DEF DoneWrite
  <2> QED
    BY <1>10, <2>3, <2>4, RowsProceed DEF DoneWrite
<1>11. ASSUME BrowserWrite(h) PROVE Rows'
  <2>1. r \in Runs /\ run[r].state # "none"
    BY <1>11, RequestRun DEF BrowserWrite, Rows, RowsKnown
  <2>2. run'[r].state # "none" /\ \A q \in Runs \ {r} : run'[q] = run[q]
    BY <1>11, <2>1, BrowserIs
  <2>3. SameRows
    BY <2>1, <2>2, WrittenRows
  <2>4. Proceeds(h, "idle")
    BY <1>11, Proceeding DEF BrowserWrite
  <2> QED
    BY <1>11, <2>3, <2>4, RowsProceed DEF BrowserWrite
<1>12. ASSUME NEW switch \in Switches, SwitchOff(h, switch) PROVE Rows'
  <2>1. /\ request'[h].pc = "cancelling" /\ request'[h].op = switch
        /\ request'[h].todo = {q \in Runs : Governs(switch, q)}
        /\ \A g \in Requests \ {h} : request'[g] = request[g]
    BY <1>12 DEF SwitchOff, TypeOK, IdleRequest
  <2>2. switch # "create" /\ UNCHANGED <<run, worker>>
    BY <1>12 DEF SwitchOff, Switches
  <2>3. \A q \in Runs : Governs(switch, q) => run[q].state # "none"
    BY DEF Governs, Switches
  <2>4. RowsKnown'
    BY <2>1, <2>2, <2>3 DEF Rows, RowsKnown
  <2>5. \A g \in Requests : Creating(g)' => Creating(g) /\ request'[g].run = request[g].run
    BY <2>1, <2>2 DEF Creating
  <2>6. RowsFresh'
    BY <2>2, <2>5 DEF Rows, RowsFresh
  <2> QED
    BY <2>4, <2>6 DEF Rows
<1>13. ASSUME CancelNext(h) PROVE Rows'
  <2> DEFINE op == request[h].op
  <2>1. PICK q \in request[h].todo :
            /\ Transition(q, "cancelled", request[h].nokey)
            /\ request' = [request EXCEPT ![h].todo = @ \ {q}, ![h].nokey = {},
                   ![h].pc = IF op = "create" THEN @ ELSE "record",
                   ![h].run = IF op = "create" THEN @ ELSE q,
                   ![h].status = IF op = "create" THEN @ ELSE "cancelled"]
    BY <1>13 DEF CancelNext
  <2>2. /\ q \in Runs /\ run[q].state # "none"
        /\ request[h].pc = "cancelling" /\ UNCHANGED worker
    BY <1>13, <2>1 DEF CancelNext, TypeOK, OpenRequest, Request, Rows, RowsKnown
  <2>3. SameRows
    BY <2>1, <2>2, TransitionRows DEF States, EndStates
  <2>4. /\ request'[h].op = op /\ request'[h].todo \subseteq request[h].todo
        /\ \/ op = "create" /\ request'[h].pc = "cancelling" /\ request'[h].run = r
           \/ op # "create" /\ request'[h].pc = "record" /\ request'[h].run = q
        /\ \A g \in Requests \ {h} : request'[g] = request[g]
    BY <2>1, <2>2 DEF TypeOK, OpenRequest, Request
  <2>5. \A g \in Requests : request[g].todo \in SUBSET Runs
    BY DEF TypeOK, OpenRequest, Request
  <2>6. \A g \in Requests : request[g].pc \notin {"idle", "cancelling"} \/ Creating(g) =>
            request[g].run \in Runs
    BY DEF TypeOK, OpenRequest, Creating
  <2>7. \A w \in Workers : worker[w].pc # "idle" => worker[w].run \in Runs
    BY DEF TypeOK, OpenTask
  <2>8. RowsKnown'
    BY <2>2, <2>3, <2>4, <2>5, <2>6, <2>7 DEF Rows, RowsKnown, SameRows
  <2>9. \A g \in Requests : Creating(g)' => Creating(g) /\ request'[g].run = request[g].run
    BY <2>2, <2>4 DEF Creating
  <2>10. RowsFresh'
    BY <2>3, <2>6, <2>9 DEF Rows, RowsFresh, SameRows
  <2> QED
    BY <2>8, <2>10 DEF Rows
<1>14. ASSUME CancelledAll(h) PROVE Rows'
  <2>1. SameRows /\ request[h].pc = "cancelling" /\ UNCHANGED <<run, worker>>
    BY <1>14 DEF CancelledAll, SameRows
  <2>2. CASE Goto(h, "insert") /\ request[h].op = "create"
    <3>1. Proceeds(h, "insert") /\ request'[h].pc = "insert" /\ SameErrand(h)
      <4>1. request \in [Requests -> Request]
        BY DEF TypeOK, OpenRequest
      <4> QED
        BY <2>2, <4>1 DEF Goto, Request, Proceeds, SameErrand
    <3>2. \A g \in Requests : Creating(g)' => Creating(g) /\ request'[g].run = request[g].run
      BY <2>1, <2>2, <3>1 DEF Creating, Proceeds, SameErrand
    <3>3. RowsFresh'
      BY <2>1, <3>2 DEF Rows, RowsFresh
    <3>4. RowsKnown'
      BY <2>1, <2>2, <3>1 DEF Rows, RowsKnown, Proceeds, SameErrand
    <3> QED
      BY <3>3, <3>4 DEF Rows
  <2>3. CASE Finish(h)
    <3>1. Proceeds(h, "idle")
      BY <2>3, Proceeding
    <3> QED
      BY <2>1, <3>1, RowsProceed
  <2> QED
    BY <1>14, <2>2, <2>3 DEF CancelledAll
<1>15. ASSUME RequestRecord(h) PROVE Rows'
  <2>1. \/ Proceeds(h, "dispatch") \/ Proceeds(h, "apply")
        \/ Proceeds(h, "cancelling") /\ request[h].op # "create"
    BY <1>15, Proceeding DEF RequestRecord, Switches
  <2>2. SameRows
    BY <1>15 DEF RequestRecord, SameRows
  <2> QED
    BY <1>15, <2>1, <2>2, RowsProceed DEF RequestRecord
<1>16. ASSUME RequestApplied(h) \/ Dispatch(h) PROVE Rows'
  <2>1. Proceeds(h, "idle") /\ SameRows
    BY <1>16, Proceeding DEF RequestApplied, Dispatch, SameRows
  <2> QED
    BY <1>16, <2>1, RowsProceed DEF RequestApplied, Dispatch
<1>17. ASSUME RequestCrash(h) PROVE Rows'
  <2>1. /\ request'[h] = IdleRequest /\ UNCHANGED <<run, worker>>
        /\ \A g \in Requests \ {h} : request'[g] = request[g]
    BY <1>17 DEF RequestCrash, Finish, TypeOK
  <2>2. IdleRequest.pc = "idle" /\ IdleRequest.todo = {} /\ IdleRequest.op = "none"
    BY DEF IdleRequest
  <2>3. RowsKnown'
    BY <2>1, <2>2 DEF Rows, RowsKnown
  <2>4. \A g \in Requests : Creating(g)' => Creating(g) /\ request'[g].run = request[g].run
    BY <2>1, <2>2 DEF Creating
  <2>5. RowsFresh'
    BY <2>1, <2>4 DEF Rows, RowsFresh
  <2> QED
    BY <2>3, <2>5 DEF Rows
<1> QED
  BY <1>1, <1>2, <1>3, <1>5, <1>6, <1>7, <1>8, <1>9, <1>10, <1>11, <1>12, <1>13, <1>14, <1>15,
     <1>16, <1>17
  DEF RequestStarts, RequestContinues

\* A worker writes only the row it took.
LEMMA WorkerRows ==
    ASSUME TypeOK, Rows, NEW w \in Workers,
           TakesTask(w) \/ WorkerContinues(w) \/ RecordFails(w) \/ WorkerCrash(w)
    PROVE  Rows'
<1> DEFINE r == worker[w].run
<1>1. ASSUME NEW q \in Runs, TakePrepare(w, q) \/ TakeSubmit(w, q) PROVE Rows'
  <2>1. UNCHANGED <<run, request>>
    BY <1>1 DEF TakePrepare, TakeSubmit
  <2>2. CASE UNCHANGED worker
    BY <2>1, <2>2, RowsKept DEF SameRows
  <2>3. CASE run[q].state # "none" /\ \E task, pc, status : Take(w, task, q, pc, status)
    <3>1. worker'[w].run = q /\ \A v \in Workers \ {w} : worker'[v] = worker[v]
      BY <2>3 DEF Take, TypeOK
    <3> QED
      BY <2>1, <2>3, <3>1 DEF Rows, RowsKnown, RowsFresh, Creating
  <2>4. UNCHANGED worker \/ run[q].state \in {"queued", "submitting"}
    BY <1>1 DEF TakePrepare, TakeSubmit
  <2>5. UNCHANGED worker \/ \E task, pc, status : Take(w, task, q, pc, status)
    BY <1>1 DEF TakePrepare, TakeSubmit
  <2> QED
    BY <2>2, <2>3, <2>4, <2>5
<1>2. ASSUME worker[w].pc # "idle", NEW state \in States, NEW nokey,
             Transition(r, state, nokey), NEW pc, Advances(w, pc), UNCHANGED request
      PROVE  Rows'
  <2>1. r \in Runs /\ run[r].state # "none"
    BY <1>2, WorkerRun DEF Rows, RowsKnown
  <2> QED
    BY <1>2, <2>1, TransitionRows, RowsAdvance
<1>3. ASSUME Begin(w) PROVE Rows'
  <2>1. worker[w].status \in States /\ Advances(w, "last")
    BY <1>3, Advancing DEF Begin, TypeOK, OpenTask, States
  <2> QED
    BY <1>2, <1>3, <2>1 DEF Begin
<1>4. ASSUME FormStops(w) \/ FormHandedOver(w) \/ SubmitStops(w) \/ RecordFails(w) PROVE Rows'
  <2>1. \E state \in States : Transition(r, state, {})
    BY <1>4 DEF FormStops, FormHandedOver, SubmitStops, RecordFails, States, EndStates
  <2>2. \E pc : Advances(w, pc)
    BY <1>4, Advancing DEF FormStops, FormHandedOver, SubmitStops, RecordFails
  <2>3. worker[w].pc # "idle" /\ UNCHANGED request
    BY <1>4 DEF FormStops, FormHandedOver, SubmitStops, RecordFails
  <2> QED
    BY <1>2, <2>1, <2>2, <2>3
<1>5. ASSUME FormAnswered(w) PROVE Rows'
  <2> DEFINE state == AfterAnswers(run[r].plan)
  <2>1. r \in Runs /\ run[r].plan \in Plan
    BY <1>5, WorkerRun DEF FormAnswered, TypeOK, Row
  <2>2. state \in States
    BY <2>1, AfterAnswersType DEF States, ActiveStates
  <2>3. \E pc : Advances(w, pc)
    BY <1>5, Advancing DEF FormAnswered
  <2>4. Transition(r, state, {}) /\ UNCHANGED request /\ worker[w].pc # "idle"
    BY <1>5 DEF FormAnswered
  <2> HIDE DEF state
  <2> QED
    BY <1>2, <2>2, <2>3, <2>4
<1>6. ASSUME worker[w].pc # "idle", run'[r].state # "none",
             \A q \in Runs \ {r} : run'[q] = run[q],
             NEW pc, Advances(w, pc), UNCHANGED request
      PROVE  Rows'
  <2>1. r \in Runs /\ run[r].state # "none"
    BY <1>6, WorkerRun DEF Rows, RowsKnown
  <2> QED
    BY <1>6, <2>1, WrittenRows, RowsAdvance
<1>7. ASSUME FormRead(w) PROVE Rows'
  <2>1. r \in Runs /\ run[r].state # "none"
    BY <1>7, WorkerRun DEF FormRead, Rows, RowsKnown
  <2>2. run'[r].state = run[r].state /\ \A q \in Runs \ {r} : run'[q] = run[q]
    BY <1>7, <2>1 DEF FormRead, TypeOK, Row
  <2>3. Advances(w, "decide")
    BY <1>7, Advancing DEF FormRead
  <2> QED
    BY <1>6, <1>7, <2>1, <2>2, <2>3 DEF FormRead
<1>8. ASSUME Confirm(w) PROVE Rows'
  <2>1. r \in Runs
    BY <1>8, WorkerRun DEF Confirm
  <2>2. run'[r].state # "none" /\ \A q \in Runs \ {r} : run'[q] = run[q]
    BY <1>8, ConfirmIs
  <2>3. Advances(w, "record")
    BY <1>8, Advancing DEF Confirm
  <2> QED
    BY <1>6, <1>8, <2>2, <2>3 DEF Confirm
<1>9. ASSUME worker[w].pc # "idle", NEW pc, Advances(w, pc), UNCHANGED <<run, request>>
      PROVE  Rows'
  BY <1>9, RowsAdvance DEF SameRows
<1>10. ASSUME FormFilled(w) PROVE Rows'
  <2>1. /\ worker'[w].run = r /\ worker[w].pc # "idle" /\ UNCHANGED <<run, request>>
        /\ \A v \in Workers \ {w} : worker'[v] = worker[v]
    BY <1>10 DEF FormFilled, TypeOK, OpenTask, Task
  <2> QED
    BY <2>1 DEF Rows, RowsKnown, RowsFresh, Creating
<1>11. ASSUME Send(w) \/ WorkerRecord(w) \/ WorkerApplied(w) \/ WorkerCrash(w) PROVE Rows'
  <2>1. \E pc : Advances(w, pc)
    BY <1>11, Advancing DEF Send, WorkerRecord, WorkerApplied, WorkerCrash
  <2>2. worker[w].pc # "idle" /\ UNCHANGED <<run, request>>
    BY <1>11 DEF Send, WorkerRecord, WorkerApplied, WorkerCrash
  <2> QED
    BY <1>9, <2>1, <2>2
<1> QED
  BY <1>1, <1>3, <1>4, <1>5, <1>7, <1>8, <1>10, <1>11 DEF TakesTask, WorkerContinues

----------------------------------------------------------------------------
(* LinkedIn runs *)

\* FastNeverSubmits is not inductive: a step that writes a state writes one
\* chosen earlier, by a request that loaded the run or by a worker that took a
\* task.  FastInv adds what those may hold: no request that answers or
\* approves, and no worker that submits, is about a LinkedIn run, and only a
\* worker that submits fills, clicks or waits for a confirmation.
NotForFast == {"awaiting_input", "awaiting_review", "submitting", "submitted"}

FastRows == \A r \in Runs : Fast(r) => run[r].state \notin NotForFast
FastUnsent == \A r \in Runs : Fast(r) => ledger[r].sends = 0
FastRequests ==
    \A h \in Requests : request[h].op \in {"answer", "approve"} => ~Fast(request[h].run)
FastWorkers ==
    \A w \in Workers :
        /\ worker[w].task = "submit" => ~Fast(worker[w].run)
        /\ worker[w].pc \in {"fill", "click", "confirm"} => worker[w].task = "submit"
        /\ worker[w].pc = "begin" => worker[w].status = "preparing"
        /\ worker[w].pc = "stop" /\ worker[w].task # "submit" => worker[w].status = "cancelled"

FastInv == FastRows /\ FastUnsent /\ FastRequests /\ FastWorkers

USE DEF NotForFast

----------------------------------------------------------------------------

\* A transition keeps LinkedIn runs out of the states they may not be in, if
\* the state it writes is none of them.
LEMMA FastTransition ==
    ASSUME TypeOK, FastRows, NEW r \in Runs, NEW state, NEW nokey,
           Transition(r, state, nokey), Fast(r) => state \notin NotForFast
    PROVE  FastRows'
<1>1. /\ run'[r].state = state
      /\ \A q \in Runs \ {r} : run'[q] = run[q]
  BY DEF TypeOK, Transition, Moved, Row
<1>2. \A q \in Runs : Fast(q)' <=> Fast(q)
  BY DEF Fast, AdapterOf
<1> QED
  BY <1>1, <1>2 DEF FastRows

LEMMA FastInit == Init => FastInv
BY DEF Init, FastInv, FastRows, FastUnsent, FastRequests, FastWorkers, NoRow, NoSends,
       IdleRequest, IdleWorker

\* A step that leaves a part of the state alone keeps what FastInv says of it.
LEMMA FastUnchanged ==
    /\ FastRows /\ UNCHANGED run => FastRows'
    /\ FastUnsent /\ UNCHANGED ledger => FastUnsent'
    /\ FastRequests /\ UNCHANGED request => FastRequests'
    /\ FastWorkers /\ UNCHANGED worker => FastWorkers'
BY DEF FastRows, FastUnsent, FastRequests, FastWorkers, Fast, AdapterOf

\* A request keeps its operation and its run, or ends.
LEMMA FastRequestKept ==
    ASSUME TypeOK, FastRequests, NEW h \in Requests, NEW pc, NEW status,
           Goto(h, pc) \/ ToRecord(h, status) \/ Finish(h)
    PROVE  FastRequests'
<1>1. request \in [Requests -> Request]
  BY DEF TypeOK, OpenRequest
<1>2. /\ \/ request'[h].op = request[h].op /\ request'[h].run = request[h].run
         \/ request'[h].op = "none"
      /\ \A g \in Requests \ {h} : request'[g] = request[g]
  <2>1. CASE Goto(h, pc)
    BY <1>1, <2>1 DEF Goto, Request
  <2>2. CASE ToRecord(h, status)
    BY <1>1, <2>2 DEF ToRecord, Request
  <2>3. CASE Finish(h)
    BY <1>1, <2>3 DEF Finish, IdleRequest
  <2> QED
    BY <2>1, <2>2, <2>3
<1> QED
  BY <1>2 DEF FastRequests, Fast, AdapterOf

LEMMA FastLoad ==
    ASSUME TypeOK, FastRequests, NEW h \in Requests, NEW op, NEW r \in Runs, NEW pc, NEW status,
           NEW todo, op \in {"answer", "approve"} => ~Fast(r), Load(h, op, r, pc, status, todo)
    PROVE  FastRequests'
<1>1. /\ request'[h].op = op /\ request'[h].run = r
      /\ \A g \in Requests \ {h} : request'[g] = request[g]
  BY DEF TypeOK, Load
<1> QED
  BY <1>1 DEF FastRequests, Fast, AdapterOf

----------------------------------------------------------------------------
(* The steps of requests *)

\* A request never offers a LinkedIn run for approval.
LEMMA FastRequestStep ==
    ASSUME TypeOK, FastInv, NEW h \in Requests,
           RequestStarts(h) \/ RequestContinues(h) \/ RequestCrash(h)
    PROVE  FastInv'
<1> USE DEF FastInv
<1>1. ASSUME NEW r \in Runs, CreateCheck(h, r) PROVE FastInv'
  BY <1>1, FastLoad, FastUnchanged DEF CreateCheck
<1>2. ASSUME NEW r \in Runs, CreateInBrowserCheck(h, r) PROVE FastInv'
  BY <1>2, FastLoad, FastUnchanged DEF CreateInBrowserCheck
<1>3. ASSUME CreateInsert(h) PROVE FastInv'
  <2> DEFINE r == request[h].run
  <2>1. r \in Runs /\ request[h].status \in {"queued", "in_browser"}
    BY <1>3 DEF CreateInsert, TypeOK, OpenRequest
  <2>2. FastRows'
    <3>1. CASE UNCHANGED run
      BY <3>1, FastUnchanged
    <3>2. CASE run' = [run EXCEPT ![r] = [NoRow EXCEPT !.state = request[h].status, !.key = TRUE]]
      <4>1. run'[r].state = request[h].status /\ \A q \in Runs \ {r} : run'[q] = run[q]
        BY <2>1, <3>2 DEF TypeOK, NoRow
      <4> QED
        BY <2>1, <4>1 DEF FastRows, Fast, AdapterOf
    <3> QED
      BY <1>3, <3>1, <3>2 DEF CreateInsert
  <2>3. FastRequests'
    BY <1>3, FastRequestKept DEF CreateInsert
  <2> QED
    BY <1>3, <2>2, <2>3, FastUnchanged DEF CreateInsert
<1>4. ASSUME CreateConfirm(h) PROVE FastInv'
  <2>1. request[h].run \in Runs /\ request[h].status \in {"queued", "in_browser"}
    BY <1>4 DEF CreateConfirm, TypeOK, OpenRequest
  <2> QED
    BY <1>4, <2>1, FastTransition, FastRequestKept, FastUnchanged DEF CreateConfirm
<1>5. ASSUME NEW r \in Runs, AnswerLoad(h, r) \/ ApproveLoad(h, r) PROVE FastInv'
  <2>1. ~Fast(r)
    BY <1>5 DEF AnswerLoad, ApproveLoad, FastRows
  <2> QED
    BY <1>5, <2>1, FastLoad, FastUnchanged DEF AnswerLoad, ApproveLoad
<1>6. ASSUME AnswerWrite(h) PROVE FastInv'
  <2>1. request[h].run \in Runs /\ ~Fast(request[h].run)
    BY <1>6, RequestRun DEF AnswerWrite, FastRequests
  <2>2. \A q \in Runs \ {request[h].run} : run'[q] = run[q]
    BY <1>6 DEF AnswerWrite, TypeOK
  <2>3. FastRows'
    BY <2>1, <2>2 DEF FastRows, Fast, AdapterOf
  <2> QED
    BY <1>6, <2>3, FastRequestKept, FastUnchanged DEF AnswerWrite
<1>7. ASSUME AnswerAfter(h) PROVE FastInv'
  <2>1. request[h].run \in Runs /\ ~Fast(request[h].run)
    BY <1>7, RequestRun DEF AnswerAfter, FastRequests
  <2> QED
    BY <1>7, <2>1, FastTransition, FastRequestKept, FastUnchanged DEF AnswerAfter
<1>8. ASSUME ApproveWrite(h) PROVE FastInv'
  <2>1. request[h].run \in Runs /\ ~Fast(request[h].run)
    BY <1>8, RequestRun DEF ApproveWrite, FastRequests
  <2>2. \A q \in Runs \ {request[h].run} : ledger'[q] = ledger[q]
    BY <1>8 DEF ApproveWrite, TypeOK
  <2>3. FastUnsent'
    BY <2>1, <2>2 DEF FastUnsent, Fast, AdapterOf
  <2> QED
    BY <1>8, <2>1, <2>3, FastTransition, FastRequestKept, FastUnchanged DEF ApproveWrite
<1>9. ASSUME NEW r \in Runs,
             CancelLoad(h, r) \/ DoneLoad(h, r) \/ ClosedLoad(h, r) \/ BrowserLoad(h, r)
      PROVE  FastInv'
  BY <1>9, FastLoad, FastUnchanged DEF CancelLoad, DoneLoad, ClosedLoad, BrowserLoad
<1>10. ASSUME CancelWrite(h) \/ ClosedWrite(h) PROVE FastInv'
  BY <1>10, RequestRun, FastTransition, FastRequestKept, FastUnchanged DEF CancelWrite, ClosedWrite
<1>11. ASSUME DoneWrite(h) PROVE FastInv'
  <2> DEFINE r == request[h].run
  <2>1. r \in Runs
    BY <1>11, RequestRun DEF DoneWrite
  <2>2. FastRows'
    <3>1. CASE run' = [run EXCEPT ![r] = [Moved(r, "done", request[h].nokey) EXCEPT
                                              !.submitted = TRUE]]
      <4>1. run'[r].state = "done" /\ \A q \in Runs \ {r} : run'[q] = run[q]
        BY <2>1, <3>1 DEF TypeOK, Moved, Row
      <4> QED
        BY <2>1, <4>1 DEF FastRows, Fast, AdapterOf
    <3> QED
      BY <1>11, <2>1, <3>1, FastTransition DEF DoneWrite
  <2>3. FastRequests'
    BY <1>11, FastRequestKept DEF DoneWrite
  <2> QED
    BY <1>11, <2>2, <2>3, FastUnchanged DEF DoneWrite
<1>12. ASSUME BrowserWrite(h) PROVE FastInv'
  <2> DEFINE r == request[h].run
  <2>1. r \in Runs
    BY <1>12, RequestRun DEF BrowserWrite
  <2>2. FastRows'
    <3>1. CASE UNCHANGED run
      BY <3>1, FastUnchanged
    <3>2. CASE run' = [run EXCEPT ![r] = [Moved(r, "in_browser", {}) EXCEPT
                          !.key = r \in request[h].nokey \/ @, !.plan = request[h].plan]]
      <4>1. run'[r].state = "in_browser" /\ \A q \in Runs \ {r} : run'[q] = run[q]
        BY <2>1, <3>2 DEF TypeOK, Moved, Row
      <4> QED
        BY <2>1, <4>1 DEF FastRows, Fast, AdapterOf
    <3> QED
      BY <1>12, <3>1, <3>2 DEF BrowserWrite
  <2>3. FastRequests'
    BY <1>12, FastRequestKept DEF BrowserWrite
  <2> QED
    BY <1>12, <2>2, <2>3, FastUnchanged DEF BrowserWrite
<1>13. ASSUME NEW switch \in Switches, SwitchOff(h, switch) PROVE FastInv'
  <2>1. /\ request'[h].op \notin {"answer", "approve"}
        /\ \A g \in Requests \ {h} : request'[g] = request[g]
    BY <1>13 DEF SwitchOff, TypeOK, IdleRequest, Switches
  <2>2. FastRequests'
    BY <2>1 DEF FastRequests, Fast, AdapterOf
  <2> QED
    BY <1>13, <2>2, FastUnchanged DEF SwitchOff
<1>14. ASSUME CancelNext(h) PROVE FastInv'
  <2>1. PICK q \in request[h].todo :
            /\ Transition(q, "cancelled", request[h].nokey)
            /\ request' = [request EXCEPT ![h].todo = @ \ {q}, ![h].nokey = {},
                   ![h].pc = IF request[h].op = "create" THEN @ ELSE "record",
                   ![h].run = IF request[h].op = "create" THEN @ ELSE q,
                   ![h].status = IF request[h].op = "create" THEN @ ELSE "cancelled"]
    BY <1>14 DEF CancelNext
  <2>2. q \in Runs /\ request[h].op \notin {"answer", "approve"}
    BY <1>14 DEF CancelNext, TypeOK, OpenRequest, Request, Switches
  <2>3. FastRows'
    BY <2>1, <2>2, FastTransition
  <2>4. /\ request'[h].op = request[h].op
        /\ \A g \in Requests \ {h} : request'[g] = request[g]
    BY <2>1 DEF TypeOK, OpenRequest, Request
  <2>5. FastRequests'
    BY <2>2, <2>4 DEF FastRequests, Fast, AdapterOf
  <2> QED
    BY <1>14, <2>3, <2>5, FastUnchanged DEF CancelNext
<1>15. ASSUME CancelledAll(h) PROVE FastInv'
  BY <1>15, FastRequestKept, FastUnchanged DEF CancelledAll
<1>16. ASSUME RequestRecord(h) PROVE FastInv'
  BY <1>16, FastRequestKept, FastUnchanged DEF RequestRecord
<1>17. ASSUME RequestApplied(h) \/ Dispatch(h) \/ RequestCrash(h) PROVE FastInv'
  BY <1>17, FastRequestKept, FastUnchanged DEF RequestApplied, Dispatch, RequestCrash
<1> QED
  BY <1>1, <1>2, <1>3, <1>4, <1>5, <1>6, <1>7, <1>8, <1>9, <1>10, <1>11, <1>12, <1>13, <1>14,
     <1>15, <1>16, <1>17
  DEF RequestStarts, RequestContinues

----------------------------------------------------------------------------
(* The steps of workers *)

\* A worker goes on with its run and its task, or is done with it.
LEMMA FastWorkerKept ==
    ASSUME TypeOK, FastWorkers, NEW w \in Workers, NEW pc, NEW status,
           pc \notin {"begin", "stop"},
           \/ Working(w, pc) \/ WorkerToRecord(w, pc, status) \/ WorkerEnds(w),
           pc \in {"fill", "click", "confirm"} => worker[w].task = "submit"
    PROVE  FastWorkers'
<1>1. worker \in [Workers -> Task]
  BY DEF TypeOK, OpenTask
<1>2. /\ \/ /\ worker'[w].task = worker[w].task /\ worker'[w].run = worker[w].run
            /\ worker'[w].pc = pc
         \/ worker'[w].task = "none" /\ worker'[w].pc = "idle"
      /\ \A v \in Workers \ {w} : worker'[v] = worker[v]
  <2>1. CASE Working(w, pc)
    BY <1>1, <2>1 DEF Working, Task
  <2>2. CASE WorkerToRecord(w, pc, status)
    BY <1>1, <2>2 DEF WorkerToRecord, Task
  <2>3. CASE WorkerEnds(w)
    BY <1>1, <2>3 DEF WorkerEnds, IdleWorker
  <2> QED
    BY <2>1, <2>2, <2>3
<1> QED
  BY <1>2 DEF FastWorkers, Fast, AdapterOf

LEMMA FastTake ==
    ASSUME TypeOK, FastWorkers, NEW w \in Workers, NEW r \in Runs, NEW task, NEW pc, NEW status,
           Take(w, task, r, pc, status),
           task = "submit" => ~Fast(r),
           pc \in {"fill", "click", "confirm"} => task = "submit",
           pc = "begin" => status = "preparing",
           pc = "stop" /\ task # "submit" => status = "cancelled"
    PROVE  FastWorkers'
<1>1. /\ worker'[w].task = task /\ worker'[w].run = r /\ worker'[w].pc = pc
      /\ worker'[w].status = status
      /\ \A v \in Workers \ {w} : worker'[v] = worker[v]
  BY DEF TypeOK, Take
<1> QED
  BY <1>1 DEF FastWorkers, Fast, AdapterOf

\* A worker never offers a LinkedIn run for approval and never sends it.
LEMMA FastWorkerStep ==
    ASSUME TypeOK, FastInv, NEW w \in Workers,
           TakesTask(w) \/ WorkerContinues(w) \/ RecordFails(w) \/ WorkerCrash(w)
    PROVE  FastInv'
<1> USE DEF FastInv
<1> DEFINE r == worker[w].run
<1>1. ASSUME NEW q \in Runs, TakePrepare(w, q) PROVE FastInv'
  <2>1. FastWorkers'
    BY <1>1, FastTake, FastUnchanged DEF TakePrepare
  <2> QED
    BY <1>1, <2>1, FastUnchanged DEF TakePrepare
<1>2. ASSUME NEW q \in Runs, TakeSubmit(w, q) PROVE FastInv'
  <2>1. FastWorkers'
    <3>1. CASE UNCHANGED worker
      BY <3>1, FastUnchanged
    <3>2. CASE run[q].state = "submitting"
      <4>1. ~Fast(q)
        BY <3>2 DEF FastRows
      <4> QED
        BY <1>2, <3>2, <4>1, FastTake DEF TakeSubmit
    <3> QED
      BY <1>2, <3>1, <3>2 DEF TakeSubmit
  <2> QED
    BY <1>2, <2>1, FastUnchanged DEF TakeSubmit
<1>3. ASSUME Begin(w) PROVE FastInv'
  <2>1. r \in Runs
    BY <1>3, WorkerRun DEF Begin
  <2>2. Fast(r) => worker[w].status \in {"preparing", "cancelled"}
    BY <1>3 DEF Begin, FastWorkers
  <2>3. FastRows'
    BY <1>3, <2>1, <2>2, FastTransition DEF Begin
  <2>4. FastWorkers'
    BY <1>3, FastWorkerKept DEF Begin
  <2> QED
    BY <1>3, <2>3, <2>4, FastUnchanged DEF Begin
<1>4. ASSUME NEW state, Transition(r, state, {}), Fast(r) => state \notin NotForFast,
             worker[w].pc # "idle",
             NEW pc \in {"record", "last"}, NEW status,
             WorkerToRecord(w, pc, status) \/ WorkerEnds(w),
             UNCHANGED <<off, queue, tracker, applied, request, ledger>>
      PROVE  FastInv'
  <2>1. FastRows'
    BY <1>4, WorkerRun, FastTransition
  <2>2. FastWorkers'
    BY <1>4, FastWorkerKept
  <2> QED
    BY <1>4, <2>1, <2>2, FastUnchanged
<1>5. ASSUME FormStops(w) \/ SubmitStops(w) \/ RecordFails(w) PROVE FastInv'
  BY <1>4, <1>5 DEF FormStops, SubmitStops, RecordFails
<1>6. ASSUME FormRead(w) PROVE FastInv'
  <2>1. r \in Runs
    BY <1>6, WorkerRun DEF FormRead
  <2>2. run'[r].state = run[r].state /\ \A q \in Runs \ {r} : run'[q] = run[q]
    BY <1>6, <2>1 DEF FormRead, TypeOK, Row
  <2>3. FastRows'
    BY <2>1, <2>2 DEF FastRows, Fast, AdapterOf
  <2>4. FastWorkers'
    BY <1>6, FastWorkerKept DEF FormRead
  <2> QED
    BY <1>6, <2>3, <2>4, FastUnchanged DEF FormRead
<1>7. ASSUME FormHandedOver(w) PROVE FastInv'
  BY <1>4, <1>7 DEF FormHandedOver
<1>8. ASSUME FormAnswered(w) PROVE FastInv'
  <2> DEFINE state == AfterAnswers(run[r].plan)
  <2>1. \/ WorkerEnds(w)
        \/ WorkerToRecord(w, "record", state) \/ WorkerToRecord(w, "last", state)
    BY <1>8 DEF FormAnswered
  <2> HIDE DEF state
  <2> QED
    BY <1>4, <1>8, <2>1 DEF FormAnswered, state
<1>9. ASSUME FormFilled(w) PROVE FastInv'
  <2>1. /\ worker'[w].task = worker[w].task /\ worker'[w].run = r /\ worker'[w].pc = "click"
        /\ \A v \in Workers \ {w} : worker'[v] = worker[v]
    BY <1>9 DEF FormFilled, TypeOK, OpenTask, Task
  <2>2. worker[w].task = "submit"
    BY <1>9 DEF FormFilled, FastWorkers
  <2>3. ~Fast(r)
    BY <2>2 DEF FastWorkers
  <2>4. FastWorkers'
    BY <2>1, <2>2, <2>3 DEF FastWorkers, Fast, AdapterOf
  <2> QED
    BY <1>9, <2>4, FastUnchanged DEF FormFilled
<1>10. ASSUME Send(w) PROVE FastInv'
  <2>1. r \in Runs /\ worker[w].task = "submit" /\ ~Fast(r)
    BY <1>10, WorkerRun DEF Send, FastWorkers
  <2>2. \A q \in Runs \ {r} : ledger'[q] = ledger[q]
    BY <1>10 DEF Send, TypeOK
  <2>3. FastUnsent'
    BY <2>1, <2>2 DEF FastUnsent, Fast, AdapterOf
  <2>4. FastWorkers'
    <3>1. Working(w, "confirm")
      BY <1>10 DEF Send
    <3> QED
      BY <2>1, <3>1, FastWorkerKept
  <2> QED
    BY <1>10, <2>3, <2>4, FastUnchanged DEF Send
<1>11. ASSUME Confirm(w) PROVE FastInv'
  <2>1. r \in Runs /\ ~Fast(r)
    BY <1>11, WorkerRun DEF Confirm, FastWorkers
  <2>2. \A q \in Runs \ {r} : run'[q] = run[q] /\ ledger'[q] = ledger[q]
    BY <1>11 DEF Confirm, Transition, TypeOK
  <2>3. FastRows' /\ FastUnsent'
    BY <2>1, <2>2 DEF FastRows, FastUnsent, Fast, AdapterOf
  <2>4. FastWorkers'
    BY <1>11, FastWorkerKept DEF Confirm
  <2> QED
    BY <1>11, <2>3, <2>4, FastUnchanged DEF Confirm
<1>12. ASSUME WorkerRecord(w) PROVE FastInv'
  BY <1>12, FastWorkerKept, FastUnchanged DEF WorkerRecord
<1>13. ASSUME WorkerApplied(w) \/ WorkerCrash(w) PROVE FastInv'
  <2>1. FastWorkers'
    BY <1>13, FastWorkerKept DEF WorkerApplied, WorkerCrash
  <2> QED
    BY <1>13, <2>1, FastUnchanged DEF WorkerApplied, WorkerCrash
<1> QED
  BY <1>1, <1>2, <1>3, <1>5, <1>6, <1>7, <1>8, <1>9, <1>10, <1>11, <1>12, <1>13
  DEF TakesTask, WorkerContinues

----------------------------------------------------------------------------

\* LinkedIn runs are left to the user at every moment, with what the requests
\* and the workers hold of them.
LEMMA FastHolds == Spec => []FastInv
<1>1. TypeOK /\ FastInv /\ [Next]_vars => FastInv'
  <2> SUFFICES ASSUME TypeOK, FastInv, [Next]_vars PROVE FastInv'
    OBVIOUS
  <2>1. CASE UNCHANGED vars
    BY <2>1, FastUnchanged DEF vars, FastInv
  <2>2. ASSUME NEW switch \in Switches, SwitchOn(switch) PROVE FastInv'
    BY <2>2, FastUnchanged DEF SwitchOn, FastInv
  <2> QED
    BY <2>1, <2>2, FastRequestStep, FastWorkerStep DEF Next
<1> QED
  BY TypeCorrect, FastInit, <1>1, PTL DEF Spec

\* A LinkedIn run is never offered for approval and never sent, whichever
\* requests and tasks interleave, crash or run late.
THEOREM FastStaysWithTheUser == Spec => []FastNeverSubmits
<1>1. FastInv => FastNeverSubmits
  BY DEF FastInv, FastRows, FastUnsent, FastNeverSubmits
<1> QED
  BY FastHolds, <1>1, PTL

----------------------------------------------------------------------------
(* Sends and approvals *)

\* Every approval is in one place at most: with the request that gave it and
\* has not queued the task yet, in the queue, with the worker that took the
\* task and has not sent yet, or it was used up by a send.
Approving(r) ==
    {h \in Requests : /\ request[h].op = "approve" /\ request[h].run = r
                      /\ request[h].pc \in {"record", "dispatch"}}
Submitting(r) == {w \in Workers : worker[w].run = r /\ worker[w].pc \in {"fill", "click"}}

Approved ==
    \A r \in Runs :
        ledger[r].sends + queue["submit"][r] + Cardinality(Approving(r))
            + Cardinality(Submitting(r)) <= ledger[r].approvals

LEMMA CountKept ==
    ASSUME NEW S, NEW T, IsFiniteSet(T), S \subseteq T
    PROVE  /\ Cardinality(S) \in Nat /\ Cardinality(T) \in Nat
           /\ Cardinality(S) <= Cardinality(T)
BY FS_Subset, FS_CardinalityType

LEMMA CountMore ==
    ASSUME NEW S, NEW T, NEW x, IsFiniteSet(T), S \subseteq T \cup {x}
    PROVE  /\ Cardinality(S) \in Nat /\ Cardinality(T) \in Nat
           /\ Cardinality(S) <= Cardinality(T) + 1
<1>1. /\ IsFiniteSet(T \cup {x}) /\ Cardinality(T) \in Nat
      /\ Cardinality(T \cup {x}) = IF x \in T THEN Cardinality(T) ELSE Cardinality(T) + 1
  BY FS_AddElement, FS_CardinalityType
<1>2. Cardinality(S) \in Nat /\ Cardinality(S) <= Cardinality(T \cup {x})
  BY <1>1, FS_Subset, FS_CardinalityType
<1> QED
  BY <1>1, <1>2

LEMMA CountLess ==
    ASSUME NEW S, NEW T, NEW x \in T, IsFiniteSet(T), S \subseteq T \ {x}
    PROVE  /\ Cardinality(S) \in Nat /\ Cardinality(T) \in Nat
           /\ Cardinality(S) + 1 <= Cardinality(T)
<1>1. /\ IsFiniteSet(T \ {x}) /\ Cardinality(T \ {x}) \in Nat /\ Cardinality(T) \in Nat
      /\ Cardinality(T \ {x}) = Cardinality(T) - 1
  BY FS_RemoveElement, FS_CardinalityType
<1>2. Cardinality(S) \in Nat /\ Cardinality(S) <= Cardinality(T \ {x})
  BY <1>1, FS_Subset, FS_CardinalityType
<1> QED
  BY <1>1, <1>2

LEMMA ProcessesFinite ==
    ASSUME NEW r
    PROVE  /\ IsFiniteSet(Approving(r)) /\ Cardinality(Approving(r)) \in Nat
           /\ IsFiniteSet(Submitting(r)) /\ Cardinality(Submitting(r)) \in Nat
<1>1. Approving(r) \subseteq Requests /\ Submitting(r) \subseteq Workers
  BY DEF Approving, Submitting
<1> QED
  BY <1>1, FS_Subset, FS_CardinalityType, ApplyConstants

\* What the counts of a run are made of are numbers, before and after a step.
LEMMA CountTypes ==
    ASSUME TypeOK, NEW r \in Runs
    PROVE  /\ ledger[r].sends \in Nat /\ ledger[r].approvals \in Nat
           /\ queue["submit"][r] \in Nat
BY DEF TypeOK, History

\* A step that gives no approval, queues no task and starts none.
LEMMA ApprovedKept ==
    ASSUME TypeOK, TypeOK', Approved,
           \A r \in Runs : /\ Approving(r)' \subseteq Approving(r)
                           /\ Submitting(r)' \subseteq Submitting(r)
                           /\ queue'["submit"][r] <= queue["submit"][r]
                           /\ ledger'[r].sends = ledger[r].sends
                           /\ ledger'[r].approvals = ledger[r].approvals
    PROVE  Approved'
<1> SUFFICES ASSUME NEW r \in Runs
             PROVE  ledger'[r].sends + queue'["submit"][r] + Cardinality(Approving(r)')
                        + Cardinality(Submitting(r)') <= ledger'[r].approvals
  BY DEF Approved
<1>1. /\ Cardinality(Approving(r)') \in Nat /\ Cardinality(Approving(r)) \in Nat
      /\ Cardinality(Approving(r)') <= Cardinality(Approving(r))
  BY ProcessesFinite, CountKept
<1>2. /\ Cardinality(Submitting(r)') \in Nat /\ Cardinality(Submitting(r)) \in Nat
      /\ Cardinality(Submitting(r)') <= Cardinality(Submitting(r))
  BY ProcessesFinite, CountKept
<1>3. /\ queue["submit"][r] \in Nat /\ queue'["submit"][r] \in Nat
      /\ ledger[r].sends \in Nat /\ ledger[r].approvals \in Nat
  BY CountTypes DEF TypeOK
<1>4. ledger[r].sends + queue["submit"][r] + Cardinality(Approving(r))
          + Cardinality(Submitting(r)) <= ledger[r].approvals
  BY DEF Approved
<1> QED
  BY <1>1, <1>2, <1>3, <1>4

\* Only the request that approves a run holds an approval of it.
LEMMA ApprovingProceeds ==
    ASSUME NEW h \in Requests, NEW pc, Proceeds(h, pc),
           \/ pc \notin {"record", "dispatch"}
           \/ request[h].op # "approve"
           \/ request[h].pc \in {"record", "dispatch"}
    PROVE  \A r \in Runs : Approving(r)' \subseteq Approving(r)
<1>1. IdleRequest.op = "none"
  BY DEF IdleRequest
<1> QED
  BY <1>1 DEF Approving, Proceeds, SameErrand

LEMMA ApprovingElsewhere ==
    ASSUME NEW h \in Requests, \A g \in Requests \ {h} : request'[g] = request[g],
           request'[h].op # "approve" \/ request'[h].pc \notin {"record", "dispatch"}
    PROVE  \A r \in Runs : Approving(r)' \subseteq Approving(r)
BY DEF Approving

LEMMA RequestApproves ==
    ASSUME TypeOK, TypeOK', Rows, Approved, NEW h \in Requests,
           RequestStarts(h) \/ RequestContinues(h) \/ RequestCrash(h)
    PROVE  Approved'
<1> DEFINE r == request[h].run
           Less == \A q \in Runs : Approving(q)' \subseteq Approving(q)
<1>1. ASSUME Less, UNCHANGED <<worker, queue, ledger>> PROVE Approved'
  <2>1. \A q \in Runs : Submitting(q)' \subseteq Submitting(q) /\ queue["submit"][q] \in Nat
    BY <1>1, CountTypes DEF Submitting
  <2> QED
    BY <1>1, <2>1, ApprovedKept
<1>2. ASSUME NEW q \in Runs, NEW op, NEW pc \in {"write", "insert", "cancelling"}, NEW status,
             NEW todo, Load(h, op, q, pc, status, todo)
      PROVE  Less
  <2>1. request'[h].pc = pc /\ \A g \in Requests \ {h} : request'[g] = request[g]
    BY <1>2 DEF TypeOK, Load
  <2> QED
    BY <2>1, ApprovingElsewhere
<1>3. ASSUME NEW q \in Runs,
             CreateCheck(h, q) \/ CreateInBrowserCheck(h, q) \/ AnswerLoad(h, q)
                 \/ ApproveLoad(h, q) \/ CancelLoad(h, q) \/ DoneLoad(h, q)
                 \/ ClosedLoad(h, q) \/ BrowserLoad(h, q)
      PROVE  Approved'
  <2>1. Less
    BY <1>2, <1>3 DEF CreateCheck, CreateInBrowserCheck, AnswerLoad, ApproveLoad, CancelLoad,
                      DoneLoad, ClosedLoad, BrowserLoad
  <2>2. UNCHANGED <<worker, queue, ledger>>
    BY <1>3 DEF CreateCheck, CreateInBrowserCheck, AnswerLoad, ApproveLoad, CancelLoad,
                DoneLoad, ClosedLoad, BrowserLoad
  <2> QED
    BY <1>1, <2>1, <2>2
<1>4. ASSUME NEW switch \in Switches, SwitchOff(h, switch) PROVE Approved'
  <2>1. /\ request'[h].pc = "cancelling"
        /\ \A g \in Requests \ {h} : request'[g] = request[g]
    BY <1>4 DEF SwitchOff, TypeOK, IdleRequest
  <2> QED
    BY <1>1, <1>4, <2>1, ApprovingElsewhere DEF SwitchOff
<1>5. ASSUME CreateInsert(h) \/ CreateConfirm(h) \/ AnswerWrite(h) \/ AnswerAfter(h) PROVE Approved'
  <2>1. \/ Proceeds(h, "created") \/ Proceeds(h, "after")
        \/ request[h].op # "approve" /\ (Proceeds(h, "record") \/ Proceeds(h, "dispatch"))
    BY <1>5, Proceeding DEF CreateInsert, CreateConfirm, AnswerWrite, AnswerAfter, Rows, RowsKnown
  <2>2. UNCHANGED <<worker, queue, ledger>>
    BY <1>5 DEF CreateInsert, CreateConfirm, AnswerWrite, AnswerAfter
  <2> QED
    BY <1>1, <2>1, <2>2, ApprovingProceeds
<1>6. ASSUME CancelWrite(h) \/ DoneWrite(h) \/ ClosedWrite(h) \/ BrowserWrite(h) PROVE Approved'
  <2>1. Proceeds(h, "idle") \/ (request[h].op # "approve" /\ Proceeds(h, "record"))
    BY <1>6, Proceeding DEF CancelWrite, DoneWrite, ClosedWrite, BrowserWrite
  <2>2. UNCHANGED <<worker, queue, ledger>>
    BY <1>6 DEF CancelWrite, DoneWrite, ClosedWrite, BrowserWrite
  <2> QED
    BY <1>1, <2>1, <2>2, ApprovingProceeds
<1>7. ASSUME ApproveWrite(h) PROVE Approved'
  <2>1. r \in Runs /\ request[h].pc = "write"
    BY <1>7, RequestRun DEF ApproveWrite
  <2>2. Proceeds(h, "record")
    BY <1>7, Proceeding DEF ApproveWrite
  <2>3. \A q \in Runs : /\ Approving(q)' \subseteq Approving(q) \cup {h}
                        /\ q # r => Approving(q)' \subseteq Approving(q)
    <3>1. \/ request'[h].run = r
          \/ request'[h].op = "none"
      BY <2>2 DEF Proceeds, SameErrand, IdleRequest
    <3>2. \A g \in Requests \ {h} : request'[g] = request[g]
      BY <2>2 DEF Proceeds
    <3> QED
      BY <3>1, <3>2 DEF Approving
  <2>4. /\ ledger'[r].sends = ledger[r].sends
        /\ ledger'[r].approvals = ledger[r].approvals + 1
        /\ \A q \in Runs \ {r} : ledger'[q] = ledger[q]
        /\ UNCHANGED <<worker, queue>>
    BY <1>7, <2>1 DEF ApproveWrite, TypeOK, History
  <2> SUFFICES ASSUME NEW q \in Runs
               PROVE  ledger'[q].sends + queue'["submit"][q] + Cardinality(Approving(q)')
                          + Cardinality(Submitting(q)') <= ledger'[q].approvals
    BY DEF Approved
  <2>5. /\ ledger[q].sends + queue["submit"][q] + Cardinality(Approving(q))
             + Cardinality(Submitting(q)) <= ledger[q].approvals
        /\ Submitting(q)' = Submitting(q)
    BY <2>4 DEF Approved, Submitting
  <2>6. /\ ledger[q].sends \in Nat /\ ledger[q].approvals \in Nat /\ queue["submit"][q] \in Nat
        /\ Cardinality(Approving(q)) \in Nat /\ Cardinality(Submitting(q)) \in Nat
        /\ IsFiniteSet(Approving(q))
    BY CountTypes, ProcessesFinite
  <2>7. CASE q = r
    <3>1. /\ Cardinality(Approving(q)') \in Nat
          /\ Cardinality(Approving(q)') <= Cardinality(Approving(q)) + 1
      BY <2>3, <2>6, <2>7, CountMore
    <3>2. /\ ledger'[q].sends = ledger[q].sends
          /\ ledger'[q].approvals = ledger[q].approvals + 1
          /\ queue'["submit"][q] = queue["submit"][q]
      BY <2>4, <2>7
    <3> HIDE DEF r
    <3> QED
      BY <2>5, <2>6, <3>1, <3>2
  <2>8. CASE q # r
    <3>1. /\ Cardinality(Approving(q)') \in Nat
          /\ Cardinality(Approving(q)') <= Cardinality(Approving(q))
      BY <2>3, <2>6, <2>8, CountKept
    <3> QED
      BY <2>4, <2>5, <2>6, <2>8, <3>1
  <2> QED
    BY <2>7, <2>8
<1>8. ASSUME CancelNext(h) PROVE Approved'
  <2>1. request[h].op # "approve"
    BY <1>8 DEF CancelNext, TypeOK, OpenRequest, Request, Switches
  <2>2. PICK q \in request[h].todo :
            request' = [request EXCEPT ![h].todo = @ \ {q}, ![h].nokey = {},
                   ![h].pc = IF request[h].op = "create" THEN @ ELSE "record",
                   ![h].run = IF request[h].op = "create" THEN @ ELSE q,
                   ![h].status = IF request[h].op = "create" THEN @ ELSE "cancelled"]
    BY <1>8 DEF CancelNext
  <2>3. request'[h].op = request[h].op /\ \A g \in Requests \ {h} : request'[g] = request[g]
    <3>1. request \in [Requests -> Request]
      BY DEF TypeOK, OpenRequest
    <3> QED
      BY <2>2, <3>1 DEF Request
  <2> QED
    BY <1>1, <1>8, <2>1, <2>3, ApprovingElsewhere DEF CancelNext
<1>9. ASSUME CancelledAll(h) \/ RequestRecord(h) \/ RequestApplied(h) \/ RequestCrash(h)
      PROVE  Approved'
  <2>1. \/ Proceeds(h, "insert") \/ Proceeds(h, "idle") \/ Proceeds(h, "apply")
        \/ Proceeds(h, "cancelling")
        \/ request[h].pc = "record" /\ Proceeds(h, "dispatch")
    BY <1>9, Proceeding DEF CancelledAll, RequestRecord, RequestApplied, RequestCrash
  <2>2. UNCHANGED <<worker, queue, ledger>>
    BY <1>9 DEF CancelledAll, RequestRecord, RequestApplied, RequestCrash
  <2> QED
    BY <1>1, <2>1, <2>2, ApprovingProceeds
<1>10. ASSUME Dispatch(h) PROVE Approved'
  <2>1. r \in Runs /\ request[h].pc = "dispatch"
    BY <1>10, RequestRun DEF Dispatch
  <2>2. request'[h].op # "approve" /\ \A g \in Requests \ {h} : request'[g] = request[g]
    BY <1>10 DEF Dispatch, Finish, TypeOK, IdleRequest
  <2>3. /\ \A q \in Runs \ {r} : queue'["submit"][q] = queue["submit"][q]
        /\ queue'["submit"][r] = IF request[h].op = "approve" THEN queue["submit"][r] + 1
                                 ELSE queue["submit"][r]
        /\ UNCHANGED <<worker, ledger>>
    BY <1>10, <2>1 DEF Dispatch, TypeOK
  <2>4. \A q \in Runs : Approving(q)' \subseteq Approving(q) \ {h}
    BY <2>2 DEF Approving
  <2>5. request[h].op = "approve" => h \in Approving(r)
    BY <2>1 DEF Approving
  <2> SUFFICES ASSUME NEW q \in Runs
               PROVE  ledger'[q].sends + queue'["submit"][q] + Cardinality(Approving(q)')
                          + Cardinality(Submitting(q)') <= ledger'[q].approvals
    BY DEF Approved
  <2>6. /\ ledger[q].sends + queue["submit"][q] + Cardinality(Approving(q))
             + Cardinality(Submitting(q)) <= ledger[q].approvals
        /\ Submitting(q)' = Submitting(q)
    BY <2>3 DEF Approved, Submitting
  <2>7. /\ ledger[q].sends \in Nat /\ ledger[q].approvals \in Nat /\ queue["submit"][q] \in Nat
        /\ Cardinality(Approving(q)) \in Nat /\ Cardinality(Submitting(q)) \in Nat
        /\ IsFiniteSet(Approving(q))
    BY CountTypes, ProcessesFinite
  <2>8. CASE q = r /\ request[h].op = "approve"
    <3>1. /\ Cardinality(Approving(q)') \in Nat
          /\ Cardinality(Approving(q)') + 1 <= Cardinality(Approving(q))
      BY <2>4, <2>5, <2>7, <2>8, CountLess
    <3> QED
      BY <2>3, <2>6, <2>7, <2>8, <3>1
  <2>9. CASE ~(q = r /\ request[h].op = "approve")
    <3>1. /\ Cardinality(Approving(q)') \in Nat
          /\ Cardinality(Approving(q)') <= Cardinality(Approving(q))
      BY <2>4, <2>7, CountKept
    <3>2. queue'["submit"][q] = queue["submit"][q]
      BY <2>3, <2>9
    <3> QED
      BY <2>3, <2>6, <2>7, <3>1, <3>2
  <2> QED
    BY <2>8, <2>9
<1> QED
  BY <1>3, <1>4, <1>5, <1>6, <1>7, <1>8, <1>9, <1>10 DEF RequestStarts, RequestContinues

LEMMA SubmittingAdvances ==
    ASSUME NEW w \in Workers, NEW pc, Advances(w, pc), pc \notin {"fill", "click"}
    PROVE  \A r \in Runs : Submitting(r)' \subseteq Submitting(r) \ {w}
<1>1. IdleWorker.pc = "idle"
  BY DEF IdleWorker
<1> QED
  BY <1>1 DEF Submitting, Advances

LEMMA WorkerApproves ==
    ASSUME TypeOK, TypeOK', Approved, NEW w \in Workers,
           TakesTask(w) \/ WorkerContinues(w) \/ RecordFails(w) \/ WorkerCrash(w)
    PROVE  Approved'
<1> DEFINE r == worker[w].run
<1>1. ASSUME \A q \in Runs : Submitting(q)' \subseteq Submitting(q),
             \A q \in Runs : queue'["submit"][q] <= queue["submit"][q],
             UNCHANGED request,
             \A q \in Runs : /\ ledger'[q].sends = ledger[q].sends
                             /\ ledger'[q].approvals = ledger[q].approvals
      PROVE  Approved'
  <2>1. \A q \in Runs : Approving(q)' \subseteq Approving(q)
    BY <1>1 DEF Approving
  <2> QED
    BY <1>1, <2>1, ApprovedKept
<1>2. ASSUME NEW pc \in WorkerPcs \ {"fill", "click"}, Advances(w, pc), UNCHANGED <<queue, request>>,
             \A q \in Runs : /\ ledger'[q].sends = ledger[q].sends
                             /\ ledger'[q].approvals = ledger[q].approvals
      PROVE  Approved'
  <2>1. \A q \in Runs : Submitting(q)' \subseteq Submitting(q)
    BY <1>2, SubmittingAdvances
  <2>2. \A q \in Runs : queue'["submit"][q] <= queue["submit"][q]
    BY <1>2, CountTypes
  <2> QED
    BY <1>1, <1>2, <2>1, <2>2
<1>3. ASSUME NEW q \in Runs, TakePrepare(w, q) PROVE Approved'
  <2>1. \A p \in Runs : queue'["submit"][p] <= queue["submit"][p]
    BY <1>3, CountTypes DEF TakePrepare, TypeOK
  <2>2. \/ UNCHANGED worker
        \/ worker'[w].pc \in {"begin", "stop"} /\ \A v \in Workers \ {w} : worker'[v] = worker[v]
    BY <1>3 DEF TakePrepare, Take, TypeOK
  <2>3. \A p \in Runs : Submitting(p)' \subseteq Submitting(p)
    BY <2>2 DEF Submitting
  <2> QED
    BY <1>1, <1>3, <2>1, <2>3 DEF TakePrepare
<1>4. ASSUME NEW q \in Runs, TakeSubmit(w, q) PROVE Approved'
  <2>1. /\ queue["submit"][q] > 0 /\ queue'["submit"][q] = queue["submit"][q] - 1
        /\ \A p \in Runs \ {q} : queue'["submit"][p] = queue["submit"][p]
        /\ UNCHANGED <<request, ledger>>
    BY <1>4 DEF TakeSubmit, TypeOK
  <2>2. \/ UNCHANGED worker
        \/ worker'[w].run = q /\ \A v \in Workers \ {w} : worker'[v] = worker[v]
    BY <1>4 DEF TakeSubmit, Take, TypeOK
  <2>3. /\ Submitting(q)' \subseteq Submitting(q) \cup {w}
        /\ \A p \in Runs \ {q} : Submitting(p)' \subseteq Submitting(p)
    BY <2>2 DEF Submitting
  <2> SUFFICES ASSUME NEW p \in Runs
               PROVE  ledger'[p].sends + queue'["submit"][p] + Cardinality(Approving(p)')
                          + Cardinality(Submitting(p)') <= ledger'[p].approvals
    BY DEF Approved
  <2>4. /\ ledger[p].sends + queue["submit"][p] + Cardinality(Approving(p))
             + Cardinality(Submitting(p)) <= ledger[p].approvals
        /\ Approving(p)' = Approving(p)
    BY <2>1 DEF Approved, Approving
  <2>5. /\ ledger[p].sends \in Nat /\ ledger[p].approvals \in Nat /\ queue["submit"][p] \in Nat
        /\ Cardinality(Approving(p)) \in Nat /\ Cardinality(Submitting(p)) \in Nat
        /\ IsFiniteSet(Submitting(p))
    BY CountTypes, ProcessesFinite
  <2>6. CASE p = q
    <3>1. /\ Cardinality(Submitting(p)') \in Nat
          /\ Cardinality(Submitting(p)') <= Cardinality(Submitting(p)) + 1
      BY <2>3, <2>5, <2>6, CountMore
    <3> QED
      BY <2>1, <2>4, <2>5, <2>6, <3>1
  <2>7. CASE p # q
    <3>1. /\ Cardinality(Submitting(p)') \in Nat
          /\ Cardinality(Submitting(p)') <= Cardinality(Submitting(p))
      BY <2>3, <2>5, <2>7, CountKept
    <3> QED
      BY <2>1, <2>4, <2>5, <2>7, <3>1
  <2> QED
    BY <2>6, <2>7
<1>5. ASSUME FormFilled(w) PROVE Approved'
  <2>1. /\ worker[w].pc = "fill" /\ worker'[w].run = r
        /\ \A v \in Workers \ {w} : worker'[v] = worker[v]
    BY <1>5 DEF FormFilled, TypeOK, OpenTask, Task
  <2>2. \A p \in Runs : Submitting(p)' \subseteq Submitting(p)
    BY <2>1 DEF Submitting
  <2>3. \A p \in Runs : queue'["submit"][p] <= queue["submit"][p]
    BY <1>5, CountTypes DEF FormFilled
  <2> QED
    BY <1>1, <1>5, <2>2, <2>3 DEF FormFilled
<1>6. ASSUME Send(w) PROVE Approved'
  <2>1. r \in Runs /\ worker[w].pc = "click" /\ w \in Submitting(r)
    BY <1>6, WorkerRun DEF Send, Submitting
  <2>2. Advances(w, "confirm")
    BY <1>6, Advancing DEF Send
  <2>3. \A q \in Runs : Submitting(q)' \subseteq Submitting(q) \ {w}
    BY <2>2, SubmittingAdvances
  <2>4. /\ ledger'[r].sends = ledger[r].sends + 1
        /\ ledger'[r].approvals = ledger[r].approvals
        /\ \A q \in Runs \ {r} : ledger'[q] = ledger[q]
        /\ UNCHANGED <<request, queue>>
    BY <1>6, <2>1 DEF Send, TypeOK, History
  <2> SUFFICES ASSUME NEW q \in Runs
               PROVE  ledger'[q].sends + queue'["submit"][q] + Cardinality(Approving(q)')
                          + Cardinality(Submitting(q)') <= ledger'[q].approvals
    BY DEF Approved
  <2>5. /\ ledger[q].sends + queue["submit"][q] + Cardinality(Approving(q))
             + Cardinality(Submitting(q)) <= ledger[q].approvals
        /\ Approving(q)' = Approving(q)
    BY <2>4 DEF Approved, Approving
  <2>6. /\ ledger[q].sends \in Nat /\ ledger[q].approvals \in Nat /\ queue["submit"][q] \in Nat
        /\ Cardinality(Approving(q)) \in Nat /\ Cardinality(Submitting(q)) \in Nat
        /\ IsFiniteSet(Submitting(q))
    BY CountTypes, ProcessesFinite
  <2>7. CASE q = r
    <3>1. /\ Cardinality(Submitting(q)') \in Nat
          /\ Cardinality(Submitting(q)') + 1 <= Cardinality(Submitting(q))
      BY <2>1, <2>3, <2>6, <2>7, CountLess
    <3> QED
      BY <2>4, <2>5, <2>6, <2>7, <3>1
  <2>8. CASE q # r
    <3>1. /\ Cardinality(Submitting(q)') \in Nat
          /\ Cardinality(Submitting(q)') <= Cardinality(Submitting(q))
      BY <2>3, <2>6, CountKept
    <3> QED
      BY <2>4, <2>5, <2>6, <2>8, <3>1
  <2> QED
    BY <2>7, <2>8
<1>7. ASSUME Confirm(w) PROVE Approved'
  <2>1. Advances(w, "record") /\ UNCHANGED <<queue, request>>
    BY <1>7, Advancing DEF Confirm
  <2>2. \A q \in Runs : /\ ledger'[q].sends = ledger[q].sends
                        /\ ledger'[q].approvals = ledger[q].approvals
    BY <1>7 DEF Confirm, TypeOK, History
  <2> QED
    BY <1>2, <2>1, <2>2 DEF WorkerPcs
<1>8. ASSUME Begin(w) \/ FormStops(w) \/ FormRead(w) \/ FormHandedOver(w) \/ FormAnswered(w)
                 \/ SubmitStops(w)
      PROVE  Approved'
  <2>1. \E pc \in {"last", "record", "decide"} : Advances(w, pc)
    BY <1>8, Advancing
    DEF Begin, FormStops, FormRead, FormHandedOver, FormAnswered, SubmitStops
  <2>2. UNCHANGED <<queue, request, ledger>>
    BY <1>8 DEF Begin, FormStops, FormRead, FormHandedOver, FormAnswered, SubmitStops
  <2> QED
    BY <1>2, <2>1, <2>2 DEF WorkerPcs
<1>9. ASSUME WorkerRecord(w) \/ WorkerApplied(w) \/ RecordFails(w) \/ WorkerCrash(w) PROVE Approved'
  <2>1. \E pc \in {"form", "apply", "last", "idle"} : Advances(w, pc)
    BY <1>9, Advancing DEF WorkerRecord, WorkerApplied, RecordFails, WorkerCrash
  <2>2. UNCHANGED <<queue, request, ledger>>
    BY <1>9 DEF WorkerRecord, WorkerApplied, RecordFails, WorkerCrash
  <2> QED
    BY <1>2, <2>1, <2>2 DEF WorkerPcs
<1> QED
  BY <1>3, <1>4, <1>5, <1>6, <1>7, <1>8, <1>9 DEF TakesTask, WorkerContinues

LEMMA InitApproved == Init => Approved
<1> SUFFICES ASSUME Init, NEW r \in Runs
             PROVE  ledger[r].sends + queue["submit"][r] + Cardinality(Approving(r))
                        + Cardinality(Submitting(r)) <= ledger[r].approvals
  BY DEF Approved
<1>1. Approving(r) = {} /\ Submitting(r) = {}
  BY DEF Init, Approving, Submitting, IdleRequest, IdleWorker
<1>2. ledger[r].sends = 0 /\ ledger[r].approvals = 0 /\ queue["submit"][r] = 0
  BY DEF Init, NoSends
<1> QED
  BY <1>1, <1>2, FS_EmptySet

\* Rows are inserted once and never deleted, whoever works on them.
LEMMA RowsHold == Spec => []Rows
<1>1. TypeOK /\ Rows /\ [Next]_vars => Rows'
  <2> SUFFICES ASSUME TypeOK, Rows, [Next]_vars PROVE Rows'
    OBVIOUS
  <2>1. CASE UNCHANGED vars
    BY <2>1, RowsKept DEF vars, SameRows
  <2>2. ASSUME NEW switch \in Switches, SwitchOn(switch) PROVE Rows'
    BY <2>2, RowsKept DEF SwitchOn, SameRows
  <2> QED
    BY <2>1, <2>2, RequestRows, WorkerRows DEF Next
<1> QED
  BY TypeCorrect, InitRows, <1>1, PTL DEF Spec

\* The employer receives at most one application per approval of the run, for
\* any number of requests, workers and approvals that race each other, die,
\* or are carried out late.
THEOREM EverySendWasApproved == Spec => []SendsNeedApprovals
<1>1. TypeOK /\ TypeOK' /\ Rows /\ Approved /\ [Next]_vars => Approved'
  <2> SUFFICES ASSUME TypeOK, TypeOK', Rows, Approved, [Next]_vars PROVE Approved'
    OBVIOUS
  <2>1. ASSUME UNCHANGED <<request, worker, queue, ledger>> PROVE Approved'
    <3>1. \A r \in Runs : /\ Approving(r)' = Approving(r) /\ Submitting(r)' = Submitting(r)
                          /\ queue["submit"][r] \in Nat
      BY <2>1, CountTypes DEF Approving, Submitting
    <3> QED
      BY <2>1, <3>1, ApprovedKept
  <2>2. CASE UNCHANGED vars
    BY <2>1, <2>2 DEF vars
  <2>3. ASSUME NEW switch \in Switches, SwitchOn(switch) PROVE Approved'
    BY <2>1, <2>3 DEF SwitchOn
  <2> QED
    BY <2>2, <2>3, RequestApproves, WorkerApproves DEF Next
<1>2. TypeOK /\ Approved => SendsNeedApprovals
  <2> SUFFICES ASSUME TypeOK, Approved, NEW r \in Runs
               PROVE  ledger[r].sends <= ledger[r].approvals
    BY DEF SendsNeedApprovals
  <2>1. ledger[r].sends + queue["submit"][r] + Cardinality(Approving(r))
            + Cardinality(Submitting(r)) <= ledger[r].approvals
    BY DEF Approved
  <2> QED
    BY <2>1, CountTypes, ProcessesFinite
<1> QED
  BY TypeCorrect, RowsHold, InitApproved, <1>1, <1>2, PTL DEF Spec

----------------------------------------------------------------------------
(* The daily cap *)

\* Workers past the check of the caps whose application is not confirmed yet.
Underway == {w \in Workers : worker[w].pc \in {"fill", "click", "confirm"}}

\* What was confirmed counts towards the cap.
ConfirmedCounts ==
    \A r \in Confirmed : ~Fast(r) /\ run[r].submitted /\ run[r].state # "none"

Capped == Cardinality(Confirmed) + Cardinality(Underway) < DailyCap + Cardinality(Workers)

LEMMA CapTypes ==
    /\ IsFiniteSet(Confirmed) /\ Cardinality(Confirmed) \in Nat
    /\ IsFiniteSet(Underway) /\ Cardinality(Underway) \in Nat
    /\ Cardinality(Underway) <= Cardinality(Workers)
    /\ Cardinality(Workers) \in Nat \ {0} /\ DailyCap \in Nat
<1>1. Confirmed \subseteq Runs /\ Underway \subseteq Workers
  BY DEF Confirmed, Underway
<1>2. Cardinality(Workers) # 0
  BY ApplyConstants, FS_EmptySet
<1> QED
  BY <1>1, <1>2, FS_Subset, FS_CardinalityType, ApplyConstants

\* Rows that stay, and confirmations that stay, are counted as before.
LEMMA CountsStay ==
    ASSUME ConfirmedCounts, Confirmed' \subseteq Confirmed,
           \A r \in Confirmed : /\ run[r].state # "none" => run'[r].state # "none"
                                /\ run[r].state # "none" /\ run[r].submitted => run'[r].submitted
    PROVE  ConfirmedCounts'
BY DEF ConfirmedCounts, Fast, AdapterOf

LEMMA CappedKept ==
    ASSUME Capped, Confirmed' \subseteq Confirmed, Underway' \subseteq Underway
    PROVE  Capped'
<1>1. /\ Cardinality(Confirmed') \in Nat /\ Cardinality(Underway') \in Nat
      /\ Cardinality(Confirmed') <= Cardinality(Confirmed)
      /\ Cardinality(Underway') <= Cardinality(Underway)
  BY CapTypes, CountKept
<1>2. Cardinality(Confirmed') + Cardinality(Underway') < DailyCap + Cardinality(Workers)
  BY <1>1, CapTypes DEF Capped
<1> QED
  BY <1>2 DEF Capped

\* A row that is there stays, and stays counted as submitted.
RowsGoOn ==
    \A q \in Runs : run[q].state # "none" =>
        run'[q].state # "none" /\ (run[q].submitted => run'[q].submitted)

LEMMA TransitionGoesOn ==
    ASSUME TypeOK, NEW r \in Runs, NEW state \in States, NEW nokey, Transition(r, state, nokey)
    PROVE  RowsGoOn
<1>1. /\ run'[r].state # "none" /\ run'[r].submitted = run[r].submitted
      /\ \A q \in Runs \ {r} : run'[q] = run[q]
  BY TransitionIs DEF States, ActiveStates, EndStates
<1> QED
  BY <1>1 DEF RowsGoOn

\* Requests do not take back that a run was submitted, and confirm nothing.
LEMMA RequestKeepsCounts ==
    ASSUME TypeOK, Rows, NEW h \in Requests,
           RequestStarts(h) \/ RequestContinues(h) \/ RequestCrash(h)
    PROVE  RowsGoOn /\ Confirmed' = Confirmed /\ UNCHANGED worker
<1> DEFINE r == request[h].run
<1>1. ASSUME NEW q \in Runs,
             CreateCheck(h, q) \/ CreateInBrowserCheck(h, q) \/ AnswerLoad(h, q)
                 \/ ApproveLoad(h, q) \/ CancelLoad(h, q) \/ DoneLoad(h, q)
                 \/ ClosedLoad(h, q) \/ BrowserLoad(h, q)
      PROVE  UNCHANGED <<run, ledger, worker>>
  BY <1>1 DEF CreateCheck, CreateInBrowserCheck, AnswerLoad, ApproveLoad, CancelLoad, DoneLoad,
              ClosedLoad, BrowserLoad
<1>2. ASSUME \/ \E switch \in Switches : SwitchOff(h, switch)
             \/ CancelledAll(h) \/ RequestRecord(h) \/ RequestApplied(h) \/ Dispatch(h)
             \/ RequestCrash(h)
      PROVE  UNCHANGED <<run, ledger, worker>>
  BY <1>2 DEF SwitchOff, CancelledAll, RequestRecord, RequestApplied, Dispatch, RequestCrash
<1>3. ASSUME UNCHANGED <<run, ledger, worker>>
      PROVE  RowsGoOn /\ Confirmed' = Confirmed /\ UNCHANGED worker
  BY <1>3 DEF RowsGoOn, Confirmed
<1>4. ASSUME CreateInsert(h) PROVE RowsGoOn /\ Confirmed' = Confirmed /\ UNCHANGED worker
  <2>1. r \in Runs /\ run[r].state = "none"
    BY <1>4, RequestRun DEF CreateInsert, Rows, RowsFresh, Creating
  <2>2. \A q \in Runs \ {r} : run'[q] = run[q]
    BY <1>4, <2>1 DEF CreateInsert, TypeOK
  <2>3. UNCHANGED <<ledger, worker>>
    BY <1>4 DEF CreateInsert
  <2> QED
    BY <2>1, <2>2, <2>3 DEF RowsGoOn, Confirmed
<1>5. ASSUME RowsGoOn, UNCHANGED <<ledger, worker>>
      PROVE  RowsGoOn /\ Confirmed' = Confirmed /\ UNCHANGED worker
  BY <1>5 DEF Confirmed
<1>6. ASSUME CreateConfirm(h) PROVE RowsGoOn /\ Confirmed' = Confirmed /\ UNCHANGED worker
  <2>1. r \in Runs /\ request[h].status \in States
    BY <1>6, RequestRun DEF CreateConfirm, TypeOK, OpenRequest, States, ActiveStates
  <2> QED
    BY <1>5, <1>6, <2>1, TransitionGoesOn DEF CreateConfirm
<1>7. ASSUME AnswerWrite(h) PROVE RowsGoOn /\ Confirmed' = Confirmed /\ UNCHANGED worker
  <2>1. r \in Runs
    BY <1>7, RequestRun DEF AnswerWrite
  <2>2. /\ run'[r].state = run[r].state /\ run'[r].submitted = run[r].submitted
        /\ \A q \in Runs \ {r} : run'[q] = run[q]
    BY <1>7, <2>1 DEF AnswerWrite, TypeOK, Row
  <2>3. RowsGoOn
    BY <2>2 DEF RowsGoOn
  <2> QED
    BY <1>5, <1>7, <2>3 DEF AnswerWrite
<1>8. ASSUME AnswerAfter(h) PROVE RowsGoOn /\ Confirmed' = Confirmed /\ UNCHANGED worker
  <2> DEFINE state == AfterAnswers(run[r].plan)
  <2>1. r \in Runs /\ run[r].plan \in Plan
    BY <1>8, RequestRun DEF AnswerAfter, TypeOK, Row
  <2>2. state \in States
    BY <2>1, AfterAnswersType DEF States, ActiveStates
  <2>3. Transition(r, state, {}) /\ UNCHANGED <<ledger, worker>>
    BY <1>8 DEF AnswerAfter
  <2> HIDE DEF state
  <2> QED
    BY <1>5, <2>1, <2>2, <2>3, TransitionGoesOn
<1>9. ASSUME CancelWrite(h) \/ ClosedWrite(h)
      PROVE  RowsGoOn /\ Confirmed' = Confirmed /\ UNCHANGED worker
  <2>1. r \in Runs /\ UNCHANGED <<ledger, worker>>
    BY <1>9, RequestRun DEF CancelWrite, ClosedWrite
  <2>2. \E state \in States, nokey \in {request[h].nokey} : Transition(r, state, nokey)
    BY <1>9 DEF CancelWrite, ClosedWrite, States, EndStates
  <2> QED
    BY <1>5, <2>1, <2>2, TransitionGoesOn
<1>10. ASSUME ApproveWrite(h) PROVE RowsGoOn /\ Confirmed' = Confirmed /\ UNCHANGED worker
  <2>1. r \in Runs /\ Transition(r, "submitting", {}) /\ UNCHANGED worker
    BY <1>10, RequestRun DEF ApproveWrite
  <2>2. RowsGoOn
    BY <2>1, TransitionGoesOn DEF States, ActiveStates
  <2>3. \A q \in Runs : ledger'[q].confirmed = ledger[q].confirmed
    BY <1>10, <2>1 DEF ApproveWrite, TypeOK, History
  <2> QED
    BY <2>1, <2>2, <2>3 DEF Confirmed
<1>11. ASSUME DoneWrite(h) PROVE RowsGoOn /\ Confirmed' = Confirmed /\ UNCHANGED worker
  <2>1. /\ run'[r].state # "none" /\ (run[r].submitted => run'[r].submitted)
        /\ \A q \in Runs \ {r} : run'[q] = run[q]
    BY <1>11, DoneIs
  <2>2. RowsGoOn
    BY <2>1 DEF RowsGoOn
  <2> QED
    BY <1>5, <1>11, <2>2 DEF DoneWrite
<1>12. ASSUME BrowserWrite(h) PROVE RowsGoOn /\ Confirmed' = Confirmed /\ UNCHANGED worker
  <2>1. \/ UNCHANGED run
        \/ /\ run'[r].state # "none" /\ run'[r].submitted = run[r].submitted
           /\ \A q \in Runs \ {r} : run'[q] = run[q]
    BY <1>12, BrowserIs
  <2>2. RowsGoOn
    BY <2>1 DEF RowsGoOn
  <2> QED
    BY <1>5, <1>12, <2>2 DEF BrowserWrite
<1>13. ASSUME CancelNext(h) PROVE RowsGoOn /\ Confirmed' = Confirmed /\ UNCHANGED worker
  <2>1. \E q \in Runs, nokey \in {request[h].nokey} : Transition(q, "cancelled", nokey)
    BY <1>13 DEF CancelNext, TypeOK, OpenRequest, Request
  <2>2. RowsGoOn
    BY <2>1, TransitionGoesOn DEF States, EndStates
  <2> QED
    BY <1>5, <1>13, <2>2 DEF CancelNext
<1> QED
  BY <1>1, <1>2, <1>3, <1>4, <1>6, <1>7, <1>8, <1>9, <1>10, <1>11, <1>12, <1>13
  DEF RequestStarts, RequestContinues

\* A worker keeps what was confirmed counted, and confirms only what it was
\* past the check with.
LEMMA WorkerKeepsCap ==
    ASSUME TypeOK, FastInv, Rows, ConfirmedCounts, Capped, NEW w \in Workers,
           TakesTask(w) \/ WorkerContinues(w) \/ RecordFails(w) \/ WorkerCrash(w)
    PROVE  ConfirmedCounts' /\ Capped'
<1> DEFINE r == worker[w].run
<1>1. ASSUME RowsGoOn, Confirmed' = Confirmed, Underway' \subseteq Underway
      PROVE  ConfirmedCounts' /\ Capped'
  <2>1. Confirmed \subseteq Runs
    BY DEF Confirmed
  <2> QED
    BY <1>1, <2>1, CountsStay, CappedKept DEF RowsGoOn
<1>2. ASSUME NEW pc, pc \notin {"fill", "click", "confirm"}, Advances(w, pc)
      PROVE  Underway' \subseteq Underway \ {w}
  <2>1. worker'[w].pc \notin {"fill", "click", "confirm"}
    BY <1>2 DEF Advances, IdleWorker
  <2> QED
    BY <1>2, <2>1 DEF Underway, Advances
<1>3. ASSUME UNCHANGED <<run, ledger>>
      PROVE  RowsGoOn /\ Confirmed' = Confirmed
  BY <1>3 DEF RowsGoOn, Confirmed
<1>4. ASSUME NEW q \in Runs, TakePrepare(w, q) PROVE ConfirmedCounts' /\ Capped'
  <2>1. \/ UNCHANGED worker
        \/ worker'[w].pc \in {"begin", "stop"} /\ \A v \in Workers \ {w} : worker'[v] = worker[v]
    BY <1>4 DEF TakePrepare, Take, TypeOK
  <2>2. Underway' \subseteq Underway
    BY <2>1 DEF Underway
  <2> QED
    BY <1>1, <1>3, <1>4, <2>2 DEF TakePrepare
<1>5. ASSUME NEW q \in Runs, TakeSubmit(w, q) PROVE ConfirmedCounts' /\ Capped'
  <2>1. RowsGoOn /\ Confirmed' = Confirmed
    BY <1>3, <1>5 DEF TakeSubmit
  <2>2. CASE UNCHANGED worker \/ Take(w, "submit", q, "stop", SubmitVerdict(q))
    <3>1. \/ UNCHANGED worker
          \/ worker'[w].pc = "stop" /\ \A v \in Workers \ {w} : worker'[v] = worker[v]
      BY <2>2 DEF Take, TypeOK
    <3>2. Underway' \subseteq Underway
      BY <3>1 DEF Underway
    <3> QED
      BY <1>1, <2>1, <3>2
  <2>3. CASE SubmitVerdict(q) = "submitting"
    <3>1. UnderCaps(q)
      BY <2>3 DEF SubmitVerdict, SwitchesOn
    <3>2. Confirmed \subseteq SubmittedToday({"greenhouse", "lever", "generic"})
      <4>1. ASSUME NEW p \in Confirmed
            PROVE  /\ p \in Runs /\ ~Fast(p) /\ run[p].submitted
                   /\ AdapterOf(p) \in {"greenhouse", "lever", "generic"}
        <5>1. p \in Runs /\ ~Fast(p) /\ run[p].submitted
          BY <4>1 DEF Confirmed, ConfirmedCounts
        <5>2. AdapterOf(p) \in {"greenhouse", "lever", "generic", "linkedin"}
          BY <5>1, ApplyConstants DEF AdapterOf
        <5> QED
          BY <5>1, <5>2 DEF Fast
      <4> QED
        BY <4>1 DEF SubmittedToday
    <3>3. /\ IsFiniteSet(SubmittedToday({"greenhouse", "lever", "generic"}))
          /\ Cardinality(SubmittedToday({"greenhouse", "lever", "generic"})) \in Nat
      <4>1. SubmittedToday({"greenhouse", "lever", "generic"}) \subseteq Runs
        BY DEF SubmittedToday
      <4> QED
        BY <4>1, FS_Subset, FS_CardinalityType, ApplyConstants
    <3>4. Cardinality(SubmittedToday({"greenhouse", "lever", "generic"})) < DailyCap
      BY <3>1 DEF UnderCaps
    <3>5. Cardinality(Confirmed) < DailyCap
      BY <3>2, <3>3, <3>4, CountKept, CapTypes
    <3>6. /\ Cardinality(Underway') \in Nat /\ Cardinality(Underway') <= Cardinality(Workers)
      <4>1. Underway' \subseteq Workers
        BY DEF Underway
      <4> QED
        BY <4>1, CountKept, ApplyConstants
    <3>7. Cardinality(Confirmed') + Cardinality(Underway') < DailyCap + Cardinality(Workers)
      BY <2>1, <3>5, <3>6, CapTypes
    <3>8. ConfirmedCounts'
      <4>1. Confirmed \subseteq Runs
        BY DEF Confirmed
      <4> QED
        BY <2>1, <4>1, CountsStay DEF RowsGoOn
    <3> QED
      BY <3>7, <3>8 DEF Capped
  <2> QED
    BY <1>5, <2>2, <2>3 DEF TakeSubmit
<1>6. ASSUME Begin(w) \/ FormStops(w) \/ FormHandedOver(w) \/ SubmitStops(w) \/ RecordFails(w)
      PROVE  ConfirmedCounts' /\ Capped'
  <2>1. r \in Runs /\ UNCHANGED ledger
    BY <1>6, WorkerRun DEF Begin, FormStops, FormHandedOver, SubmitStops, RecordFails
  <2>2. worker[w].pc \in {"begin", "stop"} => worker[w].status \in States
    BY DEF TypeOK, OpenTask, States
  <2>3. \E state \in States, nokey \in {{}, worker[w].nokey} : Transition(r, state, nokey)
    BY <1>6, <2>2
    DEF Begin, FormStops, FormHandedOver, SubmitStops, RecordFails, States, EndStates
  <2>4. RowsGoOn
    BY <2>1, <2>3, TransitionGoesOn
  <2>5. \E pc \in {"last", "record"} : Advances(w, pc)
    BY <1>6, Advancing DEF Begin, FormStops, FormHandedOver, SubmitStops, RecordFails
  <2>6. Underway' \subseteq Underway
    BY <1>2, <2>5
  <2>7. Confirmed' = Confirmed
    BY <2>1 DEF Confirmed
  <2> QED
    BY <1>1, <2>4, <2>6, <2>7
<1>7. ASSUME FormAnswered(w) PROVE ConfirmedCounts' /\ Capped'
  <2> DEFINE state == AfterAnswers(run[r].plan)
  <2>1. r \in Runs /\ run[r].plan \in Plan
    BY <1>7, WorkerRun DEF FormAnswered, TypeOK, Row
  <2>2. state \in States
    BY <2>1, AfterAnswersType DEF States, ActiveStates
  <2>3. Transition(r, state, {}) /\ UNCHANGED ledger
    BY <1>7 DEF FormAnswered
  <2>4. \E pc \in {"last", "record"} : Advances(w, pc)
    BY <1>7, Advancing DEF FormAnswered
  <2> HIDE DEF state
  <2>5. RowsGoOn
    BY <2>1, <2>2, <2>3, TransitionGoesOn
  <2>6. Underway' \subseteq Underway
    BY <1>2, <2>4
  <2>7. Confirmed' = Confirmed
    BY <2>3 DEF Confirmed
  <2> QED
    BY <1>1, <2>5, <2>6, <2>7
<1>8. ASSUME FormRead(w) PROVE ConfirmedCounts' /\ Capped'
  <2>1. r \in Runs
    BY <1>8, WorkerRun DEF FormRead
  <2>2. /\ run'[r].state = run[r].state /\ run'[r].submitted = run[r].submitted
        /\ \A q \in Runs \ {r} : run'[q] = run[q]
    BY <1>8, <2>1 DEF FormRead, TypeOK, Row
  <2>3. RowsGoOn
    BY <2>2 DEF RowsGoOn
  <2>4. Advances(w, "decide") /\ UNCHANGED ledger
    BY <1>8, Advancing DEF FormRead
  <2>5. Underway' \subseteq Underway /\ Confirmed' = Confirmed
    BY <1>2, <2>4 DEF Confirmed
  <2> QED
    BY <1>1, <2>3, <2>5
<1>9. ASSUME FormFilled(w) \/ Send(w) PROVE ConfirmedCounts' /\ Capped'
  <2>1. worker[w].pc \in {"fill", "click"} /\ \A v \in Workers \ {w} : worker'[v] = worker[v]
    BY <1>9 DEF FormFilled, Send, Working, TypeOK
  <2>2. Underway' \subseteq Underway
    BY <2>1 DEF Underway
  <2>3. RowsGoOn
    BY <1>9 DEF FormFilled, Send, RowsGoOn
  <2>4. \A q \in Runs : ledger'[q].confirmed = ledger[q].confirmed
    <3>1. CASE FormFilled(w)
      BY <3>1 DEF FormFilled
    <3>2. CASE Send(w)
      <4>1. r \in Runs
        BY <3>2, WorkerRun DEF Send
      <4>2. \A q \in Runs \ {r} : ledger'[q] = ledger[q]
        BY <3>2 DEF Send, TypeOK
      <4>3. ledger'[r].confirmed = ledger[r].confirmed
        BY <3>2, <4>1 DEF Send, TypeOK, History
      <4> QED
        BY <4>2, <4>3
    <3> QED
      BY <1>9, <3>1, <3>2
  <2>5. Confirmed' = Confirmed
    BY <2>4 DEF Confirmed
  <2> QED
    BY <1>1, <2>2, <2>3, <2>5
<1>10. ASSUME Confirm(w) PROVE ConfirmedCounts' /\ Capped'
  <2>1. /\ r \in Runs /\ run'[r].state # "none"
        /\ run[r].submitted => run'[r].submitted
        /\ run'[r].state = "submitted" => run'[r].submitted
        /\ \A q \in Runs \ {r} : run'[q] = run[q]
        /\ \/ UNCHANGED ledger
           \/ run'[r].state = "submitted" /\ ledger' = [ledger EXCEPT ![r].confirmed = TRUE]
    BY <1>10, ConfirmIs
  <2>2. RowsGoOn
    BY <2>1 DEF RowsGoOn
  <2>3. Advances(w, "record") /\ w \in Underway
    BY <1>10, Advancing DEF Confirm, Underway
  <2>4. Underway' \subseteq Underway \ {w}
    BY <1>2, <2>3
  <2>5. CASE UNCHANGED ledger
    BY <1>1, <2>2, <2>4, <2>5 DEF Confirmed
  <2>6. CASE run'[r].state = "submitted" /\ ledger' = [ledger EXCEPT ![r].confirmed = TRUE]
    <3>1. \A q \in Runs \ {r} : ledger'[q] = ledger[q]
      BY <2>1, <2>6 DEF TypeOK
    <3>2. Confirmed' \subseteq Confirmed \cup {r}
      BY <3>1 DEF Confirmed
    <3>3. ~Fast(r)
      BY <1>10 DEF Confirm, FastInv, FastWorkers
    <3>4. \A q \in Confirmed \cup {r} :
              ~Fast(q) /\ run'[q].submitted /\ run'[q].state # "none"
      BY <2>1, <2>2, <2>6, <3>3 DEF ConfirmedCounts, RowsGoOn, Confirmed
    <3>5. ConfirmedCounts'
      BY <3>2, <3>4 DEF ConfirmedCounts, Fast, AdapterOf
    <3>6. /\ Cardinality(Confirmed') \in Nat
          /\ Cardinality(Confirmed') <= Cardinality(Confirmed) + 1
      BY <3>2, CountMore, CapTypes
    <3>7. /\ Cardinality(Underway') \in Nat
          /\ Cardinality(Underway') + 1 <= Cardinality(Underway)
      BY <2>3, <2>4, CountLess, CapTypes
    <3>8. Cardinality(Confirmed') + Cardinality(Underway') < DailyCap + Cardinality(Workers)
      BY <3>6, <3>7, CapTypes DEF Capped
    <3> QED
      BY <3>5, <3>8 DEF Capped
  <2> QED
    BY <2>1, <2>5, <2>6
<1>11. ASSUME WorkerRecord(w) \/ WorkerApplied(w) \/ WorkerCrash(w)
       PROVE  ConfirmedCounts' /\ Capped'
  <2>1. \E pc \in {"form", "apply", "idle"} : Advances(w, pc)
    BY <1>11, Advancing DEF WorkerRecord, WorkerApplied, WorkerCrash
  <2>2. UNCHANGED <<run, ledger>>
    BY <1>11 DEF WorkerRecord, WorkerApplied, WorkerCrash
  <2>3. Underway' \subseteq Underway
    BY <1>2, <2>1
  <2> QED
    BY <1>1, <1>3, <2>2, <2>3
<1> QED
  BY <1>4, <1>5, <1>6, <1>7, <1>8, <1>9, <1>10, <1>11 DEF TakesTask, WorkerContinues

LEMMA InitCap == Init => ConfirmedCounts /\ Capped
<1> SUFFICES ASSUME Init PROVE ConfirmedCounts /\ Capped
  OBVIOUS
<1>1. Confirmed = {} /\ Underway = {}
  BY DEF Init, Confirmed, Underway, NoSends, IdleWorker
<1> QED
  BY <1>1, FS_EmptySet, CapTypes DEF ConfirmedCounts, Capped

\* The employers confirm fewer applications than the daily cap and as many as
\* there are workers: the check of the caps is minutes older than the send,
\* and that is all the overshoot there is.
THEOREM OvershootIsBounded == Spec => []CapOvershootIsBounded
<1>1. TypeOK /\ FastInv /\ Rows /\ ConfirmedCounts /\ Capped /\ [Next]_vars
          => ConfirmedCounts' /\ Capped'
  <2> SUFFICES ASSUME TypeOK, FastInv, Rows, ConfirmedCounts, Capped, [Next]_vars
               PROVE  ConfirmedCounts' /\ Capped'
    OBVIOUS
  <2>1. ASSUME RowsGoOn, Confirmed' = Confirmed, UNCHANGED worker
        PROVE  ConfirmedCounts' /\ Capped'
    <3>1. Confirmed \subseteq Runs /\ Underway' = Underway
      BY <2>1 DEF Confirmed, Underway
    <3> QED
      BY <2>1, <3>1, CountsStay, CappedKept DEF RowsGoOn
  <2>2. CASE UNCHANGED vars
    BY <2>1, <2>2 DEF vars, RowsGoOn, Confirmed
  <2>3. ASSUME NEW switch \in Switches, SwitchOn(switch) PROVE ConfirmedCounts' /\ Capped'
    BY <2>1, <2>3 DEF SwitchOn, RowsGoOn, Confirmed
  <2> QED
    BY <2>1, <2>2, <2>3, RequestKeepsCounts, WorkerKeepsCap DEF Next
<1>2. Capped => CapOvershootIsBounded
  BY CapTypes DEF Capped, CapOvershootIsBounded
<1> QED
  BY TypeCorrect, RowsHold, FastHolds, InitCap, <1>1, <1>2, PTL DEF Spec
=============================================================================
