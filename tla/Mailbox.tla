------------------------------ MODULE Mailbox ------------------------------
(***************************************************************************)
(* Gmail tracking (app/services/email_sync.py, gmail_accounts.py): a beat   *)
(* process claims the connected account when it is due, tasks of the e-mail *)
(* queue read its new messages, store one event for each that is about a    *)
(* job, have it classified, and move the matching application forward.      *)
(* The user connects and disconnects, deletes mail, asks for a sync,        *)
(* settles what was left for review, and sets statuses by hand.             *)
(*                                                                          *)
(* A step is one transaction or one call of Gmail.  Messages are numbered   *)
(* in the order of their arrival; a history id is the number of the next    *)
(* message to arrive, and 0 where the account has none.                     *)
(***************************************************************************)
EXTENDS Naturals, FiniteSets, FiniteSetsExt

CONSTANTS
    MaxMessages,    \* bound: messages that arrive, in any situation
    Apps,           \* applications of the user sent in the last 180 days
    Workers,        \* processes of the e-mail queue
    Requests,       \* requests that settle an event left for review
    Beats,          \* beat ticks that may overlap
    Categories,     \* what a message may be classified as
    UserStatuses,   \* statuses the user sets by hand
    MaxPerSync,     \* GMAIL_MAX_MESSAGES_PER_SYNC
    MaxGrants,      \* bound: times the user connects the account, in any situation
    MaxQueue,       \* bound: sync tasks waiting
    Scenes          \* the situations looked at, see Scene

Tasks == Workers \cup Requests
Messages == 1..MaxMessages

\* A situation: the processes that run, what else happens, how many messages
\* arrive, how often the user connects the account, and how many exceptions
\* and deaths of tasks and ticks there are.
Events == {"sync", "status", "delete", "revoke", "disconnect", "expire"}
Scene == [processes : SUBSET (Tasks \cup Beats), events : SUBSET Events,
          messages : 0..MaxMessages, grants : 0..MaxGrants, faults : Nat]

\* What an e-mail of a category makes of the application.
CategoryStatus ==
    [acknowledgement |-> "acknowledged", assessment |-> "assessment",
     interview_invite |-> "interview", offer |-> "offer", rejection |-> "rejected"]
Closed == {"accepted", "declined", "withdrawn"}
Rank == [submitted |-> 1, emailed |-> 1, done |-> 1, acknowledged |-> 2, assessment |-> 3,
         interview |-> 4, offer |-> 5]
Statuses == DOMAIN Rank \cup Closed \cup {"rejected"}

ASSUME MailboxConstants ==
    /\ {MaxMessages, MaxPerSync, MaxGrants, MaxQueue} \subseteq Nat
    /\ Categories \subseteq DOMAIN CategoryStatus
    /\ UserStatuses \subseteq Statuses
    /\ Scenes \subseteq Scene
    /\ Workers \cap Requests = {}

VARIABLES
    scene,      \* the situation, which never changes
    box,        \* messages that have arrived
    gone,       \* messages the user has deleted
    account,    \* the row of email_accounts
    event,      \* the rows of email_events, by message
    app,        \* the status of each application
    queue,      \* sync tasks waiting
    tick,       \* what each tick of beat is doing
    task,       \* what each task and request is doing
    ledger      \* history, for the properties

vars == <<scene, box, gone, account, event, app, queue, tick, task, ledger>>
mail == <<scene, box, gone>>

----------------------------------------------------------------------------
(* Values *)

\* `row` tells one connection of the address from the next, `grant` one
\* refresh token from the next, `valid` are the tokens Google still accepts;
\* `synced` stands for last_synced_at, `due` for next_sync_at having passed.
NoAccount == [status |-> "absent", row |-> 0, grant |-> 0, valid |-> {}, history |-> 0,
              synced |-> 0, due |-> FALSE]
AccountRow == [status : {"absent", "active", "needs_reconnect"}, row : Nat, grant : Nat,
               valid : SUBSET (1..MaxGrants), history : 0..MaxMessages + 1, synced : Nat, due : BOOLEAN]

EventStates == {"none", "pending", "applied", "needs_review", "ignored", "job_alert"}

IdleTask == [pc |-> "idle", phase |-> "new", row |-> 0, grant |-> 0, since |-> 0, latest |-> 0,
             history |-> FALSE, todo |-> {}, msg |-> 0, app |-> "none", status |-> "none"]
Steps == {"idle", "list", "profile", "next", "store", "alert", "classify", "judge",
          "record", "mark", "retry"}

\* `handled`: messages found not to be about a job; `lost`: messages a sync
\* passed over, see List and Profile; `shared`: messages two tasks worked on
\* at once, or whose task ended between the status and the mark; `writes`:
\* statuses written for each message, up to two; `claims`: claims since the account was
\* last due; `faults`: exceptions and deaths.
NoLedger == [handled |-> {}, lost |-> {}, shared |-> {}, writes |-> [m \in Messages |-> 0],
             claims |-> 0, faults |-> 0]

Init ==
    /\ scene \in Scenes
    /\ box = 0 /\ gone = {}
    /\ account = NoAccount
    /\ event = [m \in Messages |-> "none"]
    /\ app \in [Apps -> {"submitted"}]
    /\ queue = 0
    /\ tick = [b \in Beats |-> "idle"]
    /\ task = [w \in Tasks |-> IdleTask]
    /\ ledger = NoLedger

At(w, pc) == task[w].pc = pc
Goto(w, pc) == task' = [task EXCEPT ![w].pc = pc]
Ends(w) == task' = [task EXCEPT ![w] = IdleTask]

\* The account's row is still the one the task loaded.
Connected(w) == task[w].row = account.row /\ account.status # "absent"

\* A message is done with: a sync goes on to its next one, a request ends.
Continue(w) ==
    LET t == task[w] IN
    IF t.phase = "review" THEN IdleTask
    ELSE [t EXCEPT !.pc = IF t.phase = "new" THEN "next" ELSE "retry", !.msg = 0,
                   !.app = "none", !.status = "none"]

Newest(S, n) == {m \in S : Cardinality({k \in S : k > m}) < n}
Oldest(S, n) == {m \in S : Cardinality({k \in S : k < m}) < n}

\* The messages a task is working on or has listed to retry; those another
\* task takes as well are `shared` from then on.
InHand(w) == {task[w].msg} \cup IF task[w].phase = "retry" THEN task[w].todo ELSE {}
Share(w, S) ==
    [ledger EXCEPT !.shared = @ \cup {m \in S : \E v \in Tasks \ {w} : m \in InHand(v)}]

\* A new next_sync_at is later than the time every running tick read.
Outdated(ticks) == [b \in Beats |-> IF ticks[b] = "claim" THEN "lost" ELSE ticks[b]]

----------------------------------------------------------------------------
(* The mailbox and the account *)

Arrive ==
    /\ box < scene.messages
    /\ box' = box + 1
    /\ UNCHANGED <<scene, gone, account, event, app, queue, tick, task, ledger>>

DeleteMail(m) ==
    /\ "delete" \in scene.events
    /\ m \in (1..box) \ gone
    /\ gone' = gone \cup {m}
    /\ UNCHANGED <<scene, box, account, event, app, queue, tick, task, ledger>>

\* finish_connect: a row of its own for a new address, the same row (and the
\* same history id) where the address was connected before.
Connect ==
    /\ account.grant < scene.grants
    /\ LET kept == IF account.status = "absent"
                   THEN [NoAccount EXCEPT !.row = account.row + 1, !.grant = account.grant]
                   ELSE account
       IN account' = [kept EXCEPT !.status = "active", !.grant = @ + 1, !.due = TRUE,
                                  !.valid = @ \cup {account.grant + 1}]
    /\ tick' = Outdated(tick)
    /\ ledger' = [ledger EXCEPT !.claims = 0]
    /\ UNCHANGED <<mail, event, app, queue, task>>

\* The user withdraws the grant in the settings of the Google account.
Revoke ==
    /\ "revoke" \in scene.events
    /\ account.valid # {}
    /\ account' = [account EXCEPT !.valid = {}]
    /\ UNCHANGED <<mail, event, app, queue, tick, task, ledger>>

\* disconnect: the events go with the account, the statuses stay.
Disconnect ==
    /\ "disconnect" \in scene.events
    /\ account.status # "absent"
    /\ account' = [NoAccount EXCEPT !.row = account.row, !.grant = account.grant]
    /\ event' = [m \in Messages |-> "none"]
    /\ ledger' = [NoLedger EXCEPT !.faults = ledger.faults]
    /\ UNCHANGED <<mail, app, queue, tick, task>>

SyncNow ==
    /\ "sync" \in scene.events
    /\ account.status # "absent"
    /\ queue < MaxQueue
    /\ queue' = queue + 1
    /\ UNCHANGED <<mail, account, event, app, tick, task, ledger>>

\* A manual status, or one the apply engine or the browser recorded.
SetStatus(a, status) ==
    /\ "status" \in scene.events
    /\ app[a] # status
    /\ app' = [app EXCEPT ![a] = status]
    /\ UNCHANGED <<mail, account, event, queue, tick, task, ledger>>

----------------------------------------------------------------------------
(* Beat *)

\* next_sync_at passes.
TimePasses ==
    /\ account.status # "absent" /\ ~account.due
    /\ account' = [account EXCEPT !.due = TRUE]
    /\ ledger' = [ledger EXCEPT !.claims = 0]
    /\ UNCHANGED <<mail, event, app, queue, tick, task>>

\* claim_due: the SELECT.
TickReads(b) ==
    /\ b \in scene.processes
    /\ tick[b] = "idle"
    /\ account.status = "active" /\ account.due
    /\ tick' = [tick EXCEPT ![b] = "claim"]
    /\ UNCHANGED <<mail, account, event, app, queue, task, ledger>>

\* Fault: the account is claimed whatever happened since it was read.
TickClaimsAnyway(b) ==
    /\ tick[b] \in {"claim", "lost"}
    /\ account' = [account EXCEPT !.due = FALSE]
    /\ tick' = [Outdated(tick) EXCEPT ![b] = "queue"]
    /\ ledger' = [ledger EXCEPT !.claims = @ + 1]
    /\ UNCHANGED <<mail, event, app, queue, task>>

\* claim_due: the conditional UPDATE.
TickClaims(b) ==
    /\ tick[b] = "claim"
    /\ IF account.status # "absent"
       THEN /\ account' = [account EXCEPT !.due = FALSE]
            /\ tick' = [Outdated(tick) EXCEPT ![b] = "queue"]
            /\ ledger' = [ledger EXCEPT !.claims = @ + 1]
       ELSE /\ tick' = [tick EXCEPT ![b] = "idle"]
            /\ UNCHANGED <<account, ledger>>
    /\ UNCHANGED <<mail, event, app, queue, task>>

\* The UPDATE finds a later next_sync_at and claims nothing.
TickLoses(b) ==
    /\ tick[b] = "lost"
    /\ tick' = [tick EXCEPT ![b] = "idle"]
    /\ UNCHANGED <<mail, account, event, app, queue, task, ledger>>

TickQueues(b) ==
    /\ tick[b] = "queue"
    /\ queue < MaxQueue
    /\ queue' = queue + 1
    /\ tick' = [tick EXCEPT ![b] = "idle"]
    /\ UNCHANGED <<mail, account, event, app, task, ledger>>

----------------------------------------------------------------------------
(* A sync: what is there to read *)

\* Fault: the task checks again that the account is due.
TakeIfDue(w) ==
    /\ w \in scene.processes
    /\ At(w, "idle")
    /\ queue > 0
    /\ queue' = queue - 1
    /\ task' = [task EXCEPT ![w] =
           IF account.status = "active" /\ account.due
           THEN [IdleTask EXCEPT !.pc = "list", !.row = account.row, !.grant = account.grant,
                                 !.since = account.history]
           ELSE IdleTask]
    /\ UNCHANGED <<mail, account, event, app, tick, ledger>>

Take(w) ==
    /\ w \in scene.processes
    /\ At(w, "idle")
    /\ queue > 0
    /\ queue' = queue - 1
    /\ task' = [task EXCEPT ![w] =
           IF account.status = "active"
           THEN [IdleTask EXCEPT !.pc = "list", !.row = account.row, !.grant = account.grant,
                                 !.since = account.history]
           ELSE IdleTask]
    /\ UNCHANGED <<mail, account, event, app, tick, ledger>>

\* Gmail answers this task's token.
Answers(w) == task[w].grant \in account.valid

\* The messages without an event.
Unknown(S) == {m \in S : event[m] = "none"}

PassOver(S) ==
    [ledger EXCEPT !.lost = @ \cup (Unknown(S) \ ledger.handled)]

\* The messages since the history id, deleted ones too; without one a
\* search of the last days or since the last sync.
\* What does not fit in one sync is passed over for good, and so is what came
\* during the last sync when its history id has expired.
List(w) ==
    LET t == task[w]
        known == t.since..box
        recent == (1..box) \ gone
        later == {m \in recent : m > account.synced}
        Listed(ids, wanted, latest) ==
            /\ task' = [task EXCEPT ![w].todo = Unknown(ids), ![w].latest = latest,
                                    ![w].history = (latest # 0),
                                    ![w].pc = IF latest = 0 THEN "profile" ELSE "next"]
            /\ ledger' = PassOver(wanted \ ids)
    IN /\ At(w, "list")
       /\ Answers(w)
       /\ \/ t.since > 0 /\ Listed(Oldest(known, MaxPerSync), known, box + 1)
          \/ t.since > 0 /\ "expire" \in scene.events /\ Listed(Newest(later, MaxPerSync), known, 0)
          \/ t.since = 0 /\ Listed(Newest(recent, MaxPerSync), recent, 0)
       /\ UNCHANGED <<mail, account, event, app, queue, tick>>

\* profile(): what arrived after the search is passed over.
Profile(w) ==
    /\ At(w, "profile")
    /\ Answers(w)
    /\ task' = [task EXCEPT ![w].latest = box + 1, ![w].todo = Unknown(@),
                            ![w].pc = "next"]
    /\ ledger' = PassOver((1..box) \ task[w].todo)
    /\ UNCHANGED <<mail, account, event, app, queue, tick>>

----------------------------------------------------------------------------
(* A sync: one message after the other, then what is still pending *)

\* The list is read from its end: a search lists the newest message first,
\* the history the oldest.
Upcoming(w) ==
    LET t == task[w] IN IF t.phase = "new" /\ t.history THEN Max(t.todo) ELSE Min(t.todo)

Reads(w) ==
    /\ At(w, "next") /\ task[w].todo # {}
    /\ Answers(w)
    /\ Upcoming(w) \notin gone

\* prefilter: neither the sender nor the words say it is about a job.
SkipMessage(w) ==
    LET m == Upcoming(w) IN
    /\ Reads(w)
    /\ task' = [task EXCEPT ![w].todo = @ \ {m}]
    /\ ledger' = [ledger EXCEPT !.handled = @ \cup {m}]
    /\ UNCHANGED <<mail, account, event, app, queue, tick>>

ReadMessage(w) ==
    LET m == Upcoming(w) IN
    /\ Reads(w)
    /\ task' = [task EXCEPT ![w].todo = @ \ {m}, ![w].msg = m, ![w].pc = "store"]
    /\ UNCHANGED <<mail, account, event, app, queue, tick, ledger>>

\* The INSERT; the unique key refuses a message another sync has stored, the
\* foreign key one of an account that is gone.
Store(w) ==
    LET m == task[w].msg IN
    /\ At(w, "store")
    /\ IF event[m] = "none" /\ Connected(w)
       THEN /\ event' = [event EXCEPT ![m] = "pending"]
            /\ \E pc \in {"alert", "classify"} : Goto(w, pc)
            /\ ledger' = Share(w, {m})
       ELSE /\ task' = [task EXCEPT ![w] = Continue(w)]
            /\ UNCHANGED <<event, ledger>>
    /\ UNCHANGED <<mail, account, app, queue, tick>>

\* A job alert becomes jobs, without the AI.
StoreAlert(w) ==
    /\ At(w, "alert")
    /\ Connected(w)
    /\ event' = [event EXCEPT ![task[w].msg] = "job_alert"]
    /\ task' = [task EXCEPT ![w] = Continue(w)]
    /\ UNCHANGED <<mail, account, app, queue, tick, ledger>>

\* _decide: no model answered, the message is not about an application, or
\* no application matches it with confidence.
Undecided(w) ==
    /\ At(w, "classify")
    /\ Connected(w)
    /\ \E state \in {"pending", "ignored", "needs_review"} :
         event' = [event EXCEPT ![task[w].msg] = state]
    /\ task' = [task EXCEPT ![w] = Continue(w)]
    /\ UNCHANGED <<mail, account, app, queue, tick, ledger>>

\* It matches one application, by the sender, the company and the title.
Match(w) ==
    /\ At(w, "classify")
    /\ Connected(w)
    /\ \E a \in Apps, c \in Categories :
         task' = [task EXCEPT ![w].pc = "judge", ![w].app = a, ![w].status = CategoryStatus[c]]
    /\ UNCHANGED <<mail, account, event, app, queue, tick, ledger>>

ShouldApply(current, new) ==
    /\ current \notin Closed \cup {new}
    /\ \/ new \in {"rejected", "offer"}
       \/ current # "rejected" /\ Rank[new] > Rank[current]

\* The status as it is now decides; when it would go back the message is
\* only noted in the application's history.
Judge(w) ==
    LET t == task[w] IN
    /\ At(w, "judge")
    /\ Connected(w)
    /\ Goto(w, IF ShouldApply(app[t.app], t.status) THEN "record" ELSE "mark")
    /\ UNCHANGED <<mail, account, event, app, queue, tick, ledger>>

\* record_status, in a session of its own.
Record(w) ==
    LET t == task[w] IN
    /\ At(w, "record")
    /\ app' = [app EXCEPT ![t.app] = t.status]
    /\ ledger' = [ledger EXCEPT !.writes[t.msg] = IF Connected(w) THEN Min({@ + 1, 2}) ELSE @]
    /\ Goto(w, "mark")
    /\ UNCHANGED <<mail, account, event, queue, tick>>

Mark(w) ==
    /\ At(w, "mark")
    /\ Connected(w)
    /\ event' = [event EXCEPT ![task[w].msg] = "applied"]
    /\ task' = [task EXCEPT ![w] = Continue(w)]
    /\ UNCHANGED <<mail, account, app, queue, tick, ledger>>

\* Fault: what waits for the user is retried too.
PickUnsettled(w) ==
    /\ At(w, "next") /\ task[w].todo = {}
    /\ LET S == {m \in Messages : event[m] \in {"pending", "applied"}} IN
       /\ task' = [task EXCEPT ![w].pc = "retry", ![w].phase = "retry", ![w].history = FALSE,
                                 ![w].todo = S]
       /\ ledger' = Share(w, S)
    /\ UNCHANGED <<mail, account, event, app, queue, tick>>

\* _retry_pending: the events no model could answer for, read once.
PickPending(w) ==
    /\ At(w, "next") /\ task[w].todo = {}
    /\ LET S == {m \in Messages : event[m] = "pending"} IN
       /\ task' = [task EXCEPT ![w].pc = "retry", ![w].phase = "retry", ![w].history = FALSE,
                                 ![w].todo = S]
       /\ ledger' = Share(w, S)
    /\ UNCHANGED <<mail, account, event, app, queue, tick>>

\* Fault: the message stays on the list.
RetryKeeping(w) ==
    LET m == Upcoming(w) IN
    /\ At(w, "retry") /\ task[w].todo # {}
    /\ Answers(w)
    /\ m \notin gone
    /\ task' = [task EXCEPT ![w].msg = m, ![w].pc = "classify"]
    /\ UNCHANGED <<mail, account, event, app, queue, tick, ledger>>

Retry(w) ==
    LET m == Upcoming(w) IN
    /\ At(w, "retry") /\ task[w].todo # {}
    /\ Answers(w)
    /\ m \notin gone
    /\ task' = [task EXCEPT ![w].todo = @ \ {m}, ![w].msg = m, ![w].pc = "classify"]
    /\ UNCHANGED <<mail, account, event, app, queue, tick, ledger>>

\* Fault: the history id is that of the mailbox now.
FinishAtLatest(w) ==
    /\ At(w, "retry") /\ task[w].todo = {}
    /\ Connected(w)
    /\ account' = [account EXCEPT !.history = box + 1, !.synced = box, !.due = FALSE]
    /\ tick' = Outdated(tick)
    /\ Ends(w)
    /\ UNCHANGED <<mail, event, app, queue, ledger>>

Finish(w) ==
    /\ At(w, "retry") /\ task[w].todo = {}
    /\ Connected(w)
    /\ account' = [account EXCEPT !.history = task[w].latest, !.synced = box, !.due = FALSE]
    /\ tick' = Outdated(tick)
    /\ Ends(w)
    /\ UNCHANGED <<mail, event, app, queue, ledger>>

----------------------------------------------------------------------------
(* The review inbox *)

\* resolve: ignored at once, or given an application and a meaning.
Resolve(w, m) ==
    /\ w \in scene.processes
    /\ At(w, "idle")
    /\ event[m] = "needs_review"
    /\ \/ event' = [event EXCEPT ![m] = "ignored"] /\ UNCHANGED <<task, ledger>>
       \/ \E a \in Apps, c \in Categories :
             /\ task' = [task EXCEPT ![w] = [IdleTask EXCEPT
                    !.pc = "judge", !.phase = "review", !.row = account.row, !.msg = m,
                    !.app = a, !.status = CategoryStatus[c]]]
             /\ ledger' = Share(w, {m})
             /\ UNCHANGED event
    /\ UNCHANGED <<mail, account, app, queue, tick>>

----------------------------------------------------------------------------
(* What goes wrong *)

Abandoned(w) ==
    [ledger EXCEPT !.shared = @ \cup IF At(w, "mark") THEN {task[w].msg} ELSE {}]

\* Gmail refuses the token: the account waits for the user.
Revoked(w) ==
    /\ task[w].pc \in {"list", "profile", "next", "retry"}
    /\ task[w].pc \in {"next", "retry"} => task[w].todo # {}
    /\ ~Answers(w)
    /\ account' = IF Connected(w) THEN [account EXCEPT !.status = "needs_reconnect"] ELSE account
    /\ Ends(w)
    /\ UNCHANGED <<mail, event, app, queue, tick, ledger>>

\* Another exception: a later sync tries again.
Failed(w) ==
    /\ account' = IF Connected(w) THEN [account EXCEPT !.due = FALSE] ELSE account
    /\ tick' = IF Connected(w) THEN Outdated(tick) ELSE tick
    /\ Ends(w)

Fail(w) ==
    /\ ledger.faults < scene.faults
    /\ ~At(w, "idle")
    /\ Failed(w)
    /\ ledger' = [Abandoned(w) EXCEPT !.faults = @ + 1]
    /\ UNCHANGED <<mail, event, app, queue>>

\* A message that was deleted since it was listed answers 404, which reads
\* as an expired history and ends the sync.
FailOnDeleted(w) ==
    /\ task[w].pc \in {"next", "retry"} /\ task[w].todo # {}
    /\ Answers(w)
    /\ Upcoming(w) \in gone
    /\ Failed(w)
    /\ UNCHANGED <<mail, event, app, queue, ledger>>

\* The rows a task is about to write are gone with the account.
Orphaned(w) ==
    /\ \/ task[w].pc \in {"alert", "classify", "judge", "mark"}
       \/ At(w, "retry") /\ task[w].todo = {}
    /\ ~Connected(w)
    /\ Ends(w)
    /\ UNCHANGED <<mail, account, event, app, queue, tick, ledger>>

Crash(w) ==
    /\ ledger.faults < scene.faults
    /\ ~At(w, "idle")
    /\ Ends(w)
    /\ ledger' = [Abandoned(w) EXCEPT !.faults = @ + 1]
    /\ UNCHANGED <<mail, account, event, app, queue, tick>>

\* A tick that dies after its commit claimed the account for nothing.
TickCrash(b) ==
    /\ ledger.faults < scene.faults
    /\ tick[b] # "idle"
    /\ tick' = [tick EXCEPT ![b] = "idle"]
    /\ ledger' = [ledger EXCEPT !.faults = @ + 1]
    /\ UNCHANGED <<mail, account, event, app, queue, task>>

----------------------------------------------------------------------------

User ==
    \/ Arrive \/ (\E m \in Messages : DeleteMail(m))
    \/ Connect \/ Revoke \/ Disconnect \/ SyncNow
    \/ \E a \in Apps, s \in UserStatuses : SetStatus(a, s)
    \/ \E w \in Requests, m \in Messages : Resolve(w, m)

Beat(b) == TickReads(b) \/ TickClaims(b) \/ TickLoses(b) \/ TickQueues(b)

Apply(w) == Judge(w) \/ Record(w) \/ Mark(w)

Work(w) ==
    \/ List(w) \/ Profile(w) \/ SkipMessage(w) \/ ReadMessage(w) \/ Store(w) \/ StoreAlert(w)
    \/ Undecided(w) \/ Match(w) \/ Apply(w) \/ PickPending(w) \/ Retry(w) \/ Finish(w)
    \/ Revoked(w) \/ FailOnDeleted(w) \/ Orphaned(w)

Next ==
    \/ User
    \/ TimePasses
    \/ \E b \in Beats : Beat(b) \/ TickCrash(b)
    \/ \E w \in Workers : Take(w) \/ Work(w)
    \/ \E w \in Requests : Apply(w) \/ Orphaned(w)
    \/ \E w \in Tasks : Fail(w) \/ Crash(w)

Spec == Init /\ [][Next]_vars

\* Time passes, one of the ticks and one of the processes of the queue runs.
Fairness ==
    /\ WF_vars(TimePasses)
    /\ WF_vars(\E b \in Beats : Beat(b))
    /\ WF_vars(\E w \in Workers : Take(w) \/ Work(w))

FairSpec == Spec /\ Fairness

----------------------------------------------------------------------------
(* Properties *)

\* Every row, task and tick is well formed, and a task that has a message in
\* hand has taken it off its list.
TypeOK ==
    /\ box \in 0..MaxMessages /\ gone \subseteq 1..box
    /\ account \in AccountRow
    /\ event \in [Messages -> EventStates]
    /\ app \in [Apps -> Statuses]
    /\ queue \in 0..MaxQueue
    /\ tick \in [Beats -> {"idle", "claim", "lost", "queue"}]
    /\ \A w \in Tasks : task[w].pc \in Steps /\ task[w].msg \notin task[w].todo

\* Once an account's history id has passed a message, the message was stored
\* or found not to be about a job: no failure, death or overlap of syncs loses
\* one, apart from those `lost` (more than one sync reads, or arriving while a
\* search runs).
NothingMissed ==
    account.status # "absent" =>
        \A m \in 1..box : m < account.history =>
            event[m] # "none" \/ m \in ledger.handled \cup ledger.lost

\* A message changes the status of an application at most once, however often
\* it is listed or retried, unless two tasks had it in hand at once or one
\* ended between the status and the mark.
AppliedOnce ==
    \A m \in Messages : m \notin ledger.shared => ledger.writes[m] <= 1

\* However the ticks overlap, an account that is due is claimed once: the
\* conditional UPDATE of claim_due implements the claim of DueClaim.
DC == INSTANCE DueClaim WITH due <- account.due, claims <- ledger.claims
ClaimsOnce == DC!Spec

\* A message that arrives is stored or found not to be about a job, whatever
\* fails on the way, as long as nothing is deleted and the account stays.
MessageHandled ==
    \A m \in Messages :
        (box >= m /\ Beats \cap scene.processes # {}) ~> \/ event[m] # "none"
                      \/ m \in ledger.handled \cup ledger.lost
                      \/ gone # {}
                      \/ account.status # "active"
                      \/ account.valid = {}
=============================================================================
