--------------------------- MODULE MailboxProofs ---------------------------
(***************************************************************************)
(* Theorems about Mailbox, for any number of ticks, syncs, requests,        *)
(* messages, applications and connections.                                  *)
(*                                                                          *)
(* The ticks of beat over the account implement DueClaim: an account that   *)
(* is due is claimed once.  A tick that has read a due account, and has not *)
(* been put off since, still finds it due, unless the account is gone:      *)
(* every write of a next_sync_at puts off the ticks that read the one       *)
(* before.                                                                  *)
(*                                                                          *)
(* What the syncs do with the messages: none is missed, and none changes an *)
(* application twice.  Neither holds by itself; MailInv says what a task    *)
(* knows between two commits, while the connection it loaded is there:      *)
(*   - Passes: each message below the history id it will write is covered,  *)
(*     or on its list, or in hand and not stored;                           *)
(*   - Single: of the tasks that decide about a message that is not shared  *)
(*     there is one, its event is not applied yet, and a status that was    *)
(*     written has its event applied or is about to.                        *)
(***************************************************************************)
EXTENDS Mailbox, WellFoundedInduction, TLAPS

----------------------------------------------------------------------------
(* The claim of a due account *)

\* The columns of the row and the fields of the history that the argument needs.
Fields ==
    /\ DOMAIN account = DOMAIN NoAccount
    /\ DOMAIN ledger = DOMAIN NoLedger
    /\ DOMAIN tick = Beats

DueAsRead == \A b \in Beats : tick[b] = "claim" => account.due \/ account.status = "absent"

MInv == Fields /\ DueAsRead

\* Steps that do not touch the schedule.
Unscheduled ==
    /\ account'.due = account.due /\ ledger'.claims = ledger.claims
    /\ account.status = "absent" => account'.status = "absent"
    /\ \A b \in Beats : tick'[b] = "claim" => tick[b] = "claim"
    /\ Fields'

\* Steps that set a later next_sync_at.
Rescheduled ==
    /\ account'.due = FALSE /\ ledger'.claims = ledger.claims
    /\ tick' = Outdated(tick)
    /\ Fields'

Refined == DC!Next \/ UNCHANGED <<account.due, ledger.claims>>

LEMMA NoneHasRead == \A b \in Beats : Outdated(tick)[b] # "claim"
  BY DEF Outdated

LEMMA UnscheduledHolds == ASSUME MInv, Unscheduled PROVE MInv' /\ Refined
  BY DEF MInv, DueAsRead, Unscheduled, Refined

LEMMA RescheduledHolds == ASSUME MInv, Rescheduled PROVE MInv' /\ Refined
<1>1. DC!PutOff
  BY DEF Rescheduled, DC!PutOff
<1> QED
  BY <1>1, NoneHasRead DEF MInv, DueAsRead, Rescheduled, Refined, DC!Next

----------------------------------------------------------------------------
(* The account *)

LEMMA ConnectHolds == ASSUME MInv, Connect PROVE MInv' /\ Refined
<1> DEFINE kept == IF account.status = "absent"
                   THEN [NoAccount EXCEPT !.row = account.row + 1, !.grant = account.grant]
                   ELSE account
<1>1. DOMAIN kept = DOMAIN NoAccount
  BY DEF MInv, Fields
<1>2. account' = [kept EXCEPT !.status = "active", !.grant = @ + 1, !.due = TRUE,
                              !.valid = @ \cup {account.grant + 1}]
  BY DEF Connect
<1>3. DOMAIN account' = DOMAIN NoAccount /\ account'.due = TRUE
  BY <1>1, <1>2 DEF NoAccount
<1>4. ledger' = [ledger EXCEPT !.claims = 0] /\ tick' = Outdated(tick)
  BY DEF Connect
<1>5. DOMAIN ledger' = DOMAIN NoLedger /\ ledger'.claims = 0 /\ DOMAIN tick' = Beats
  BY <1>4 DEF MInv, Fields, NoLedger, Outdated
<1>6. DC!FallDue
  BY <1>3, <1>5 DEF DC!FallDue
<1> QED
  BY <1>3, <1>4, <1>5, <1>6, NoneHasRead DEF MInv, Fields, DueAsRead, Refined, DC!Next

LEMMA DisconnectHolds == ASSUME MInv, Disconnect PROVE MInv' /\ Refined
<1>1. account'.due = FALSE /\ account'.status = "absent" /\ DOMAIN account' = DOMAIN NoAccount
  BY DEF Disconnect, NoAccount
<1>2. ledger'.claims = 0 /\ DOMAIN ledger' = DOMAIN NoLedger /\ tick' = tick
  BY DEF Disconnect, NoLedger
<1>3. DC!PutOff
  BY <1>1, <1>2 DEF DC!PutOff
<1> QED
  BY <1>1, <1>2, <1>3 DEF MInv, Fields, DueAsRead, Refined, DC!Next

LEMMA TimePassesHolds == ASSUME MInv, TimePasses PROVE MInv' /\ Refined
<1>1. account'.due = TRUE /\ DOMAIN account' = DOMAIN NoAccount
  BY DEF TimePasses, MInv, Fields, NoAccount
<1>2. ledger'.claims = 0 /\ DOMAIN ledger' = DOMAIN NoLedger /\ tick' = tick
  BY DEF TimePasses, MInv, Fields, NoLedger
<1>3. DC!FallDue
  BY <1>1, <1>2 DEF DC!FallDue
<1> QED
  BY <1>1, <1>2, <1>3 DEF MInv, Fields, DueAsRead, Refined, DC!Next

LEMMA UserHolds == ASSUME MInv, User PROVE MInv' /\ Refined
<1>1. CASE Arrive \/ \E m \in Messages : DeleteMail(m)
  <2>1. UNCHANGED <<account, tick, ledger>>
    BY <1>1 DEF Arrive, DeleteMail
  <2> QED
    BY <2>1, UnscheduledHolds DEF MInv, Fields, Unscheduled
<1>2. CASE SyncNow \/ \E a \in Apps, s \in UserStatuses : SetStatus(a, s)
  <2>1. UNCHANGED <<account, tick, ledger>>
    BY <1>2 DEF SyncNow, SetStatus
  <2> QED
    BY <2>1, UnscheduledHolds DEF MInv, Fields, Unscheduled
<1>3. CASE Revoke
  <2>1. account' = [account EXCEPT !.valid = {}] /\ UNCHANGED <<tick, ledger>>
    BY <1>3 DEF Revoke
  <2>2. account'.due = account.due /\ account'.status = account.status /\ DOMAIN account' = DOMAIN account
    BY <2>1 DEF MInv, Fields, NoAccount
  <2> QED
    BY <2>1, <2>2, UnscheduledHolds DEF MInv, Fields, Unscheduled
<1>4. CASE \E w \in Requests, m \in Messages : Resolve(w, m)
  <2>1. PICK w \in Requests, m \in Messages : Resolve(w, m)
    BY <1>4
  <2>2. UNCHANGED <<account, tick>> /\ (ledger' = ledger \/ ledger' = Share(w, {m}))
    BY <2>1 DEF Resolve
  <2>3. ledger'.claims = ledger.claims /\ DOMAIN ledger' = DOMAIN ledger
    BY <2>2 DEF Share, MInv, Fields, NoLedger
  <2> QED
    BY <2>2, <2>3, UnscheduledHolds DEF MInv, Fields, Unscheduled
<1> QED
  BY <1>1, <1>2, <1>3, <1>4, ConnectHolds, DisconnectHolds DEF User

----------------------------------------------------------------------------
(* The ticks *)

LEMMA TickReadsHolds == ASSUME MInv, NEW b \in Beats, TickReads(b) PROVE MInv' /\ Refined
  BY DEF TickReads, MInv, Fields, DueAsRead, Refined

LEMMA TickClaimsHolds == ASSUME MInv, NEW b \in Beats, TickClaims(b) PROVE MInv' /\ Refined
<1>1. CASE account.status # "absent"
  <2>1. /\ account' = [account EXCEPT !.due = FALSE]
        /\ tick' = [Outdated(tick) EXCEPT ![b] = "queue"]
        /\ ledger' = [ledger EXCEPT !.claims = @ + 1]
    BY <1>1 DEF TickClaims
  <2>2. account.due
    BY <1>1 DEF TickClaims, MInv, DueAsRead
  <2>3. account'.due = FALSE /\ DOMAIN account' = DOMAIN account
    BY <2>1 DEF MInv, Fields, NoAccount
  <2>4. ledger'.claims = ledger.claims + 1 /\ DOMAIN ledger' = DOMAIN ledger
    BY <2>1 DEF MInv, Fields, NoLedger
  <2>5. DOMAIN tick' = Beats /\ \A c \in Beats : tick'[c] # "claim"
    BY <2>1, NoneHasRead DEF Outdated
  <2>6. DC!Claim
    BY <2>2, <2>3, <2>4 DEF DC!Claim
  <2> QED
    BY <2>3, <2>4, <2>5, <2>6 DEF MInv, Fields, DueAsRead, Refined, DC!Next
<1>2. CASE account.status = "absent"
  <2>1. tick' = [tick EXCEPT ![b] = "idle"] /\ UNCHANGED <<account, ledger>>
    BY <1>2 DEF TickClaims
  <2> QED
    BY <2>1, UnscheduledHolds DEF MInv, Fields, Unscheduled
<1> QED
  BY <1>1, <1>2

LEMMA TickElseHolds ==
    ASSUME MInv, NEW b \in Beats, TickLoses(b) \/ TickQueues(b) \/ TickCrash(b)
    PROVE  MInv' /\ Refined
<1>1. tick' = [tick EXCEPT ![b] = "idle"] /\ UNCHANGED account
  BY DEF TickLoses, TickQueues, TickCrash
<1>2. ledger' = ledger \/ ledger' = [ledger EXCEPT !.faults = @ + 1]
  BY DEF TickLoses, TickQueues, TickCrash
<1>3. ledger'.claims = ledger.claims /\ DOMAIN ledger' = DOMAIN ledger
  BY <1>2 DEF MInv, Fields, NoLedger
<1> QED
  BY <1>1, <1>3, UnscheduledHolds DEF MInv, Fields, Unscheduled

----------------------------------------------------------------------------
(* The syncs *)

\* What a sync does with messages touches neither the account nor the claims.
LEMMA ReadingHolds ==
    ASSUME MInv, NEW w \in Tasks,
           Take(w) \/ List(w) \/ Profile(w) \/ SkipMessage(w) \/ ReadMessage(w) \/ Store(w)
    PROVE  MInv' /\ Refined
<1>1. UNCHANGED <<account, tick>>
  BY DEF Take, List, Profile, SkipMessage, ReadMessage, Store
<1>2. CASE ledger' = ledger
  BY <1>1, <1>2, UnscheduledHolds DEF MInv, Fields, Unscheduled
<1>3. CASE \E S : ledger' = [ledger EXCEPT !.handled = S]
  <2>1. ledger'.claims = ledger.claims /\ DOMAIN ledger' = DOMAIN ledger
    BY <1>3 DEF MInv, Fields, NoLedger
  <2> QED
    BY <1>1, <2>1, UnscheduledHolds DEF MInv, Fields, Unscheduled
<1>4. CASE \E S : ledger' = [ledger EXCEPT !.lost = S]
  <2>1. ledger'.claims = ledger.claims /\ DOMAIN ledger' = DOMAIN ledger
    BY <1>4 DEF MInv, Fields, NoLedger
  <2> QED
    BY <1>1, <2>1, UnscheduledHolds DEF MInv, Fields, Unscheduled
<1>5. CASE \E S : ledger' = [ledger EXCEPT !.shared = S]
  <2>1. ledger'.claims = ledger.claims /\ DOMAIN ledger' = DOMAIN ledger
    BY <1>5 DEF MInv, Fields, NoLedger
  <2> QED
    BY <1>1, <2>1, UnscheduledHolds DEF MInv, Fields, Unscheduled
<1>6. CASE List(w) \/ Profile(w)
  <2>1. \E S : ledger' = PassOver(S)
    BY <1>6 DEF List, Profile
  <2> QED
    BY <1>4, <2>1 DEF PassOver
<1>7. CASE SkipMessage(w)
  BY <1>3, <1>7 DEF SkipMessage
<1>8. CASE Store(w)
  <2>1. ledger' = ledger \/ \E S : ledger' = Share(w, S)
    BY <1>8 DEF Store
  <2> QED
    BY <1>2, <1>5, <2>1 DEF Share
<1> QED
  BY <1>2, <1>6, <1>7, <1>8 DEF Take, ReadMessage

LEMMA DecidingHolds ==
    ASSUME MInv, NEW w \in Tasks,
           StoreAlert(w) \/ Undecided(w) \/ Match(w) \/ Apply(w) \/ PickPending(w) \/ Retry(w) \/ Orphaned(w)
    PROVE  MInv' /\ Refined
<1>1. UNCHANGED <<account, tick>>
  BY DEF StoreAlert, Undecided, Match, Apply, Judge, Record, Mark, PickPending, Retry, Orphaned
<1>2. \/ ledger' = ledger
      \/ \E S : ledger' = [ledger EXCEPT !.shared = S]
      \/ \E m, n : ledger' = [ledger EXCEPT !.writes[m] = n]
  <2>1. CASE PickPending(w)
    BY <2>1 DEF PickPending, Share
  <2>2. CASE Record(w)
    BY <2>2 DEF Record
  <2> QED
    BY <2>1, <2>2 DEF StoreAlert, Undecided, Match, Apply, Judge, Mark, Retry, Orphaned
<1>3. ledger'.claims = ledger.claims /\ DOMAIN ledger' = DOMAIN ledger
  BY <1>2 DEF MInv, Fields, NoLedger
<1> QED
  BY <1>1, <1>3, UnscheduledHolds DEF MInv, Fields, Unscheduled

LEMMA FinishHolds == ASSUME MInv, NEW w \in Tasks, Finish(w) PROVE MInv' /\ Refined
<1>1. account' = [account EXCEPT !.history = task[w].latest, !.synced = box, !.due = FALSE]
  BY DEF Finish
<1>2. tick' = Outdated(tick) /\ ledger' = ledger
  BY DEF Finish
<1>3. account'.due = FALSE /\ DOMAIN account' = DOMAIN account /\ DOMAIN tick' = Beats
  BY <1>1, <1>2 DEF MInv, Fields, NoAccount, Outdated
<1> QED
  BY <1>2, <1>3, RescheduledHolds DEF MInv, Fields, Rescheduled

LEMMA RevokedHolds == ASSUME MInv, NEW w \in Tasks, Revoked(w) PROVE MInv' /\ Refined
<1>1. account' = (IF Connected(w) THEN [account EXCEPT !.status = "needs_reconnect"] ELSE account)
  BY DEF Revoked
<1>2. UNCHANGED <<tick, ledger>>
  BY DEF Revoked
<1>3. account'.due = account.due /\ DOMAIN account' = DOMAIN account
  BY <1>1 DEF MInv, Fields, NoAccount
<1>4. account.status = "absent" => account'.status = "absent"
  BY <1>1 DEF Connected
<1> QED
  BY <1>2, <1>3, <1>4, UnscheduledHolds DEF MInv, Fields, Unscheduled

LEMMA FailureHolds ==
    ASSUME MInv, NEW w \in Tasks, FailOnDeleted(w) \/ Fail(w) \/ Crash(w)
    PROVE  MInv' /\ Refined
<1>1. \/ ledger' = ledger
      \/ ledger' = [Abandoned(w) EXCEPT !.faults = @ + 1]
  BY DEF FailOnDeleted, Fail, Crash
<1>2. ledger'.claims = ledger.claims /\ DOMAIN ledger' = DOMAIN ledger
  BY <1>1 DEF Abandoned, MInv, Fields, NoLedger
<1>3. CASE Crash(w) \/ ~Connected(w)
  <2>1. UNCHANGED <<account, tick>>
    BY <1>3 DEF Crash, FailOnDeleted, Fail, Failed
  <2> QED
    BY <1>2, <2>1, UnscheduledHolds DEF MInv, Fields, Unscheduled
<1>4. CASE ~Crash(w) /\ Connected(w)
  <2>1. account' = [account EXCEPT !.due = FALSE] /\ tick' = Outdated(tick)
    BY <1>4 DEF FailOnDeleted, Fail, Failed
  <2>2. account'.due = FALSE /\ DOMAIN account' = DOMAIN account /\ DOMAIN tick' = Beats
    BY <2>1 DEF MInv, Fields, NoAccount, Outdated
  <2> QED
    BY <1>2, <2>1, <2>2, RescheduledHolds DEF MInv, Fields, Rescheduled
<1> QED
  BY <1>3, <1>4

----------------------------------------------------------------------------

LEMMA StepRefines == ASSUME MInv, Next PROVE MInv' /\ Refined
<1>1. CASE \E b \in Beats : Beat(b) \/ TickCrash(b)
  BY <1>1, TickReadsHolds, TickClaimsHolds, TickElseHolds DEF Beat
<1>2. CASE \E w \in Workers : Take(w) \/ Work(w)
  <2>1. PICK w \in Workers : Take(w) \/ Work(w)
    BY <1>2
  <2>2. w \in Tasks
    BY DEF Tasks
  <2> QED
    BY <2>1, <2>2, ReadingHolds, DecidingHolds, FinishHolds, RevokedHolds, FailureHolds DEF Work
<1>3. CASE \E w \in Requests : Apply(w) \/ Orphaned(w)
  <2>1. PICK w \in Requests : Apply(w) \/ Orphaned(w)
    BY <1>3
  <2>2. w \in Tasks
    BY DEF Tasks
  <2> QED
    BY <2>1, <2>2, DecidingHolds
<1>4. CASE \E w \in Tasks : Fail(w) \/ Crash(w)
  BY <1>4, FailureHolds
<1> QED
  BY <1>1, <1>2, <1>3, <1>4, UserHolds, TimePassesHolds DEF Next

\* ClaimsOnce for any number of ticks, syncs, messages and connections: the
\* conditional UPDATE of claim_due (email_sync.py:409-425).
THEOREM AccountClaimedOnce == Spec => ClaimsOnce
<1>1. Init => MInv /\ DC!Init
  BY DEF Init, MInv, Fields, DueAsRead, NoAccount, NoLedger, DC!Init
<1>2. MInv /\ [Next]_vars => MInv' /\ [DC!Next]_(DC!vars)
  <2>1. ASSUME MInv, UNCHANGED vars PROVE MInv' /\ UNCHANGED DC!vars
    BY <2>1 DEF vars, MInv, Fields, DueAsRead, DC!vars
  <2>2. ASSUME MInv, Next PROVE MInv' /\ [DC!Next]_(DC!vars)
    BY <2>2, StepRefines DEF Refined, DC!vars
  <2> QED
    BY <2>1, <2>2
<1> QED
  BY <1>1, <1>2, PTL DEF Spec, ClaimsOnce, DC!Spec

----------------------------------------------------------------------------
(* What a task is at *)

Deciding == {"alert", "classify", "judge", "record", "mark"}
Holding == Deciding \cup {"store"}

TaskRow ==
    [pc : Steps, phase : {"new", "retry", "review"}, row : Nat, grant : Nat,
     since : 0..MaxMessages + 1, latest : 0..MaxMessages + 1, history : BOOLEAN,
     todo : SUBSET Messages, msg : 0..MaxMessages,
     app : Apps \cup {"none"}, status : Statuses \cup {"none"}]
Ledger ==
    [handled : SUBSET Messages, lost : SUBSET Messages, shared : SUBSET Messages,
     writes : [Messages -> 0..2], claims : Nat, faults : Nat]

Typed ==
    /\ scene \in Scene
    /\ box \in 0..MaxMessages /\ gone \subseteq 1..box
    /\ account \in AccountRow
    /\ event \in [Messages -> EventStates]
    /\ app \in [Apps -> Statuses]
    /\ queue \in 0..MaxQueue
    /\ tick \in [Beats -> {"idle", "claim", "lost", "queue"}]
    /\ task \in [Tasks -> TaskRow]
    /\ ledger \in Ledger

\* A message in hand is off the list, and a request settles one message only.
Fits(w) ==
    /\ At(w, "idle") => task[w] = IdleTask
    /\ task[w].pc \in Holding => task[w].msg \in Messages \ task[w].todo
    /\ task[w].pc \notin Holding => task[w].msg = 0
    /\ task[w].pc \in {"judge", "record", "mark"} => task[w].app \in Apps /\ task[w].status \in Statuses
    /\ task[w].pc \in {"list", "profile", "next", "store", "alert"} => task[w].phase = "new"
    /\ At(w, "retry") => task[w].phase = "retry"
    /\ w \in Requests => At(w, "idle") \/ task[w].phase = "review"
    /\ task[w].phase = "review" => task[w].pc \in {"judge", "record", "mark"} /\ task[w].todo = {}

\* No task knows a connection or a history id that is still to come.
Dated(w) ==
    task[w].row <= account.row /\ task[w].since <= box + 1 /\ task[w].latest <= box + 1

----------------------------------------------------------------------------
(* What a sync has passed *)

Covered(m) == event[m] # "none" \/ m \in ledger.handled \cup ledger.lost

\* The history id a task started from is one the account passed; the one it
\* will write is of messages that are covered, or that it has still to store.
Passes(w) ==
    Connected(w) =>
        \A m \in 1..box :
            /\ At(w, "list") /\ m < task[w].since => Covered(m)
            /\ task[w].phase = "new" /\ task[w].pc \notin {"idle", "list", "profile"} /\ m < task[w].latest =>
                   Covered(m) \/ m \in task[w].todo \/ (At(w, "store") /\ m = task[w].msg)
            /\ task[w].phase = "retry" /\ m < task[w].latest => Covered(m)

----------------------------------------------------------------------------
(* Who has a message in hand *)

Engaged(w, m) ==
    /\ Connected(w)
    /\ \/ task[w].pc \in Deciding /\ task[w].msg = m
       \/ task[w].phase = "retry" /\ m \in task[w].todo

Marks(w, m) == Connected(w) /\ At(w, "mark") /\ task[w].msg = m

\* Unless it is shared, one task at a time decides about a message, and its
\* status is written once: the event says so, or the task is about to.
Single(m) ==
    m \notin ledger.shared =>
        /\ \A w \in Tasks : Engaged(w, m) => event[m] \notin {"none", "applied"}
        /\ \A v, w \in Tasks : Engaged(v, m) /\ Engaged(w, m) => v = w
        /\ ledger.writes[m] <= 1
        /\ \/ ledger.writes[m] = 0 \/ event[m] = "applied"
           \/ \E w \in Tasks : Marks(w, m)

MailInv ==
    /\ Typed /\ account.history <= box + 1
    /\ \A w \in Tasks : Fits(w) /\ Dated(w) /\ Passes(w)
    /\ NothingMissed
    /\ \A m \in Messages : Single(m)

----------------------------------------------------------------------------
(* Largest and smallest of a list of messages *)

LEMMA SmallestExists ==
    ASSUME NEW S, S \subseteq Nat, S # {}
    PROVE  \E m \in S : \A k \in S : m <= k
<1> DEFINE Below == {ss \in Nat \X Nat : ss[1] < ss[2]}
<1>1. IsWellFoundedOn(Below, Nat)
  BY NatLessThanWellFounded DEF OpToRel
<1>2. PICK m \in S : \A k \in S : ~ (<<k, m>> \in Below)
  <2> HIDE DEF Below
  <2> QED
    BY <1>1, WFMin
<1>3. \A k \in S : <<k, m>> \in Nat \X Nat /\ <<k, m>>[1] = k /\ <<k, m>>[2] = m
  OBVIOUS
<1>4. \A k \in S : ~ (k < m)
  BY <1>2, <1>3
<1> QED
  BY <1>4

LEMMA UpcomingIsListed ==
    ASSUME Typed, NEW w \in Tasks, task[w].todo # {}
    PROVE  Upcoming(w) \in task[w].todo
<1> DEFINE S == task[w].todo
<1>1. S \subseteq Messages /\ S # {} /\ MaxMessages \in Nat
  BY MailboxConstants DEF Typed, TaskRow
<1>2. \E m \in S : \A k \in S : m <= k
  BY <1>1, SmallestExists DEF Messages
<1>3. \E m \in S : \A k \in S : m >= k
  <2> DEFINE T == {MaxMessages - m : m \in S}
  <2>1. T \subseteq Nat /\ T # {}
    BY <1>1 DEF Messages
  <2>2. PICK x \in T : \A y \in T : x <= y
    BY <2>1, SmallestExists
  <2>3. PICK m \in S : x = MaxMessages - m
    OBVIOUS
  <2>4. \A k \in S : x <= MaxMessages - k
    BY <2>2
  <2> QED
    BY <1>1, <2>3, <2>4 DEF Messages
<1>4. Min(S) \in S /\ Max(S) \in S
  BY <1>2, <1>3 DEF Min, Max
<1> QED
  BY <1>4 DEF Upcoming

----------------------------------------------------------------------------
(* A step of one task *)

Only(w) == \A v \in Tasks \ {w} : task'[v] = task[v]
SameConnection == account'.row = account.row /\ (account'.status = "absent" <=> account.status = "absent")

\* The row of a task is replaced by another.
LEMMA RowReplaced ==
    ASSUME Typed, NEW w \in Tasks, NEW r \in TaskRow, task' = [task EXCEPT ![w] = r]
    PROVE  task' \in [Tasks -> TaskRow] /\ task'[w] = r /\ Only(w)
BY DEF Typed, Only

LEMMA IdleTyped == IdleTask \in TaskRow
BY MailboxConstants DEF IdleTask, TaskRow, Steps, Messages

LEMMA OthersGoOn ==
    ASSUME MailInv, NEW w, Only(w), SameConnection, box' = box,
           \A m \in Messages : Covered(m) => Covered(m)'
    PROVE  \A v \in Tasks \ {w} : Fits(v)' /\ Dated(v)' /\ Passes(v)'
<1> SUFFICES ASSUME NEW v \in Tasks \ {w} PROVE Fits(v)' /\ Dated(v)' /\ Passes(v)'
  OBVIOUS
<1>1. task'[v] = task[v]
  BY DEF Only
<1>2. Fits(v)' /\ Dated(v)'
  BY <1>1 DEF MailInv, Fits, Dated, At, SameConnection
<1>3. Connected(v)' => Connected(v)
  BY <1>1 DEF Connected, SameConnection
<1>4. 1..box \subseteq Messages
  BY MailboxConstants DEF MailInv, Typed, Messages
<1>5. Passes(v)'
  BY <1>1, <1>3, <1>4 DEF MailInv, Passes, At
<1> QED
  BY <1>2, <1>5

LEMMA NothingMissedYet ==
    ASSUME MailInv, SameConnection, box' = box, account'.history = account.history,
           \A m \in Messages : Covered(m) => Covered(m)'
    PROVE  NothingMissed'
<1>1. 1..box \subseteq Messages
  BY MailboxConstants DEF MailInv, Typed, Messages
<1> QED
  BY <1>1 DEF MailInv, NothingMissed, Covered, SameConnection

\* What another task has in hand it keeps.
LEMMA OthersEngaged ==
    ASSUME NEW w, Only(w), SameConnection, NEW v \in Tasks \ {w}, NEW m
    PROVE  (Engaged(v, m)' <=> Engaged(v, m)) /\ (Marks(v, m)' <=> Marks(v, m))
BY DEF Only, SameConnection, Engaged, Marks, Connected, At

\* w takes nothing in hand, and does not drop what it has to mark.
LEMMA SingleStays ==
    ASSUME NEW w \in Tasks, NEW m \in Messages, Single(m), SameConnection, Only(w),
           m \in ledger.shared => m \in ledger'.shared,
           Engaged(w, m)' => Engaged(w, m),
           Marks(w, m) => Marks(w, m)' \/ m \in ledger'.shared \/ event'[m] = "applied",
           \/ event'[m] = event[m]
           \/ event'[m] \notin {"none", "applied"} /\ event[m] # "applied"
           \/ event'[m] = "applied" /\ Engaged(w, m) /\ ~Engaged(w, m)',
           ledger'.writes[m] = ledger.writes[m]
    PROVE  Single(m)'
<1>1. \A v \in Tasks : Engaged(v, m)' => Engaged(v, m)
  BY OthersEngaged
<1> SUFFICES ASSUME m \notin ledger'.shared
             PROVE  /\ \A v \in Tasks : Engaged(v, m)' => event'[m] \notin {"none", "applied"}
                    /\ \A u, v \in Tasks : Engaged(u, m)' /\ Engaged(v, m)' => u = v
                    /\ ledger'.writes[m] <= 1
                    /\ \/ ledger'.writes[m] = 0 \/ event'[m] = "applied"
                       \/ \E v \in Tasks : Marks(v, m)'
  BY DEF Single
<1>2. m \notin ledger.shared
  OBVIOUS
<1>3. \A v \in Tasks : Engaged(v, m)' => event'[m] \notin {"none", "applied"}
  BY <1>1, <1>2 DEF Single
<1>4. \/ ledger'.writes[m] = 0 \/ event'[m] = "applied"
      \/ \E v \in Tasks : Marks(v, m)'
  <2>1. CASE \E v \in Tasks : Marks(v, m)
    BY <2>1, OthersEngaged
  <2>2. CASE ledger.writes[m] = 0 \/ event[m] = "applied"
    BY <2>2
  <2> QED
    BY <1>2, <2>1, <2>2 DEF Single
<1> QED
  BY <1>1, <1>2, <1>3, <1>4 DEF Single

\* w takes m in hand, and it is shared if another task has it.
LEMMA SingleTaken ==
    ASSUME NEW w \in Tasks, NEW m \in Messages, Single(m), SameConnection, Only(w),
           m \in ledger.shared => m \in ledger'.shared,
           ~Engaged(w, m),
           \A v \in Tasks \ {w} : Engaged(v, m) => m \in ledger'.shared,
           event[m] # "applied", event'[m] \notin {"none", "applied"},
           ledger'.writes[m] = ledger.writes[m]
    PROVE  Single(m)'
<1> SUFFICES ASSUME m \notin ledger'.shared
             PROVE  /\ \A v \in Tasks : Engaged(v, m)' => event'[m] \notin {"none", "applied"}
                    /\ \A u, v \in Tasks : Engaged(u, m)' /\ Engaged(v, m)' => u = v
                    /\ ledger'.writes[m] <= 1
                    /\ \/ ledger'.writes[m] = 0 \/ event'[m] = "applied"
                       \/ \E v \in Tasks : Marks(v, m)'
  BY DEF Single
<1>1. \A v \in Tasks : ~Engaged(v, m)
  OBVIOUS
<1>2. ledger'.writes[m] = 0
  BY <1>1 DEF Single, Marks, Engaged, At, Deciding
<1> QED
  BY <1>1, <1>2, OthersEngaged

\* What is to show of a step of w, when the account has the same history id.
LEMMA StepOf ==
    ASSUME MailInv, NEW w \in Tasks, Typed', Only(w), SameConnection, box' = box,
           account'.history = account.history,
           \A m \in Messages : Covered(m) => Covered(m)',
           Fits(w)', Dated(w)', Passes(w)', \A m \in Messages : Single(m)'
    PROVE  MailInv'
<1>1. \A v \in Tasks : Fits(v)' /\ Dated(v)' /\ Passes(v)'
  BY OthersGoOn
<1> QED
  BY <1>1, NothingMissedYet DEF MailInv

----------------------------------------------------------------------------
(* Steps that leave the tasks alone *)

SameLedger ==
    /\ ledger'.handled = ledger.handled /\ ledger'.lost = ledger.lost
    /\ ledger'.shared = ledger.shared /\ ledger'.writes = ledger.writes

LEMMA TasksStand ==
    ASSUME MailInv, Typed', task' = task, SameConnection, box' \in {box, box + 1}, event' = event,
           SameLedger, account'.history = account.history
    PROVE  MailInv'
<1>0. box \in Nat /\ 1..box \subseteq Messages /\ account.history \in Nat
  BY MailboxConstants DEF MailInv, Typed, Messages, AccountRow
<1>1. \A m : Covered(m)' <=> Covered(m)
  BY DEF Covered, SameLedger
<1>2. \A w \in Tasks : Connected(w)' <=> Connected(w)
  BY DEF Connected, SameConnection
<1>3. ASSUME NEW w \in Tasks PROVE Fits(w)' /\ Dated(w)' /\ Passes(w)'
  <2>1. Fits(w)' /\ Dated(w)'
    BY <1>0, <1>3 DEF MailInv, Typed, TaskRow, Fits, Dated, At, SameConnection
  <2>2. task[w].since \in Nat /\ task[w].latest \in Nat
    BY MailboxConstants, <1>3 DEF MailInv, Typed, TaskRow
  <2>3. \A m \in 1..box' : m \in 1..box \/ (m = box + 1 /\ ~(m < task[w].since) /\ ~(m < task[w].latest))
    BY <1>0, <1>3, <2>2 DEF MailInv, Dated
  <2>4. Passes(w)'
    BY <1>1, <1>2, <1>3, <2>3 DEF MailInv, Passes, At
  <2> QED
    BY <2>1, <2>4
<1>4. NothingMissed'
  <2>1. \A m \in 1..box' : m \in 1..box \/ ~(m < account.history)
    BY <1>0 DEF MailInv
  <2> QED
    BY <1>1, <2>1 DEF MailInv, NothingMissed, Covered, SameConnection
<1>5. ASSUME NEW m \in Messages PROVE Single(m)'
  <2>1. \A w \in Tasks : Engaged(w, m)' <=> Engaged(w, m)
    BY <1>2 DEF Engaged
  <2> QED
    BY <1>2, <2>1, <1>5 DEF MailInv, Single, SameLedger, Marks, At
<1> QED
  BY <1>0, <1>3, <1>4, <1>5 DEF MailInv

LEMMA OutdatedTyped ==
    ASSUME tick \in [Beats -> {"idle", "claim", "lost", "queue"}]
    PROVE  Outdated(tick) \in [Beats -> {"idle", "claim", "lost", "queue"}]
BY DEF Outdated

LEMMA ArrivalsKeep == ASSUME MailInv, Arrive \/ \E m \in Messages : DeleteMail(m) PROVE MailInv'
<1>1. CASE Arrive
  <2>1. box' = box + 1 /\ box' \in 0..MaxMessages /\ 1..box \subseteq 1..box'
    BY <1>1, MailboxConstants DEF Arrive, MailInv, Typed, Scene
  <2>2. UNCHANGED <<scene, gone, account, event, app, queue, tick, task, ledger>>
    BY <1>1 DEF Arrive
  <2>3. Typed'
    BY <2>1, <2>2 DEF MailInv, Typed
  <2> QED
    BY <2>1, <2>2, <2>3, TasksStand DEF SameConnection, SameLedger
<1>2. CASE \E m \in Messages : DeleteMail(m)
  <2>1. gone' \subseteq 1..box /\ UNCHANGED <<scene, box, account, event, app, queue, tick, task, ledger>>
    BY <1>2 DEF DeleteMail, MailInv, Typed
  <2>2. Typed'
    BY <2>1 DEF MailInv, Typed
  <2> QED
    BY <2>1, <2>2, TasksStand DEF SameConnection, SameLedger
<1> QED
  BY <1>1, <1>2

LEMMA SetStatusKeeps ==
    ASSUME MailInv, SyncNow \/ \E a \in Apps, s \in UserStatuses : SetStatus(a, s)
    PROVE  MailInv'
<1>1. /\ UNCHANGED <<scene, box, gone, account, event, tick, task, ledger>>
      /\ app' \in [Apps -> Statuses] /\ queue' \in 0..MaxQueue
  <2>1. CASE SyncNow
    BY <2>1, MailboxConstants DEF SyncNow, mail, MailInv, Typed
  <2>2. CASE \E a \in Apps, s \in UserStatuses : SetStatus(a, s)
    BY <2>2, MailboxConstants DEF SetStatus, mail, MailInv, Typed
  <2> QED
    BY <2>1, <2>2
<1>2. Typed'
  BY <1>1 DEF MailInv, Typed
<1> QED
  BY <1>1, <1>2, TasksStand DEF SameConnection, SameLedger

\* The row changes, its connection and history id do not.
LEMMA ScheduleKeeps ==
    ASSUME MailInv, UNCHANGED <<scene, box, gone, event, app, task>>,
           account' \in AccountRow, SameConnection, account'.history = account.history,
           queue' \in 0..MaxQueue, tick' \in [Beats -> {"idle", "claim", "lost", "queue"}],
           ledger' \in Ledger, SameLedger
    PROVE  MailInv'
<1>1. Typed'
  BY DEF MailInv, Typed
<1> QED
  BY <1>1, TasksStand

LEMMA LedgerCounts ==
    ASSUME ledger \in Ledger,
           \/ ledger' = ledger \/ ledger' = [ledger EXCEPT !.claims = 0]
           \/ ledger' = [ledger EXCEPT !.claims = @ + 1] \/ ledger' = [ledger EXCEPT !.faults = @ + 1]
    PROVE  ledger' \in Ledger /\ SameLedger
BY DEF Ledger, SameLedger

LEMMA RevokeKeeps == ASSUME MailInv, Revoke \/ TimePasses PROVE MailInv'
<1>1. /\ account' \in AccountRow /\ SameConnection /\ account'.history = account.history
  BY DEF Revoke, TimePasses, MailInv, Typed, AccountRow, SameConnection
<1>2. UNCHANGED <<scene, box, gone, event, app, queue, tick, task>>
  BY DEF Revoke, TimePasses, mail
<1>3. ledger' \in Ledger /\ SameLedger
  BY LedgerCounts DEF Revoke, TimePasses, MailInv, Typed
<1> QED
  BY <1>1, <1>2, <1>3, ScheduleKeeps DEF MailInv, Typed

LEMMA TicksKeep == ASSUME MailInv, NEW b \in Beats, Beat(b) \/ TickCrash(b) PROVE MailInv'
<1>1. UNCHANGED <<scene, box, gone, event, app, task>>
  BY DEF Beat, TickReads, TickClaims, TickLoses, TickQueues, TickCrash, mail
<1>2. ledger' \in Ledger /\ SameLedger
  BY LedgerCounts DEF Beat, TickReads, TickClaims, TickLoses, TickQueues, TickCrash, MailInv, Typed
<1>3. account' = account \/ account' = [account EXCEPT !.due = FALSE]
  BY DEF Beat, TickReads, TickClaims, TickLoses, TickQueues, TickCrash
<1>4. account' \in AccountRow /\ SameConnection /\ account'.history = account.history
  BY <1>3 DEF MailInv, Typed, AccountRow, SameConnection
<1>5. queue' \in 0..MaxQueue
  BY MailboxConstants DEF Beat, TickReads, TickClaims, TickLoses, TickQueues, TickCrash, MailInv, Typed
<1>6. tick' \in [Beats -> {"idle", "claim", "lost", "queue"}]
  BY OutdatedTyped DEF Beat, TickReads, TickClaims, TickLoses, TickQueues, TickCrash, MailInv, Typed
<1> QED
  BY <1>1, <1>2, <1>4, <1>5, <1>6, ScheduleKeeps

LEMMA NobodyConnected ==
    ASSUME Typed', task' = task,
           \A w \in Tasks : ~Connected(w)' /\ Fits(w) /\ Dated(w)', account'.history <= box' + 1,
           NothingMissed',
           \A m \in Messages : m \notin ledger'.shared =>
               ledger'.writes[m] <= 1 /\ (ledger'.writes[m] = 0 \/ event'[m] = "applied")
    PROVE  MailInv'
<1>1. \A w \in Tasks : Fits(w)' /\ Passes(w)'
  BY DEF Fits, Passes, At
<1>2. \A m \in Messages : Single(m)'
  BY DEF Single, Engaged, Marks
<1> QED
  BY <1>1, <1>2 DEF MailInv

LEMMA Bounds == MaxMessages \in Nat /\ MaxPerSync \in Nat /\ MaxGrants \in Nat /\ MaxQueue \in Nat
BY MailboxConstants

LEMMA NothingTyped == NoAccount \in AccountRow
<1> DEFINE Grants == SUBSET (1..MaxGrants)
           Ids == 0..MaxMessages + 1
<1>1. AccountRow = [status : {"absent", "active", "needs_reconnect"}, row : Nat, grant : Nat,
                    valid : Grants, history : Ids, synced : Nat, due : BOOLEAN]
  BY DEF AccountRow
<1>2. 0 \in Ids /\ {} \in Grants
  BY Bounds
<1> HIDE DEF Grants, Ids
<1> QED
  BY <1>1, <1>2 DEF NoAccount

LEMMA NoneTyped ==
    ASSUME NEW row \in Nat, NEW grant \in Nat
    PROVE  [NoAccount EXCEPT !.row = row, !.grant = grant] \in AccountRow
BY NothingTyped DEF AccountRow

LEMMA ConnectKeeps == ASSUME MailInv, Connect PROVE MailInv'
<1> DEFINE kept == IF account.status = "absent"
                   THEN [NoAccount EXCEPT !.row = account.row + 1, !.grant = account.grant]
                   ELSE account
<1>1. kept \in AccountRow
  <2>1. account \in AccountRow /\ account.row + 1 \in Nat /\ account.grant \in Nat
    BY DEF MailInv, Typed, AccountRow
  <2> QED
    BY <2>1, NoneTyped
<1>2. account.grant \in Nat /\ account.grant + 1 \in 1..MaxGrants
  BY MailboxConstants DEF Connect, MailInv, Typed, Scene, AccountRow
<1>3. account' = [kept EXCEPT !.status = "active", !.grant = @ + 1, !.due = TRUE,
                              !.valid = @ \cup {account.grant + 1}]
  BY DEF Connect
<1>4. /\ account' \in AccountRow /\ account'.row = kept.row /\ account'.history = kept.history
      /\ account'.status = "active"
  <2> HIDE DEF kept
  <2>1. kept.grant + 1 \in Nat /\ kept.valid \cup {account.grant + 1} \subseteq 1..MaxGrants
    BY <1>1, <1>2 DEF AccountRow
  <2>2. [kept EXCEPT !.status = "active", !.grant = @ + 1, !.due = TRUE] \in AccountRow
    BY <1>1, <2>1 DEF AccountRow
  <2> DEFINE Grants == SUBSET (1..MaxGrants)
             valid == kept.valid \cup {account.grant + 1}
  <2>3. valid \in Grants
    BY <2>1
  <2> HIDE DEF Grants, valid
  <2> QED
    BY <1>1, <1>3, <2>1, <2>2, <2>3 DEF AccountRow
<1>5. UNCHANGED <<scene, box, gone, event, app, queue, task>>
  BY DEF Connect, mail
<1>6. ledger' \in Ledger /\ SameLedger
  BY LedgerCounts DEF Connect, MailInv, Typed
<1>7. tick' \in [Beats -> {"idle", "claim", "lost", "queue"}]
  BY OutdatedTyped DEF Connect, MailInv, Typed
<1>8. CASE account.status # "absent"
  BY <1>4, <1>5, <1>6, <1>7, <1>8, ScheduleKeeps DEF SameConnection, MailInv, Typed
<1>9. CASE account.status = "absent"
  <2>1. account'.row = account.row + 1 /\ account'.history = 0
    BY <1>4, <1>9 DEF NoAccount
  <2>2. Typed'
    BY <1>4, <1>5, <1>6, <1>7 DEF MailInv, Typed
  <2>3. \A w \in Tasks : ~Connected(w)
    BY <1>9 DEF Connected
  <2>4. ASSUME NEW w \in Tasks PROVE ~Connected(w)' /\ Dated(w)'
    <3>1. task[w].row \in Nat /\ account.row \in Nat /\ task[w].row <= account.row
      BY <2>4 DEF MailInv, Typed, TaskRow, AccountRow, Dated
    <3> QED
      BY <1>5, <2>1, <2>4, <3>1 DEF MailInv, Dated, Connected
  <2>5. box \in Nat /\ NothingMissed'
    BY <2>1 DEF NothingMissed, MailInv, Typed
  <2>6. ASSUME NEW m \in Messages, m \notin ledger'.shared
        PROVE  ledger'.writes[m] <= 1 /\ (ledger'.writes[m] = 0 \/ event'[m] = "applied")
    BY <1>5, <1>6, <2>3, <2>6 DEF MailInv, Single, Marks, SameLedger
  <2> QED
    BY <1>5, <2>1, <2>2, <2>4, <2>5, <2>6, NobodyConnected DEF MailInv
<1> QED
  BY <1>8, <1>9

LEMMA DisconnectKeeps == ASSUME MailInv, Disconnect PROVE MailInv'
<1>1. account' = [NoAccount EXCEPT !.row = account.row, !.grant = account.grant]
  BY DEF Disconnect
<1>2. UNCHANGED <<scene, box, gone, app, queue, tick, task>>
  BY DEF Disconnect, mail
<1>3. account'.row = account.row /\ account'.history = 0 /\ account'.status = "absent" /\ account' \in AccountRow
  <2>1. account.row \in Nat /\ account.grant \in Nat
    BY DEF MailInv, Typed, AccountRow
  <2> QED
    BY <1>1, <2>1, NoneTyped DEF NoAccount
<1>4. event' \in [Messages -> EventStates]
  BY DEF Disconnect, EventStates
<1>5. ledger' = [NoLedger EXCEPT !.faults = ledger.faults]
  BY DEF Disconnect
<1>6. ledger' \in Ledger /\ ledger'.writes = [m \in Messages |-> 0]
  <2>1. ledger.faults \in Nat
    BY DEF MailInv, Typed, Ledger
  <2> QED
    BY <1>5, <2>1 DEF NoLedger, Ledger
<1>7. Typed'
  BY <1>2, <1>3, <1>4, <1>6 DEF MailInv, Typed
<1>8. \A w \in Tasks : ~Connected(w)' /\ Fits(w) /\ Dated(w)'
  BY <1>2, <1>3 DEF MailInv, Connected, Dated
<1>9. box \in Nat /\ NothingMissed'
  BY <1>3 DEF NothingMissed, MailInv, Typed
<1> QED
  BY <1>2, <1>3, <1>6, <1>7, <1>8, <1>9, NobodyConnected

----------------------------------------------------------------------------
(* A task that ends, and one that goes on to its next message *)

LEMMA EndsWell ==
    ASSUME MailInv, NEW w \in Tasks, Ends(w), account'.row \in Nat, box' = box
    PROVE  /\ task' \in [Tasks -> TaskRow] /\ Only(w)
           /\ Fits(w)' /\ Dated(w)' /\ Passes(w)' /\ \A m : ~Engaged(w, m)'
<1>1. task' \in [Tasks -> TaskRow] /\ task'[w] = IdleTask /\ Only(w)
  BY IdleTyped, RowReplaced DEF Ends, MailInv
<1>2. box \in Nat /\ 0 \notin Messages
  BY DEF MailInv, Typed, Messages
<1> QED
  BY <1>1, <1>2 DEF Fits, Dated, Passes, Engaged, Connected, IdleTask, Holding, Deciding, At

LEMMA ContinueIs ==
    ASSUME MailInv, NEW w \in Tasks, task[w].pc \in Holding, task' = [task EXCEPT ![w] = Continue(w)]
    PROVE  /\ task' \in [Tasks -> TaskRow] /\ Only(w)
           /\ \/ task'[w] = IdleTask
              \/ /\ task[w].phase \in {"new", "retry"} /\ task'[w].phase = task[w].phase
                 /\ task[w].phase = "new" => task'[w].pc = "next"
                 /\ task[w].phase = "retry" => task'[w].pc = "retry"
                 /\ task'[w].row = task[w].row /\ task'[w].since = task[w].since
                 /\ task'[w].latest = task[w].latest /\ task'[w].todo = task[w].todo
                 /\ task'[w].msg = 0
<1> DEFINE t == task[w]
           r == [t EXCEPT !.pc = IF t.phase = "new" THEN "next" ELSE "retry", !.msg = 0,
                          !.app = "none", !.status = "none"]
<1>1. t \in TaskRow
  BY DEF MailInv, Typed
<1>2. /\ r \in TaskRow /\ r.phase = t.phase /\ r.row = t.row /\ r.since = t.since /\ r.latest = t.latest
      /\ r.todo = t.todo /\ r.msg = 0 /\ r.pc = IF t.phase = "new" THEN "next" ELSE "retry"
  <2>1. /\ (IF t.phase = "new" THEN "next" ELSE "retry") \in Steps
        /\ 0 \in 0..MaxMessages
    BY Bounds DEF Steps
  <2> HIDE DEF t
  <2> QED
    BY <1>1, <2>1 DEF TaskRow
<1>3. Continue(w) = (IF t.phase = "review" THEN IdleTask ELSE r)
  BY DEF Continue
<1>4. t.phase \in {"new", "retry", "review"}
  BY <1>1 DEF TaskRow
<1>5. CASE t.phase = "review"
  <2>1. task' = [task EXCEPT ![w] = IdleTask]
    BY <1>3, <1>5
  <2> QED
    BY <2>1, IdleTyped, RowReplaced DEF MailInv
<1>6. CASE t.phase # "review"
  <2>1. task' = [task EXCEPT ![w] = r]
    BY <1>3, <1>6
  <2>2. task' \in [Tasks -> TaskRow] /\ Only(w) /\ task'[w] = r
    <3> HIDE DEF r
    <3> QED
      BY <1>2, <2>1, RowReplaced DEF MailInv
  <2> HIDE DEF r
  <2> QED
    BY <1>2, <1>4, <1>6, <2>2
<1> QED
  BY <1>5, <1>6

LEMMA Continues ==
    ASSUME MailInv, NEW w \in Tasks, task[w].pc \in Holding, task' = [task EXCEPT ![w] = Continue(w)],
           SameConnection, box' = box, \A m \in Messages : Covered(m) => Covered(m)',
           \A m \in Messages : At(w, "store") /\ Connected(w) /\ m = task[w].msg => Covered(m)'
    PROVE  /\ task' \in [Tasks -> TaskRow] /\ Only(w)
           /\ Fits(w)' /\ Dated(w)' /\ Passes(w)'
           /\ \A m : Engaged(w, m)' => Engaged(w, m) /\ m # task[w].msg
<1>1. task' \in [Tasks -> TaskRow] /\ Only(w)
  BY ContinueIs
<1>2. task[w] \in TaskRow /\ task[w].msg \in Messages \ task[w].todo /\ 1..box \subseteq Messages
  BY MailboxConstants DEF MailInv, Typed, Fits, Messages
<1>3. CASE task'[w] = IdleTask
  <2>1. Ends(w) /\ account'.row \in Nat
    BY <1>3, ContinueIs DEF Ends, Only, SameConnection, MailInv, Typed, AccountRow
  <2> QED
    BY <2>1, EndsWell
<1>4. CASE /\ task[w].phase \in {"new", "retry"} /\ task'[w].phase = task[w].phase
           /\ task[w].phase = "new" => task'[w].pc = "next"
           /\ task[w].phase = "retry" => task'[w].pc = "retry"
           /\ task'[w].row = task[w].row /\ task'[w].since = task[w].since
           /\ task'[w].latest = task[w].latest /\ task'[w].todo = task[w].todo
           /\ task'[w].msg = 0
  <2>0. 0 \notin Messages /\ (w \in Requests => task[w].phase = "review")
    BY DEF MailInv, Fits, Messages, Holding, Deciding, At
  <2>1. Fits(w)' /\ Dated(w)'
    BY <1>4, <2>0 DEF MailInv, Fits, Dated, Holding, Deciding, At, SameConnection
  <2>2. Connected(w)' => Connected(w)
    BY <1>4 DEF Connected, SameConnection
  <2>3. task[w].pc \notin {"idle", "list", "profile"}
    BY DEF Holding, Deciding
  <2>4. Passes(w)'
    <3> SUFFICES ASSUME Connected(w)', NEW m \in 1..box, m < task[w].latest
                 PROVE  /\ task[w].phase = "new" => Covered(m)' \/ m \in task[w].todo
                        /\ task[w].phase = "retry" => Covered(m)'
      BY <1>4 DEF Passes, At
    <3>1. m \in Messages /\ Connected(w)
      BY <1>2, <2>2
    <3>2. task[w].phase = "new" => Covered(m) \/ m \in task[w].todo \/ (At(w, "store") /\ m = task[w].msg)
      BY <2>3, <3>1 DEF MailInv, Passes
    <3>3. task[w].phase = "retry" => Covered(m)
      BY <3>1 DEF MailInv, Passes
    <3> QED
      BY <3>1, <3>2, <3>3
  <2>5. \A m : Engaged(w, m)' => Engaged(w, m) /\ m # task[w].msg
    BY <1>2, <1>4, <2>2 DEF Engaged, Deciding
  <2> QED
    BY <1>1, <2>1, <2>4, <2>5
<1> QED
  BY <1>3, <1>4, ContinueIs

----------------------------------------------------------------------------
(* A sync reads *)

\* A step that takes nothing in hand and writes no event.
LEMMA QuietStep ==
    ASSUME MailInv, NEW w \in Tasks, UNCHANGED <<scene, box, gone, account, event, app, tick>>,
           queue' \in 0..MaxQueue, ledger' \in Ledger,
           ledger.handled \subseteq ledger'.handled, ledger.lost \subseteq ledger'.lost,
           ledger'.shared = ledger.shared, ledger'.writes = ledger.writes,
           task' \in [Tasks -> TaskRow], Only(w), Fits(w)', Dated(w)', Passes(w)',
           ~At(w, "mark"), \A m \in Messages : Engaged(w, m)' => Engaged(w, m)
    PROVE  MailInv'
<1>1. Typed'
  BY DEF MailInv, Typed
<1>2. SameConnection /\ \A m \in Messages : Covered(m) => Covered(m)'
  BY DEF SameConnection, Covered
<1>3. \A m \in Messages : Single(m)'
  BY <1>2, SingleStays DEF MailInv, Marks
<1> QED
  BY <1>1, <1>2, <1>3, StepOf

LEMMA TakeKeeps == ASSUME MailInv, NEW w \in Workers, Take(w) PROVE MailInv'
<1> DEFINE r == IF account.status = "active"
                THEN [IdleTask EXCEPT !.pc = "list", !.row = account.row, !.grant = account.grant,
                                      !.since = account.history]
                ELSE IdleTask
<1>1. /\ UNCHANGED <<scene, box, gone, account, event, app, tick, ledger>> /\ queue' \in 0..MaxQueue
      /\ At(w, "idle") /\ task' = [task EXCEPT ![w] = r] /\ w \in Tasks /\ w \notin Requests
  BY Bounds, MailboxConstants DEF Take, mail, MailInv, Typed, Tasks
<1>2. /\ account.row \in Nat /\ account.grant \in Nat /\ account.history \in 0..MaxMessages + 1
      /\ account.history <= box + 1 /\ box \in Nat
  BY DEF MailInv, Typed, AccountRow
<1>3. r \in TaskRow
  BY <1>2, IdleTyped DEF TaskRow, Steps
<1>4. task' \in [Tasks -> TaskRow] /\ Only(w) /\ task'[w] = r
  <2> HIDE DEF r
  <2> QED
    BY <1>1, <1>3, RowReplaced DEF MailInv
<1>5. /\ r.todo = {} /\ r.phase = "new" /\ r.msg = 0 /\ r.latest = 0 /\ r.pc \in {"idle", "list"}
      /\ r.pc = "idle" => r = IdleTask
      /\ r.pc = "list" => r.row = account.row /\ r.since = account.history /\ account.status = "active"
      /\ r.row <= account.row /\ r.since <= box + 1
  BY <1>2 DEF IdleTask
<1> HIDE DEF r
<1>6. Fits(w)' /\ Dated(w)'
  BY <1>1, <1>2, <1>4, <1>5 DEF Fits, Dated, At, Holding, Deciding
<1>7. Passes(w)'
  <2>1. account.status = "active" => \A m \in 1..box : m < account.history => Covered(m)
    BY DEF MailInv, NothingMissed, Covered
  <2>2. \A m : Covered(m)' <=> Covered(m)
    BY <1>1 DEF Covered
  <2> QED
    BY <1>1, <1>2, <1>4, <1>5, <2>1, <2>2 DEF Passes, At
<1>8. ~At(w, "mark") /\ \A m : ~Engaged(w, m)'
  BY <1>1, <1>4, <1>5 DEF Engaged, Deciding, At
<1> QED
  BY <1>1, <1>4, <1>6, <1>7, <1>8, QuietStep DEF MailInv, Typed

\* What PassOver notes is that the messages of S are covered from now on.
LEMMA PassedOver ==
    ASSUME MailInv, NEW S \in SUBSET Messages, ledger' = PassOver(S), event' = event
    PROVE  /\ ledger' \in Ledger /\ ledger'.handled = ledger.handled /\ ledger.lost \subseteq ledger'.lost
           /\ ledger'.shared = ledger.shared /\ ledger'.writes = ledger.writes
           /\ \A m : Covered(m) => Covered(m)'
           /\ \A m \in S : Covered(m)'
<1>1. ledger \in Ledger
  BY DEF MailInv, Typed
<1>2. Unknown(S) \ ledger.handled \subseteq Messages
  BY DEF Unknown
<1>3. ledger' = [ledger EXCEPT !.lost = ledger.lost \cup (Unknown(S) \ ledger.handled)]
  BY DEF PassOver
<1>4. /\ ledger' \in Ledger /\ ledger'.handled = ledger.handled /\ ledger'.shared = ledger.shared
      /\ ledger'.writes = ledger.writes /\ ledger'.lost = ledger.lost \cup (Unknown(S) \ ledger.handled)
  BY <1>1, <1>2, <1>3 DEF Ledger
<1> QED
  BY <1>4 DEF Covered, Unknown

LEMMA FirstAndLast ==
    ASSUME NEW S, NEW n PROVE Oldest(S, n) \subseteq S /\ Newest(S, n) \subseteq S
BY DEF Oldest, Newest

LEMMA ListKeeps == ASSUME MailInv, NEW w \in Tasks, List(w) PROVE MailInv'
<1> DEFINE t == task[w]
<1>1. t \in TaskRow /\ t.pc = "list" /\ t.phase = "new" /\ w \notin Requests /\ t.msg = 0
  BY DEF MailInv, Typed, List, At, Fits, Holding, Deciding
<1>2. UNCHANGED <<scene, box, gone, account, event, app, queue, tick>>
  BY DEF List, mail
<1>3. box \in 0..MaxMessages /\ box \in Nat /\ MaxMessages \in Nat /\ 1..box \subseteq Messages
  BY Bounds DEF MailInv, Typed, Messages
<1>4. \E ids, wanted \in SUBSET (1..box), latest \in {0, box + 1} :
        /\ latest # 0 => t.since > 0 /\ wanted = t.since..box
        /\ task' = [task EXCEPT ![w].todo = Unknown(ids), ![w].latest = latest, ![w].history = (latest # 0),
                                ![w].pc = IF latest = 0 THEN "profile" ELSE "next"]
        /\ ledger' = PassOver(wanted \ ids)
  <2> DEFINE known == t.since..box
             recent == (1..box) \ gone
             later == {m \in recent : m > account.synced}
  <2>1. t.since \in Nat /\ (t.since > 0 => known \subseteq 1..box)
    BY <1>1, <1>3 DEF TaskRow
  <2>2. /\ Oldest(known, MaxPerSync) \subseteq known /\ Newest(later, MaxPerSync) \subseteq 1..box
        /\ Newest(recent, MaxPerSync) \subseteq 1..box /\ recent \subseteq 1..box
    BY FirstAndLast
  <2>3. CASE /\ t.since > 0
             /\ task' = [task EXCEPT ![w].todo = Unknown(Oldest(known, MaxPerSync)), ![w].latest = box + 1,
                                     ![w].history = (box + 1 # 0),
                                     ![w].pc = IF box + 1 = 0 THEN "profile" ELSE "next"]
             /\ ledger' = PassOver(known \ Oldest(known, MaxPerSync))
    BY <2>1, <2>2, <2>3
  <2>4. CASE /\ t.since > 0
             /\ task' = [task EXCEPT ![w].todo = Unknown(Newest(later, MaxPerSync)), ![w].latest = 0,
                                     ![w].history = (0 # 0),
                                     ![w].pc = IF 0 = 0 THEN "profile" ELSE "next"]
             /\ ledger' = PassOver(known \ Newest(later, MaxPerSync))
    BY <2>1, <2>2, <2>4
  <2>5. CASE /\ task' = [task EXCEPT ![w].todo = Unknown(Newest(recent, MaxPerSync)), ![w].latest = 0,
                                     ![w].history = (0 # 0),
                                     ![w].pc = IF 0 = 0 THEN "profile" ELSE "next"]
             /\ ledger' = PassOver(recent \ Newest(recent, MaxPerSync))
    BY <2>2, <2>5
  <2> QED
    BY <2>3, <2>4, <2>5 DEF List
<1>5. PICK ids \in SUBSET (1..box), wanted \in SUBSET (1..box), latest \in {0, box + 1} :
        /\ latest # 0 => t.since > 0 /\ wanted = t.since..box
        /\ task' = [task EXCEPT ![w].todo = Unknown(ids), ![w].latest = latest, ![w].history = (latest # 0),
                                ![w].pc = IF latest = 0 THEN "profile" ELSE "next"]
        /\ ledger' = PassOver(wanted \ ids)
  BY <1>4
<1> DEFINE todo == Unknown(ids)
           history == latest # 0
           pc == IF latest = 0 THEN "profile" ELSE "next"
<1>6. task' = [task EXCEPT ![w].todo = todo, ![w].latest = latest, ![w].history = history, ![w].pc = pc]
  BY <1>5
<1>6a. /\ todo = Unknown(ids) /\ history \in BOOLEAN
       /\ pc \in {"profile", "next"} /\ (latest = 0 => pc = "profile")
  OBVIOUS
<1> HIDE DEF todo, history, pc
<1> DEFINE r == [t EXCEPT !.todo = todo, !.latest = latest, !.history = history, !.pc = pc]
<1>7. todo \in SUBSET Messages /\ latest \in 0..MaxMessages + 1 /\ pc \in Steps
  <2>1. todo \in SUBSET Messages
    BY <1>3, <1>5, <1>6a DEF Unknown
  <2>2. latest \in 0..MaxMessages + 1
    BY <1>3, <1>5
  <2>3. pc \in Steps
    BY <1>6a DEF Steps
  <2> QED
    BY <2>1, <2>2, <2>3
<1>8. /\ r \in TaskRow /\ r.todo = todo /\ r.latest = latest /\ r.pc = pc /\ r.phase = "new" /\ r.msg = 0
      /\ r.row = t.row /\ r.since = t.since
  <2> HIDE DEF t
  <2> QED
    BY <1>1, <1>6a, <1>7 DEF TaskRow
<1>9. task' = [task EXCEPT ![w] = r]
  BY <1>6, <1>1 DEF MailInv, Typed
<1>10. task' \in [Tasks -> TaskRow] /\ Only(w) /\ task'[w] = r
  <2> HIDE DEF r
  <2> QED
    BY <1>8, <1>9, RowReplaced DEF MailInv
<1> HIDE DEF r
<1>11. /\ ledger' \in Ledger /\ ledger.handled \subseteq ledger'.handled /\ ledger.lost \subseteq ledger'.lost
       /\ ledger'.shared = ledger.shared /\ ledger'.writes = ledger.writes
       /\ \A m : Covered(m) => Covered(m)'
       /\ \A m \in wanted \ ids : Covered(m)'
  <2>1. wanted \ ids \in SUBSET Messages
    BY <1>3
  <2> QED
    BY <1>2, <1>5, <2>1, PassedOver
<1>12. 0 \notin Messages /\ pc \in {"profile", "next"}
  BY <1>6a DEF Messages
<1>13. Fits(w)' /\ Dated(w)'
  BY <1>1, <1>2, <1>3, <1>8, <1>10, <1>12 DEF MailInv, Fits, Dated, At, Holding, Deciding
<1>14. Passes(w)'
  <2> SUFFICES ASSUME Connected(w)', NEW m \in 1..box, latest # 0, m < latest PROVE Covered(m)' \/ m \in todo
    BY <1>2, <1>6a, <1>8, <1>10 DEF Passes, At
  <2>1. Connected(w)
    BY <1>2, <1>8, <1>10 DEF Connected
  <2>2. CASE m < t.since
    BY <1>1, <1>3, <1>11, <2>1, <2>2 DEF MailInv, Passes, At
  <2>3. CASE ~(m < t.since)
    <3>1. m \in wanted
      BY <1>1, <1>3, <1>5, <2>3 DEF TaskRow
    <3>2. m \in todo \/ event[m] # "none" \/ m \notin ids
      BY <1>6a DEF Unknown
    <3> QED
      BY <1>2, <1>11, <3>1, <3>2 DEF Covered
  <2> QED
    BY <2>2, <2>3
<1>15. ~At(w, "mark") /\ \A m \in Messages : ~Engaged(w, m)'
  BY <1>1, <1>8, <1>10, <1>12 DEF Engaged, At, Deciding
<1> QED
  BY <1>2, <1>10, <1>11, <1>13, <1>14, <1>15, QuietStep DEF MailInv, Typed

LEMMA ProfileKeeps == ASSUME MailInv, NEW w \in Tasks, Profile(w) PROVE MailInv'
<1> DEFINE t == task[w]
           S == (1..box) \ t.todo
           todo == Unknown(t.todo)
           latest == box + 1
           r == [t EXCEPT !.latest = latest, !.todo = todo, !.pc = "next"]
<1>1. t \in TaskRow /\ t.pc = "profile" /\ t.phase = "new" /\ w \notin Requests /\ t.msg = 0
  BY DEF MailInv, Typed, Profile, At, Fits, Holding, Deciding
<1>2. UNCHANGED <<scene, box, gone, account, event, app, queue, tick>>
  BY DEF Profile, mail
<1>3. box \in 0..MaxMessages /\ box \in Nat /\ MaxMessages \in Nat /\ 1..box \subseteq Messages
  BY Bounds DEF MailInv, Typed, Messages
<1>4. ledger' = PassOver(S) /\ S \in SUBSET Messages
  BY <1>3 DEF Profile
<1>5. /\ ledger' \in Ledger /\ ledger.handled \subseteq ledger'.handled /\ ledger.lost \subseteq ledger'.lost
      /\ ledger'.shared = ledger.shared /\ ledger'.writes = ledger.writes
      /\ \A m : Covered(m) => Covered(m)'
      /\ \A m \in S : Covered(m)'
  <2> HIDE DEF S
  <2> QED
    BY <1>2, <1>4, PassedOver
<1>6. todo \in SUBSET Messages /\ latest \in 0..MaxMessages + 1
  BY <1>1, <1>3 DEF Unknown, TaskRow
<1>7. /\ r \in TaskRow /\ r.todo = todo /\ r.latest = latest /\ r.pc = "next" /\ r.phase = "new" /\ r.msg = 0
      /\ r.row = t.row /\ r.since = t.since
  <2> HIDE DEF t, todo, latest
  <2> QED
    BY <1>1, <1>6 DEF TaskRow, Steps
<1>8. task' = [task EXCEPT ![w] = r]
  BY DEF Profile, MailInv, Typed
<1>9. task' \in [Tasks -> TaskRow] /\ Only(w) /\ task'[w] = r
  <2> HIDE DEF r
  <2> QED
    BY <1>7, <1>8, RowReplaced DEF MailInv
<1> HIDE DEF r
<1>10. Fits(w)' /\ Dated(w)'
  BY <1>1, <1>2, <1>3, <1>7, <1>9 DEF MailInv, Fits, Dated, At, Holding, Deciding, Messages
<1>11. Passes(w)'
  <2> SUFFICES ASSUME NEW m \in 1..box PROVE Covered(m)' \/ m \in todo
    BY <1>2, <1>7, <1>9 DEF Passes, At
  <2>1. CASE m \in S
    BY <1>5, <2>1
  <2>2. CASE m \in t.todo
    BY <1>2, <2>2 DEF Covered, Unknown
  <2> QED
    BY <2>1, <2>2
<1>12. ~At(w, "mark") /\ \A m \in Messages : ~Engaged(w, m)'
  BY <1>1, <1>7, <1>9 DEF Engaged, At, Deciding
<1> QED
  BY <1>2, <1>5, <1>9, <1>10, <1>11, <1>12, QuietStep DEF MailInv, Typed

LEMMA SkipKeeps == ASSUME MailInv, NEW w \in Tasks, SkipMessage(w) PROVE MailInv'
<1> DEFINE t == task[w]
           m0 == Upcoming(w)
           todo == t.todo \ {m0}
           r == [t EXCEPT !.todo = todo]
<1>1. t \in TaskRow /\ t.pc = "next" /\ t.phase = "new" /\ w \notin Requests /\ t.msg = 0 /\ t.todo # {}
  BY DEF MailInv, Typed, SkipMessage, Reads, At, Fits, Holding, Deciding
<1>2. UNCHANGED <<scene, box, gone, account, event, app, queue, tick>>
  BY DEF SkipMessage, mail
<1>3. m0 \in t.todo /\ m0 \in Messages /\ todo \in SUBSET Messages
  BY <1>1, UpcomingIsListed DEF MailInv, TaskRow
<1>4. ledger' = [ledger EXCEPT !.handled = @ \cup {m0}] /\ task' = [task EXCEPT ![w] = r]
  BY DEF SkipMessage, MailInv, Typed
<1> HIDE DEF m0
<1>5. /\ ledger' \in Ledger /\ ledger'.handled = ledger.handled \cup {m0} /\ ledger'.lost = ledger.lost
      /\ ledger'.shared = ledger.shared /\ ledger'.writes = ledger.writes
  BY <1>3, <1>4 DEF MailInv, Typed, Ledger
<1>6. (\A m : Covered(m) => Covered(m)') /\ \A m : m = m0 => Covered(m)'
  BY <1>2, <1>5 DEF Covered
<1>7. /\ r \in TaskRow /\ r.todo = todo /\ r.latest = t.latest /\ r.pc = "next" /\ r.phase = "new" /\ r.msg = 0
      /\ r.row = t.row /\ r.since = t.since
  <2> HIDE DEF t, todo
  <2> QED
    BY <1>1, <1>3 DEF TaskRow
<1>8. task' \in [Tasks -> TaskRow] /\ Only(w) /\ task'[w] = r
  <2> HIDE DEF r
  <2> QED
    BY <1>4, <1>7, RowReplaced DEF MailInv
<1> HIDE DEF r
<1>9. Fits(w)' /\ Dated(w)'
  BY <1>1, <1>2, <1>7, <1>8 DEF MailInv, Fits, Dated, At, Holding, Deciding, Messages
<1>10. Passes(w)'
  <2> SUFFICES ASSUME Connected(w)', NEW m \in 1..box, m < t.latest PROVE Covered(m)' \/ m \in todo
    BY <1>2, <1>7, <1>8 DEF Passes, At
  <2>1. Connected(w)
    BY <1>2, <1>7, <1>8 DEF Connected
  <2>2. Covered(m) \/ m \in t.todo
    BY <1>1, <2>1 DEF MailInv, Passes, At
  <2> QED
    BY <1>6, <2>2
<1>11. ~At(w, "mark") /\ \A m \in Messages : ~Engaged(w, m)'
  BY <1>1, <1>7, <1>8 DEF Engaged, At, Deciding
<1> QED
  BY <1>2, <1>5, <1>8, <1>9, <1>10, <1>11, QuietStep DEF MailInv, Typed

LEMMA ReadKeeps == ASSUME MailInv, NEW w \in Tasks, ReadMessage(w) PROVE MailInv'
<1> DEFINE t == task[w]
           m0 == Upcoming(w)
           todo == t.todo \ {m0}
           r == [t EXCEPT !.todo = todo, !.msg = m0, !.pc = "store"]
<1>1. t \in TaskRow /\ t.pc = "next" /\ t.phase = "new" /\ w \notin Requests /\ t.todo # {}
  BY DEF MailInv, Typed, ReadMessage, Reads, At, Fits, Holding, Deciding
<1>2. UNCHANGED <<scene, box, gone, account, event, app, queue, tick, ledger>>
  BY DEF ReadMessage, mail
<1>3. m0 \in t.todo /\ m0 \in Messages /\ m0 \in 0..MaxMessages /\ todo \in SUBSET Messages
  BY <1>1, UpcomingIsListed, Bounds DEF MailInv, TaskRow, Messages
<1>4. task' = [task EXCEPT ![w] = r]
  BY DEF ReadMessage, MailInv, Typed
<1> HIDE DEF m0
<1>5. /\ r \in TaskRow /\ r.todo = todo /\ r.latest = t.latest /\ r.pc = "store" /\ r.phase = "new" /\ r.msg = m0
      /\ r.row = t.row /\ r.since = t.since
  <2> HIDE DEF t, todo
  <2> QED
    BY <1>1, <1>3 DEF TaskRow, Steps
<1>6. task' \in [Tasks -> TaskRow] /\ Only(w) /\ task'[w] = r
  <2> HIDE DEF r
  <2> QED
    BY <1>4, <1>5, RowReplaced DEF MailInv
<1> HIDE DEF r
<1>7. Fits(w)' /\ Dated(w)'
  BY <1>1, <1>2, <1>3, <1>5, <1>6 DEF MailInv, Fits, Dated, At, Holding, Deciding
<1>8. Passes(w)'
  <2> SUFFICES ASSUME Connected(w)', NEW m \in 1..box, m < t.latest PROVE Covered(m)' \/ m \in todo \/ m = m0
    BY <1>2, <1>5, <1>6 DEF Passes, At
  <2>1. Connected(w)
    BY <1>2, <1>5, <1>6 DEF Connected
  <2>2. Covered(m) \/ m \in t.todo
    BY <1>1, <2>1 DEF MailInv, Passes, At
  <2> QED
    BY <1>2, <2>2 DEF Covered
<1>9. ~At(w, "mark") /\ \A m \in Messages : ~Engaged(w, m)'
  BY <1>1, <1>5, <1>6 DEF Engaged, At, Deciding
<1> QED
  BY <1>2, <1>6, <1>7, <1>8, <1>9, QuietStep DEF MailInv, Typed

----------------------------------------------------------------------------
(* A message is decided about *)

\* A step of w that goes on with its message, or takes the next one to retry.
LEMMA DecidesOn ==
    ASSUME MailInv, NEW w \in Tasks, NEW r \in TaskRow, task' = [task EXCEPT ![w] = r],
           UNCHANGED <<scene, box, gone, account, event, app, queue, tick, ledger>>,
           task[w].pc \in Deciding \cup {"retry"}, r.pc \in {"classify", "judge", "record", "mark"},
           r.phase = task[w].phase, r.row = task[w].row, r.latest = task[w].latest, r.since = task[w].since,
           r.msg \in Messages \ r.todo,
           \/ task[w].pc \in Deciding /\ ~At(w, "mark") /\ r.msg = task[w].msg /\ r.todo = task[w].todo
           \/ At(w, "retry") /\ r.msg \in task[w].todo /\ r.todo = task[w].todo \ {r.msg},
           r.pc = "classify" => r.phase # "review",
           r.pc # "classify" => r.app \in Apps /\ r.status \in Statuses
    PROVE  MailInv'
<1>1. task' \in [Tasks -> TaskRow] /\ Only(w) /\ task'[w] = r
  BY RowReplaced DEF MailInv
<1>2. \A m : Covered(m)' <=> Covered(m)
  BY DEF Covered
<1>3. Fits(w)' /\ Dated(w)'
  <2>1. w \in Requests => task[w].phase = "review"
    BY DEF MailInv, Fits, At, Deciding
  <2>2. task[w].phase = "review" => r.todo = {}
    BY DEF MailInv, Fits, At
  <2> QED
    BY <1>1, <2>1, <2>2 DEF MailInv, Fits, Dated, At, Holding, Deciding
<1>4. Connected(w)' <=> Connected(w)
  BY <1>1 DEF Connected
<1>5. Passes(w)'
  <2> SUFFICES ASSUME Connected(w), NEW m \in 1..box, m < r.latest
               PROVE  /\ r.phase = "new" => Covered(m) \/ m \in r.todo
                      /\ r.phase = "retry" => Covered(m)
    BY <1>1, <1>2, <1>4 DEF Passes, At
  <2> QED
    BY DEF MailInv, Passes, Fits, At, Deciding
<1>6. ~At(w, "mark") /\ \A m \in Messages : Engaged(w, m)' => Engaged(w, m)
  BY <1>1, <1>4 DEF Engaged, At, Deciding, MailInv, Fits
<1> QED
  BY <1>1, <1>3, <1>5, <1>6, QuietStep DEF MailInv, Typed

LEMMA MatchKeeps == ASSUME MailInv, NEW w \in Tasks, Match(w) PROVE MailInv'
<1>1. PICK a \in Apps, c \in Categories :
        task' = [task EXCEPT ![w].pc = "judge", ![w].app = a, ![w].status = CategoryStatus[c]]
  BY DEF Match
<1> DEFINE t == task[w]
           status == CategoryStatus[c]
           r == [t EXCEPT !.pc = "judge", !.app = a, !.status = status]
<1>2. t \in TaskRow /\ t.pc = "classify" /\ t.msg \in Messages \ t.todo
  BY DEF MailInv, Typed, Match, At, Fits, Holding, Deciding
<1>3. status \in Statuses
  BY MailboxConstants DEF CategoryStatus, Statuses, Rank
<1>4. task' = [task EXCEPT ![w] = r]
  BY <1>1 DEF MailInv, Typed
<1>5. /\ r \in TaskRow /\ r.pc = "judge" /\ r.phase = t.phase /\ r.row = t.row /\ r.latest = t.latest
      /\ r.since = t.since /\ r.msg = t.msg /\ r.todo = t.todo /\ r.app = a /\ r.status = status
  <2> HIDE DEF t, status
  <2> QED
    BY <1>2, <1>3 DEF TaskRow, Steps
<1> HIDE DEF r, status
<1> QED
  BY <1>2, <1>3, <1>4, <1>5, DecidesOn DEF Match, mail, Deciding, At

LEMMA JudgeKeeps == ASSUME MailInv, NEW w \in Tasks, Judge(w) PROVE MailInv'
<1> DEFINE t == task[w]
           pc == IF ShouldApply(app[t.app], t.status) THEN "record" ELSE "mark"
           r == [t EXCEPT !.pc = pc]
<1>1. /\ t \in TaskRow /\ t.pc = "judge" /\ t.msg \in Messages \ t.todo
      /\ t.app \in Apps /\ t.status \in Statuses
  BY DEF MailInv, Typed, Judge, At, Fits, Holding, Deciding
<1>2. task' = [task EXCEPT ![w] = r]
  BY DEF Judge, Goto, MailInv, Typed
<1>3. pc \in {"record", "mark"}
  OBVIOUS
<1> HIDE DEF pc
<1>4. /\ r \in TaskRow /\ r.pc = pc /\ r.phase = t.phase /\ r.row = t.row /\ r.latest = t.latest
      /\ r.since = t.since /\ r.msg = t.msg /\ r.todo = t.todo /\ r.app = t.app /\ r.status = t.status
  <2> HIDE DEF t
  <2> QED
    BY <1>1, <1>3 DEF TaskRow, Steps
<1> HIDE DEF r
<1> QED
  BY <1>1, <1>2, <1>3, <1>4, DecidesOn DEF Judge, mail, Deciding, At

LEMMA RetryKeeps == ASSUME MailInv, NEW w \in Tasks, Retry(w) PROVE MailInv'
<1> DEFINE t == task[w]
           m0 == Upcoming(w)
           todo == t.todo \ {m0}
           r == [t EXCEPT !.todo = todo, !.msg = m0, !.pc = "classify"]
<1>1. t \in TaskRow /\ t.pc = "retry" /\ t.phase = "retry" /\ t.todo # {}
  BY DEF MailInv, Typed, Retry, At, Fits
<1>2. m0 \in t.todo /\ m0 \in Messages /\ m0 \in 0..MaxMessages /\ todo \in SUBSET Messages
  BY <1>1, UpcomingIsListed, Bounds DEF MailInv, TaskRow, Messages
<1>3. task' = [task EXCEPT ![w] = r]
  BY DEF Retry, MailInv, Typed
<1> HIDE DEF m0
<1>4. /\ r \in TaskRow /\ r.pc = "classify" /\ r.phase = t.phase /\ r.row = t.row /\ r.latest = t.latest
      /\ r.since = t.since /\ r.msg = m0 /\ r.todo = todo
  <2> HIDE DEF t, todo
  <2> QED
    BY <1>1, <1>2 DEF TaskRow, Steps
<1> HIDE DEF r
<1> QED
  BY <1>1, <1>2, <1>3, <1>4, DecidesOn DEF Retry, mail, Deciding, At

----------------------------------------------------------------------------
(* Events are written *)

\* A message that w notes as shared if another task has it in hand.
LEMMA SharedIs ==
    ASSUME MailInv, NEW w \in Tasks, NEW S \in SUBSET Messages, ledger' = Share(w, S)
    PROVE  /\ ledger' \in Ledger /\ ledger'.handled = ledger.handled /\ ledger'.lost = ledger.lost
           /\ ledger'.writes = ledger.writes /\ ledger.shared \subseteq ledger'.shared
           /\ \A m \in S, v \in Tasks \ {w} : Engaged(v, m) => m \in ledger'.shared
<1> DEFINE T == {m \in S : \E v \in Tasks \ {w} : m \in InHand(v)}
<1>1. ledger' = [ledger EXCEPT !.shared = @ \cup T]
  BY DEF Share
<1>2. T \subseteq Messages /\ ledger \in Ledger
  BY DEF MailInv, Typed
<1>3. /\ ledger' \in Ledger /\ ledger'.handled = ledger.handled /\ ledger'.lost = ledger.lost
      /\ ledger'.writes = ledger.writes /\ ledger'.shared = ledger.shared \cup T
  <2> HIDE DEF T
  <2> QED
    BY <1>1, <1>2 DEF Ledger
<1>4. \A m \in S, v \in Tasks \ {w} : Engaged(v, m) => m \in T
  BY DEF Engaged, InHand
<1> QED
  BY <1>3, <1>4

LEMMA StoreKeeps == ASSUME MailInv, NEW w \in Tasks, Store(w) PROVE MailInv'
<1> DEFINE t == task[w]
           m0 == t.msg
<1>1. /\ t \in TaskRow /\ t.pc = "store" /\ t.phase = "new" /\ w \notin Requests /\ m0 \in Messages \ t.todo
  BY DEF MailInv, Typed, Store, At, Fits, Holding, Deciding
<1>2. UNCHANGED <<scene, box, gone, account, app, queue, tick>> /\ SameConnection
  BY DEF Store, mail, SameConnection
<1>3. CASE event[m0] = "none" /\ Connected(w)
  <2>1. PICK pc \in {"alert", "classify"} : task' = [task EXCEPT ![w].pc = pc]
    BY <1>3 DEF Store, Goto
  <2>2. event' = [event EXCEPT ![m0] = "pending"] /\ ledger' = Share(w, {m0})
    BY <1>3 DEF Store
  <2> DEFINE r == [t EXCEPT !.pc = pc]
  <2>3. task' = [task EXCEPT ![w] = r]
    BY <2>1 DEF MailInv, Typed
  <2>4. /\ r \in TaskRow /\ r.pc = pc /\ r.phase = "new" /\ r.msg = m0 /\ r.todo = t.todo /\ r.row = t.row
        /\ r.since = t.since /\ r.latest = t.latest /\ r.app = t.app /\ r.status = t.status
    <3> HIDE DEF t
    <3> QED
      BY <1>1, <2>1 DEF TaskRow, Steps
  <2>5. task' \in [Tasks -> TaskRow] /\ Only(w) /\ task'[w] = r
    <3> HIDE DEF r
    <3> QED
      BY <2>3, <2>4, RowReplaced DEF MailInv
  <2> HIDE DEF r
  <2>6. /\ ledger' \in Ledger /\ ledger'.handled = ledger.handled /\ ledger'.lost = ledger.lost
        /\ ledger'.writes = ledger.writes /\ ledger.shared \subseteq ledger'.shared
        /\ \A v \in Tasks \ {w} : Engaged(v, m0) => m0 \in ledger'.shared
    BY <1>1, <2>2, SharedIs
  <2>7. /\ event' \in [Messages -> EventStates] /\ event'[m0] = "pending"
        /\ \A m \in Messages \ {m0} : event'[m] = event[m]
    BY <1>1, <2>2 DEF MailInv, Typed, EventStates
  <2>8. Typed'
    BY <1>2, <2>5, <2>6, <2>7 DEF MailInv, Typed
  <2>9. \A m \in Messages : (Covered(m) => Covered(m)') /\ (m = m0 => Covered(m)')
    BY <2>6, <2>7 DEF Covered
  <2>10. Fits(w)' /\ Dated(w)'
    BY <1>1, <1>2, <2>1, <2>4, <2>5 DEF MailInv, Fits, Dated, At, Holding, Deciding
  <2>11. 1..box \subseteq Messages
    BY Bounds DEF MailInv, Typed, Messages
  <2>12. Passes(w)'
    <3> SUFFICES ASSUME NEW m \in 1..box, m < t.latest PROVE Covered(m)' \/ m \in t.todo
      BY <1>2, <2>1, <2>4, <2>5 DEF Passes, At
    <3>1. Covered(m) \/ m \in t.todo \/ m = m0
      BY <1>1, <1>3 DEF MailInv, Passes, At
    <3> QED
      BY <2>9, <2>11, <3>1
  <2>13. ASSUME NEW m \in Messages PROVE Single(m)'
    <3>1. ~Engaged(w, m) /\ ~Marks(w, m) /\ (Engaged(w, m)' => m = m0)
      BY <1>1, <2>4, <2>5 DEF Engaged, Marks, Deciding, At
    <3>2. CASE m = m0
      BY <1>2, <1>3, <2>5, <2>6, <2>7, <3>1, <3>2, SingleTaken DEF MailInv
    <3>3. CASE m # m0
      BY <1>2, <2>5, <2>6, <2>7, <3>1, <3>3, SingleStays DEF MailInv
    <3> QED
      BY <3>2, <3>3
  <2> QED
    BY <1>2, <2>5, <2>8, <2>9, <2>10, <2>12, <2>13, StepOf
<1>4. CASE ~(event[m0] = "none" /\ Connected(w))
  <2>1. task' = [task EXCEPT ![w] = Continue(w)] /\ UNCHANGED <<event, ledger>>
    BY <1>4 DEF Store
  <2>2. \A m : Covered(m) => Covered(m)'
    BY <2>1 DEF Covered
  <2>3. \A m \in Messages : At(w, "store") /\ Connected(w) /\ m = task[w].msg => Covered(m)'
    BY <1>4, <2>1 DEF Covered
  <2>4. /\ task' \in [Tasks -> TaskRow] /\ Only(w) /\ Fits(w)' /\ Dated(w)' /\ Passes(w)'
        /\ \A m : Engaged(w, m)' => Engaged(w, m) /\ m # task[w].msg
    BY <1>1, <1>2, <2>1, <2>2, <2>3, Continues DEF Holding
  <2> QED
    BY <1>1, <1>2, <2>1, <2>4, QuietStep DEF MailInv, Typed, At
<1> QED
  BY <1>3, <1>4

\* w settles its message, one way or the other, and goes on.
LEMMA SettleKeeps ==
    ASSUME MailInv, NEW w \in Tasks, task[w].pc \in Deciding, Connected(w),
           NEW state \in EventStates \ {"none"},
           At(w, "mark") <=> state = "applied",
           event' = [event EXCEPT ![task[w].msg] = state],
           task' = [task EXCEPT ![w] = Continue(w)],
           UNCHANGED <<scene, box, gone, account, app, queue, tick, ledger>>
    PROVE  MailInv'
<1> DEFINE m0 == task[w].msg
<1>1. m0 \in Messages /\ task[w].pc \in Holding /\ SameConnection /\ task[w].pc # "store"
  BY DEF MailInv, Fits, Holding, Deciding, SameConnection
<1>2. /\ event' \in [Messages -> EventStates] /\ event'[m0] = state
      /\ \A m \in Messages \ {m0} : event'[m] = event[m]
  BY <1>1 DEF MailInv, Typed
<1>3. \A m \in Messages : Covered(m) => Covered(m)'
  BY <1>2 DEF Covered
<1>4. /\ task' \in [Tasks -> TaskRow] /\ Only(w) /\ Fits(w)' /\ Dated(w)' /\ Passes(w)'
      /\ \A m : Engaged(w, m)' => Engaged(w, m) /\ m # m0
  BY <1>1, <1>3, Continues DEF At
<1>5. Typed'
  BY <1>2, <1>4 DEF MailInv, Typed
<1>6. Engaged(w, m0)
  BY DEF Engaged
<1>7. ASSUME NEW m \in Messages PROVE Single(m)'
  <2>1. CASE m # m0
    BY <1>1, <1>2, <1>4, <1>6, <2>1, SingleStays DEF MailInv, Marks
  <2>2. CASE m = m0
    <3>1. ~Engaged(w, m)' /\ event'[m] = state /\ Engaged(w, m)
      BY <1>2, <1>4, <1>6, <2>2
    <3>2. m \notin ledger.shared => event[m] # "applied"
      BY <1>6, <2>2 DEF MailInv, Single
    <3>3. Marks(w, m) => event'[m] = "applied"
      BY <3>1 DEF Marks
    <3>4. CASE m \in ledger.shared
      BY <3>4 DEF Single
    <3>5. CASE m \notin ledger.shared
      BY <1>1, <1>4, <3>1, <3>2, <3>3, <3>5, SingleStays DEF MailInv
    <3> QED
      BY <3>4, <3>5
  <2> QED
    BY <2>1, <2>2
<1> QED
  BY <1>1, <1>3, <1>4, <1>5, <1>7, StepOf

LEMMA JudgementsKeep ==
    ASSUME MailInv, NEW w \in Tasks, StoreAlert(w) \/ Undecided(w) \/ Mark(w)
    PROVE  MailInv'
<1>1. CASE StoreAlert(w)
  BY <1>1, SettleKeeps DEF StoreAlert, mail, At, Deciding, EventStates
<1>2. CASE Undecided(w)
  <2>1. PICK state \in {"pending", "ignored", "needs_review"} : event' = [event EXCEPT ![task[w].msg] = state]
    BY <1>2 DEF Undecided
  <2> QED
    BY <1>2, <2>1, SettleKeeps DEF Undecided, mail, At, Deciding, EventStates
<1>3. CASE Mark(w)
  BY <1>3, SettleKeeps DEF Mark, mail, At, Deciding, EventStates
<1> QED
  BY <1>1, <1>2, <1>3

\* record_status: once for each message that only w has in hand.
LEMMA RecordKeeps == ASSUME MailInv, NEW w \in Tasks, Record(w) PROVE MailInv'
<1> DEFINE t == task[w]
           m0 == t.msg
           n == IF Connected(w) THEN Min({ledger.writes[m0] + 1, 2}) ELSE ledger.writes[m0]
           r == [t EXCEPT !.pc = "mark"]
<1>1. /\ t \in TaskRow /\ t.pc = "record" /\ m0 \in Messages \ t.todo
      /\ t.app \in Apps /\ t.status \in Statuses /\ ledger.writes[m0] \in 0..2
  BY DEF MailInv, Typed, Record, At, Fits, Holding, Deciding, TaskRow, Ledger
<1>2. UNCHANGED <<scene, box, gone, account, event, queue, tick>> /\ SameConnection
  BY DEF Record, mail, SameConnection
<1>3. n \in 0..2 /\ (ledger.writes[m0] = 0 => n <= 1) /\ (~Connected(w) => n = ledger.writes[m0])
  <2>1. ledger.writes[m0] + 1 \in 1..3
    BY <1>1
  <2>2. \A k \in 1..3 : Min({k, 2}) \in {k, 2} /\ Min({k, 2}) <= 2
    <3>1. \A k \in 1..3 : \E x \in {k, 2} : \A y \in {k, 2} : x <= y
      OBVIOUS
    <3> QED
      BY <3>1 DEF Min
  <2>3. Min({ledger.writes[m0] + 1, 2}) \in 0..2
    BY <2>1, <2>2
  <2>4. ledger.writes[m0] = 0 => Min({ledger.writes[m0] + 1, 2}) <= 1
    <3>1. \E x \in {1, 2} : \A y \in {1, 2} : x <= y
      OBVIOUS
    <3>2. Min({1, 2}) <= 1
      BY <3>1 DEF Min
    <3> QED
      BY <3>2
  <2> QED
    BY <1>1, <2>3, <2>4
<1>4. app' \in [Apps -> Statuses] /\ ledger' = [ledger EXCEPT !.writes[m0] = n]
  BY <1>1 DEF Record, MailInv, Typed
<1> HIDE DEF n
<1>5. /\ ledger' \in Ledger /\ ledger'.handled = ledger.handled /\ ledger'.lost = ledger.lost
      /\ ledger'.shared = ledger.shared /\ ledger'.writes[m0] = n
      /\ \A m \in Messages \ {m0} : ledger'.writes[m] = ledger.writes[m]
  BY <1>1, <1>3, <1>4 DEF MailInv, Typed, Ledger
<1>6. task' = [task EXCEPT ![w] = r]
  BY DEF Record, Goto, MailInv, Typed
<1>7. /\ r \in TaskRow /\ r.pc = "mark" /\ r.phase = t.phase /\ r.msg = m0 /\ r.todo = t.todo /\ r.row = t.row
      /\ r.since = t.since /\ r.latest = t.latest /\ r.app = t.app /\ r.status = t.status
  <2> HIDE DEF t
  <2> QED
    BY <1>1 DEF TaskRow, Steps
<1>8. task' \in [Tasks -> TaskRow] /\ Only(w) /\ task'[w] = r
  <2> HIDE DEF r
  <2> QED
    BY <1>6, <1>7, RowReplaced DEF MailInv
<1> HIDE DEF r
<1>9. Typed'
  BY <1>2, <1>4, <1>5, <1>8 DEF MailInv, Typed
<1>10. \A m : Covered(m)' <=> Covered(m)
  BY <1>2, <1>5 DEF Covered
<1>11. Fits(w)' /\ Dated(w)'
  BY <1>1, <1>2, <1>7, <1>8 DEF MailInv, Fits, Dated, At, Holding, Deciding
<1>12. Connected(w)' <=> Connected(w)
  BY <1>2, <1>7, <1>8 DEF Connected
<1>13. Passes(w)'
  <2> SUFFICES ASSUME Connected(w), NEW m \in 1..box, m < t.latest
               PROVE  /\ t.phase = "new" => Covered(m) \/ m \in t.todo
                      /\ t.phase = "retry" => Covered(m)
    BY <1>2, <1>7, <1>8, <1>10, <1>12 DEF Passes, At
  <2> QED
    BY <1>1 DEF MailInv, Passes, At
<1>14. \A m : (Engaged(w, m)' <=> Engaged(w, m)) /\ (Marks(w, m)' <=> Connected(w) /\ m = m0) /\ ~Marks(w, m)
  BY <1>1, <1>7, <1>8, <1>12 DEF Engaged, Marks, At, Deciding
<1>15. ASSUME NEW m \in Messages PROVE Single(m)'
  <2>1. CASE m # m0 \/ ~Connected(w)
    <3>1. ledger'.writes[m] = ledger.writes[m]
      BY <1>3, <1>5, <2>1
    <3> QED
      BY <1>2, <1>5, <1>8, <1>14, <3>1, SingleStays DEF MailInv
  <2>2. CASE m = m0 /\ Connected(w) /\ m \notin ledger.shared
    <3>1. Engaged(w, m) /\ Marks(w, m)'
      BY <1>1, <1>14, <2>2 DEF Engaged, Deciding
    <3>2. \A v \in Tasks : Marks(v, m) => Engaged(v, m)
      BY DEF Marks, Engaged, At, Deciding
    <3>3. ledger.writes[m] = 0
      BY <1>14, <2>2, <3>1, <3>2 DEF MailInv, Single
    <3>4. \A v \in Tasks : Engaged(v, m)' => Engaged(v, m)
      BY <1>2, <1>8, <1>14, OthersEngaged
    <3> QED
      BY <1>2, <1>3, <1>5, <2>2, <3>1, <3>3, <3>4 DEF MailInv, Single
  <2>3. CASE m \in ledger.shared
    BY <1>5, <2>3 DEF Single
  <2> QED
    BY <2>1, <2>2, <2>3
<1> QED
  BY <1>2, <1>8, <1>9, <1>10, <1>11, <1>13, <1>15, StepOf

LEMMA PickKeeps == ASSUME MailInv, NEW w \in Tasks, PickPending(w) PROVE MailInv'
<1> DEFINE t == task[w]
           S == {m \in Messages : event[m] = "pending"}
           r == [t EXCEPT !.pc = "retry", !.phase = "retry", !.history = FALSE, !.todo = S]
<1>1. t \in TaskRow /\ t.pc = "next" /\ t.phase = "new" /\ t.todo = {} /\ t.msg = 0 /\ w \notin Requests
  BY DEF MailInv, Typed, PickPending, At, Fits, Holding, Deciding
<1>2. UNCHANGED <<scene, box, gone, account, event, app, queue, tick>> /\ SameConnection
  BY DEF PickPending, mail, SameConnection
<1>3. task' = [task EXCEPT ![w] = r] /\ ledger' = Share(w, S) /\ S \in SUBSET Messages
  BY DEF PickPending, MailInv, Typed
<1>4. \A m \in Messages : m \in S <=> event[m] = "pending"
  OBVIOUS
<1> HIDE DEF S
<1>5. /\ r \in TaskRow /\ r.pc = "retry" /\ r.phase = "retry" /\ r.todo = S /\ r.msg = 0 /\ r.row = t.row
      /\ r.since = t.since /\ r.latest = t.latest
  <2> HIDE DEF t
  <2> QED
    BY <1>1, <1>3 DEF TaskRow, Steps
<1>6. task' \in [Tasks -> TaskRow] /\ Only(w) /\ task'[w] = r
  <2> HIDE DEF r
  <2> QED
    BY <1>3, <1>5, RowReplaced DEF MailInv
<1> HIDE DEF r
<1>7. /\ ledger' \in Ledger /\ ledger'.handled = ledger.handled /\ ledger'.lost = ledger.lost
      /\ ledger'.writes = ledger.writes /\ ledger.shared \subseteq ledger'.shared
      /\ \A m \in S, v \in Tasks \ {w} : Engaged(v, m) => m \in ledger'.shared
  BY <1>3, SharedIs
<1>8. Typed'
  BY <1>2, <1>6, <1>7 DEF MailInv, Typed
<1>9. \A m : Covered(m)' <=> Covered(m)
  BY <1>2, <1>7 DEF Covered
<1>10. Fits(w)' /\ Dated(w)'
  BY <1>1, <1>2, <1>5, <1>6 DEF MailInv, Fits, Dated, At, Holding, Deciding, Messages
<1>11. Connected(w)' <=> Connected(w)
  BY <1>2, <1>5, <1>6 DEF Connected
<1>12. Passes(w)'
  <2> SUFFICES ASSUME Connected(w), NEW m \in 1..box, m < t.latest PROVE Covered(m)
    BY <1>2, <1>5, <1>6, <1>9, <1>11 DEF Passes, At
  <2> QED
    BY <1>1 DEF MailInv, Passes, At
<1>13. \A m : (Engaged(w, m)' <=> Connected(w) /\ m \in S) /\ ~Engaged(w, m) /\ ~Marks(w, m)
  BY <1>1, <1>5, <1>6, <1>11 DEF Engaged, Marks, At, Deciding
<1>14. ASSUME NEW m \in Messages PROVE Single(m)'
  <2>1. CASE m \in S
    BY <1>2, <1>4, <1>6, <1>7, <1>13, <2>1, SingleTaken DEF MailInv
  <2>2. CASE m \notin S
    BY <1>2, <1>6, <1>7, <1>13, <2>2, SingleStays DEF MailInv
  <2> QED
    BY <2>1, <2>2
<1> QED
  BY <1>2, <1>6, <1>8, <1>9, <1>10, <1>12, <1>14, StepOf

LEMMA ResolveKeeps == ASSUME MailInv, NEW w \in Requests, NEW m0 \in Messages, Resolve(w, m0) PROVE MailInv'
<1>1. /\ UNCHANGED <<scene, box, gone, account, app, queue, tick>> /\ SameConnection /\ w \in Tasks
      /\ event[m0] = "needs_review" /\ task[w] = IdleTask
  BY DEF Resolve, mail, SameConnection, Tasks, MailInv, Fits
<1>2. CASE event' = [event EXCEPT ![m0] = "ignored"] /\ UNCHANGED <<task, ledger>>
  <2>1. /\ event' \in [Messages -> EventStates] /\ event'[m0] = "ignored"
        /\ \A m \in Messages \ {m0} : event'[m] = event[m]
    BY <1>2 DEF MailInv, Typed, EventStates
  <2>2. Typed' /\ Only(w) /\ \A m \in Messages : Covered(m) => Covered(m)'
    BY <1>1, <1>2, <2>1 DEF MailInv, Typed, Only, Covered
  <2>3. Fits(w)' /\ Dated(w)' /\ Passes(w)'
    BY <1>1, <1>2 DEF MailInv, Fits, Dated, Passes, At, IdleTask
  <2>4. \A m : Engaged(w, m)' <=> Engaged(w, m)
    BY <1>1, <1>2 DEF Engaged, Connected
  <2>5. \A m : ~Marks(w, m)
    BY <1>1 DEF Marks, At, IdleTask
  <2>6. ASSUME NEW m \in Messages PROVE Single(m)'
    BY <1>1, <1>2, <2>1, <2>2, <2>4, <2>5, SingleStays DEF MailInv
  <2> QED
    BY <1>1, <2>2, <2>3, <2>6, StepOf
<1>3. CASE \E a \in Apps, c \in Categories :
             /\ task' = [task EXCEPT ![w] = [IdleTask EXCEPT
                    !.pc = "judge", !.phase = "review", !.row = account.row, !.msg = m0,
                    !.app = a, !.status = CategoryStatus[c]]]
             /\ ledger' = Share(w, {m0})
             /\ UNCHANGED event
  <2>1. PICK a \in Apps, c \in Categories :
             /\ task' = [task EXCEPT ![w] = [IdleTask EXCEPT
                    !.pc = "judge", !.phase = "review", !.row = account.row, !.msg = m0,
                    !.app = a, !.status = CategoryStatus[c]]]
             /\ ledger' = Share(w, {m0})
             /\ UNCHANGED event
    BY <1>3
  <2> DEFINE status == CategoryStatus[c]
             r == [IdleTask EXCEPT !.pc = "judge", !.phase = "review", !.row = account.row, !.msg = m0,
                                   !.app = a, !.status = status]
  <2>2. status \in Statuses
    BY MailboxConstants DEF CategoryStatus, Statuses, Rank
  <2>3. account.row \in Nat /\ m0 \in 0..MaxMessages /\ box \in Nat
    BY Bounds DEF MailInv, Typed, AccountRow, Messages
  <2>4. task' = [task EXCEPT ![w] = r]
    BY <2>1
  <2> HIDE DEF status
  <2>5. /\ r \in TaskRow /\ r.pc = "judge" /\ r.phase = "review" /\ r.todo = {} /\ r.msg = m0
        /\ r.row = account.row /\ r.since = 0 /\ r.latest = 0 /\ r.app = a /\ r.status = status
    <3>1. IdleTask.todo = {} /\ IdleTask.since = 0 /\ IdleTask.latest = 0
      BY DEF IdleTask
    <3> QED
      BY <2>2, <2>3, <3>1, IdleTyped DEF TaskRow, Steps
  <2>6. task' \in [Tasks -> TaskRow] /\ Only(w) /\ task'[w] = r
    <3> HIDE DEF r
    <3> QED
      BY <1>1, <2>4, <2>5, RowReplaced DEF MailInv
  <2> HIDE DEF r
  <2>7. /\ ledger' \in Ledger /\ ledger'.handled = ledger.handled /\ ledger'.lost = ledger.lost
        /\ ledger'.writes = ledger.writes /\ ledger.shared \subseteq ledger'.shared
        /\ \A v \in Tasks \ {w} : Engaged(v, m0) => m0 \in ledger'.shared
    BY <1>1, <2>1, SharedIs
  <2>8. Typed' /\ \A m \in Messages : Covered(m) => Covered(m)'
    BY <1>1, <2>1, <2>6, <2>7 DEF MailInv, Typed, Covered
  <2>9. Fits(w)' /\ Dated(w)' /\ Passes(w)'
    BY <1>1, <2>2, <2>3, <2>5, <2>6 DEF MailInv, Fits, Dated, Passes, At, Holding, Deciding
  <2>10. \A m : ~Engaged(w, m) /\ ~Marks(w, m) /\ (Engaged(w, m)' => m = m0)
    BY <1>1, <2>5, <2>6 DEF Engaged, Marks, At, IdleTask, Deciding
  <2>11. ASSUME NEW m \in Messages PROVE Single(m)'
    <3>1. CASE m = m0
      BY <1>1, <2>1, <2>6, <2>7, <2>10, <3>1, SingleTaken DEF MailInv
    <3>2. CASE m # m0
      BY <1>1, <2>1, <2>6, <2>7, <2>10, <3>2, SingleStays DEF MailInv
    <3> QED
      BY <3>1, <3>2
  <2> QED
    BY <1>1, <2>6, <2>8, <2>9, <2>11, StepOf
<1> QED
  BY <1>2, <1>3 DEF Resolve

----------------------------------------------------------------------------
(* A task ends *)

LEMMA EndKeeps ==
    ASSUME MailInv, NEW w \in Tasks, Ends(w), SameConnection, account' \in AccountRow,
           account'.history = account.history, UNCHANGED <<scene, box, gone, event, app, queue>>,
           tick' \in [Beats -> {"idle", "claim", "lost", "queue"}], ledger' \in Ledger,
           ledger'.handled = ledger.handled, ledger'.lost = ledger.lost, ledger'.writes = ledger.writes,
           ledger.shared \subseteq ledger'.shared,
           \A m \in Messages : Marks(w, m) => m \in ledger'.shared
    PROVE  MailInv'
<1>1. /\ task' \in [Tasks -> TaskRow] /\ Only(w)
      /\ Fits(w)' /\ Dated(w)' /\ Passes(w)' /\ \A m : ~Engaged(w, m)'
  BY EndsWell DEF AccountRow
<1>2. Typed'
  BY <1>1 DEF MailInv, Typed
<1>3. \A m : Covered(m)' <=> Covered(m)
  BY DEF Covered
<1>4. \A m \in Messages : Single(m)'
  BY <1>1, SingleStays DEF MailInv
<1> QED
  BY <1>1, <1>2, <1>3, <1>4, StepOf

LEMMA FinishKeeps == ASSUME MailInv, NEW w \in Tasks, Finish(w) PROVE MailInv'
<1>1. /\ UNCHANGED <<scene, box, gone, event, app, queue, ledger>> /\ Ends(w) /\ Connected(w)
      /\ At(w, "retry")
      /\ account' = [account EXCEPT !.history = task[w].latest, !.synced = box, !.due = FALSE]
  BY DEF Finish, mail
<1>2. box \in Nat /\ task[w].latest \in 0..MaxMessages + 1 /\ task[w].latest <= box + 1 /\ account \in AccountRow
  BY DEF MailInv, Typed, TaskRow, Dated
<1>3. account' \in AccountRow /\ SameConnection /\ account'.history = task[w].latest
  BY <1>1, <1>2 DEF AccountRow, SameConnection
<1>4. tick' \in [Beats -> {"idle", "claim", "lost", "queue"}]
  BY OutdatedTyped DEF Finish, MailInv, Typed
<1>5. /\ task' \in [Tasks -> TaskRow] /\ Only(w)
      /\ Fits(w)' /\ Dated(w)' /\ Passes(w)' /\ \A m : ~Engaged(w, m)'
  BY <1>1, <1>3, EndsWell DEF AccountRow
<1>6. Typed'
  BY <1>1, <1>3, <1>4, <1>5 DEF MailInv, Typed
<1>7. \A m : Covered(m)' <=> Covered(m)
  BY <1>1 DEF Covered
<1>8. \A v \in Tasks : Fits(v)' /\ Dated(v)' /\ Passes(v)'
  BY <1>1, <1>3, <1>5, <1>7, OthersGoOn
<1>9. \A m \in 1..box : m < task[w].latest => Covered(m)
  BY <1>1 DEF MailInv, Passes, Fits
<1>10. NothingMissed'
  BY <1>1, <1>3, <1>7, <1>9 DEF NothingMissed, Covered
<1>11. \A m \in Messages : ~Marks(w, m)
  BY <1>1 DEF Marks, At
<1>12. \A m \in Messages : Single(m)'
  BY <1>1, <1>3, <1>5, <1>11, SingleStays DEF MailInv
<1> QED
  BY <1>1, <1>2, <1>3, <1>6, <1>8, <1>10, <1>12 DEF MailInv

LEMMA RevokedKeeps == ASSUME MailInv, NEW w \in Tasks, Revoked(w) \/ Orphaned(w) PROVE MailInv'
<1>1. UNCHANGED <<scene, box, gone, event, app, queue, tick, ledger>> /\ Ends(w)
  BY DEF Revoked, Orphaned, mail
<1>2. \/ account' = account
      \/ Connected(w) /\ account' = [account EXCEPT !.status = "needs_reconnect"]
  BY DEF Revoked, Orphaned
<1>3. account' \in AccountRow /\ SameConnection /\ account'.history = account.history
  BY <1>2 DEF MailInv, Typed, AccountRow, SameConnection, Connected
<1>4. \A m \in Messages : ~Marks(w, m)
  BY DEF Revoked, Orphaned, Marks, At
<1> QED
  BY <1>1, <1>3, <1>4, EndKeeps DEF MailInv, Typed

LEMMA FailuresKeep == ASSUME MailInv, NEW w \in Tasks, FailOnDeleted(w) \/ Fail(w) \/ Crash(w) PROVE MailInv'
<1>1. UNCHANGED <<scene, box, gone, event, app, queue>> /\ Ends(w)
  BY DEF FailOnDeleted, Fail, Failed, Crash, mail
<1>2. account' = account \/ account' = [account EXCEPT !.due = FALSE]
  BY DEF FailOnDeleted, Fail, Failed, Crash
<1>3. account' \in AccountRow /\ SameConnection /\ account'.history = account.history
  BY <1>2 DEF MailInv, Typed, AccountRow, SameConnection
<1>4. tick' \in [Beats -> {"idle", "claim", "lost", "queue"}]
  BY OutdatedTyped DEF FailOnDeleted, Fail, Failed, Crash, MailInv, Typed
<1>5. CASE FailOnDeleted(w)
  <2>1. ledger' = ledger /\ \A m \in Messages : ~Marks(w, m)
    BY <1>5 DEF FailOnDeleted, Marks, At
  <2> QED
    BY <1>1, <1>3, <1>4, <2>1, EndKeeps DEF MailInv, Typed
<1>6. CASE Fail(w) \/ Crash(w)
  <2> DEFINE more == IF At(w, "mark") THEN {task[w].msg} ELSE {}
  <2>1. ledger' = [[ledger EXCEPT !.shared = @ \cup more] EXCEPT !.faults = @ + 1]
    BY <1>6 DEF Fail, Crash, Abandoned
  <2>2. more \subseteq Messages /\ \A m \in Messages : Marks(w, m) => m \in more
    BY DEF MailInv, Fits, Marks, At, Holding, Deciding
  <2> HIDE DEF more
  <2>3. /\ ledger' \in Ledger /\ ledger'.handled = ledger.handled /\ ledger'.lost = ledger.lost
        /\ ledger'.writes = ledger.writes /\ ledger'.shared = ledger.shared \cup more
    <3> DEFINE mid == [ledger EXCEPT !.shared = @ \cup more]
    <3>1. /\ mid \in Ledger /\ mid.handled = ledger.handled /\ mid.lost = ledger.lost
          /\ mid.writes = ledger.writes /\ mid.shared = ledger.shared \cup more
      BY <2>2 DEF MailInv, Typed, Ledger
    <3>2. ledger' = [mid EXCEPT !.faults = @ + 1]
      BY <2>1
    <3> HIDE DEF mid
    <3> QED
      BY <3>1, <3>2 DEF Ledger
  <2> QED
    BY <1>1, <1>3, <1>4, <2>2, <2>3, EndKeeps
<1> QED
  BY <1>5, <1>6

----------------------------------------------------------------------------

LEMMA InitMail == Init => MailInv
<1> SUFFICES ASSUME Init PROVE MailInv
  OBVIOUS
<1>1. /\ scene \in Scene /\ box = 0 /\ gone = {} /\ queue = 0
      /\ account = NoAccount
      /\ task = [w \in Tasks |-> IdleTask] /\ tick = [b \in Beats |-> "idle"]
      /\ event = [m \in Messages |-> "none"] /\ app \in [Apps -> {"submitted"}]
  BY MailboxConstants DEF Init
<1>1a. "submitted" \in Statuses /\ account.history = 0 /\ account.row = 0 /\ account.status = "absent"
  BY <1>1 DEF NoAccount, Statuses, Rank
<1>2. ledger \in Ledger /\ ledger.writes = [m \in Messages |-> 0]
  BY DEF Init, NoLedger, Ledger
<1>3. account \in AccountRow
  BY <1>1, NothingTyped
<1>4. Typed
  BY <1>1, <1>1a, <1>2, <1>3, IdleTyped, Bounds DEF Typed, EventStates
<1>5. \A w \in Tasks : Fits(w) /\ Dated(w) /\ Passes(w) /\ ~Connected(w)
  BY <1>1, <1>1a DEF Fits, Dated, Passes, Connected, At, IdleTask, Holding, Deciding
<1>6. \A m \in Messages : Single(m)
  BY <1>1, <1>2, <1>5 DEF Single, Engaged
<1>7. NothingMissed
  BY <1>1a DEF NothingMissed
<1> QED
  BY <1>1, <1>1a, <1>4, <1>5, <1>6, <1>7 DEF MailInv

LEMMA NextMail == MailInv /\ [Next]_vars => MailInv'
<1> SUFFICES ASSUME MailInv, [Next]_vars PROVE MailInv'
  OBVIOUS
<1>1. CASE UNCHANGED vars
  <2>1. Typed' /\ SameConnection /\ SameLedger
    BY <1>1 DEF vars, MailInv, Typed, SameConnection, SameLedger
  <2> QED
    BY <1>1, <2>1, TasksStand DEF vars
<1>2. CASE User
  BY <1>2, ArrivalsKeep, ConnectKeeps, RevokeKeeps, DisconnectKeeps, SetStatusKeeps, ResolveKeeps DEF User
<1>3. CASE TimePasses
  BY <1>3, RevokeKeeps
<1>4. CASE \E b \in Beats : Beat(b) \/ TickCrash(b)
  BY <1>4, TicksKeep
<1>5. CASE \E w \in Workers : Take(w) \/ Work(w)
  <2>1. PICK w \in Workers : Take(w) \/ Work(w)
    BY <1>5
  <2>2. w \in Tasks
    BY DEF Tasks
  <2>3. CASE List(w) \/ Profile(w) \/ SkipMessage(w) \/ ReadMessage(w) \/ Store(w)
    BY <2>2, <2>3, ListKeeps, ProfileKeeps, SkipKeeps, ReadKeeps, StoreKeeps
  <2>4. CASE StoreAlert(w) \/ Undecided(w) \/ Match(w) \/ Apply(w)
    BY <2>2, <2>4, JudgementsKeep, MatchKeeps, JudgeKeeps, RecordKeeps DEF Apply
  <2>5. CASE PickPending(w) \/ Retry(w) \/ Finish(w) \/ Revoked(w) \/ FailOnDeleted(w) \/ Orphaned(w)
    BY <2>2, <2>5, PickKeeps, RetryKeeps, FinishKeeps, RevokedKeeps, FailuresKeep
  <2> QED
    BY <2>1, <2>3, <2>4, <2>5, TakeKeeps DEF Work
<1>6. CASE \E w \in Requests : Apply(w) \/ Orphaned(w)
  <2>1. PICK w \in Requests : Apply(w) \/ Orphaned(w)
    BY <1>6
  <2>2. w \in Tasks
    BY DEF Tasks
  <2> QED
    BY <2>1, <2>2, JudgeKeeps, RecordKeeps, JudgementsKeep, RevokedKeeps DEF Apply
<1>7. CASE \E w \in Tasks : Fail(w) \/ Crash(w)
  BY <1>7, FailuresKeep
<1> QED
  BY <1>1, <1>2, <1>3, <1>4, <1>5, <1>6, <1>7 DEF Next

LEMMA MailInvariant == Spec => []MailInv
  BY InitMail, NextMail, PTL DEF Spec

\* Every row, task and tick is well formed, and a task that has a message in
\* hand has taken it off its list.
THEOREM MailTypes == Spec => []TypeOK
<1>1. MailInv => TypeOK
  <2> SUFFICES ASSUME MailInv PROVE TypeOK
    OBVIOUS
  <2>1. \A w \in Tasks : task[w].pc \in Steps
    BY DEF MailInv, Typed, TaskRow
  <2>2. \A w \in Tasks : task[w].msg \notin task[w].todo
    <3>1. \A w \in Tasks : task[w].todo \subseteq Messages /\ 0 \notin Messages
      BY DEF MailInv, Typed, TaskRow, Messages
    <3> QED
      BY <3>1 DEF MailInv, Fits
  <2> QED
    BY <2>1, <2>2 DEF MailInv, Typed, TypeOK
<1> QED
  BY <1>1, MailInvariant, PTL

\* Whatever fails, dies or overlaps, the history id an account keeps has
\* passed no message that was neither stored nor found not to be about a job,
\* apart from those more than one sync reads (sync_account).
THEOREM NoMessageIsMissed == Spec => []NothingMissed
<1>1. MailInv => NothingMissed
  BY DEF MailInv
<1> QED
  BY <1>1, MailInvariant, PTL

\* A message changes an application once, however often it is listed or
\* retried, unless two tasks had it in hand at a time (_apply, record_status).
THEOREM StatusWrittenOnce == Spec => []AppliedOnce
<1>1. MailInv => AppliedOnce
  BY DEF MailInv, Single, AppliedOnce
<1> QED
  BY <1>1, MailInvariant, PTL
=============================================================================
