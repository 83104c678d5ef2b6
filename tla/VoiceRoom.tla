----------------------------- MODULE VoiceRoom -----------------------------
(***************************************************************************)
(* The voice sessions of one user: their rows, stream tokens, the lock of   *)
(* the live session, the sockets and the finalizer (api/routes/voice.py,    *)
(* services/voice_store.py, voice_auth.py, voice_socket.py, voice_eval.py,  *)
(* the socket gateways of practice_session.py and copilot_session.py, and   *)
(* the voice tasks of core/celery_tasks.py).                                *)
(*                                                                          *)
(* A socket is a coroutine of the API process: between two of its steps     *)
(* another socket, a request or a worker may act.  What is said on a socket *)
(* is in Practice and Copilot.                                              *)
(***************************************************************************)
EXTENDS Integers, FiniteSets

CONSTANTS
    Sessions,       \* voice sessions the user may create
    Sockets,        \* sockets the client may open
    Workers,        \* processes that take voice_finalize
    Retries,        \* the length of RETRY_DELAYS
    MaxAsks,        \* bound: tokens asked for, settings changed, retries of the user
    RoomScenes      \* the situations looked at, see RoomScene

NoSession == "no session"
Modes == {"mock", "copilot"}

\* A situation: the modes, sessions, sockets and workers that take part and
\* what may happen beside the calls of one good client.
RoomScene == [modes : SUBSET Modes, ids : SUBSET Sessions, sockets : SUBSET Sockets, workers : SUBSET Workers,
              events : SUBSET {"two", "self", "oversized", "delete", "settings", "control", "busy", "bug"}, asks : 0..MaxAsks]

ASSUME RoomConstants ==
    /\ RoomScenes \subseteq RoomScene
    /\ {Retries, MaxAsks} \subseteq Nat
    /\ NoSession \notin Sessions
    /\ IsFiniteSet(Workers)

VARIABLES
    vscene,     \* the situation, which never changes
    session,    \* the rows of voice_sessions
    acked,      \* the current Live Copilot notice is accepted
    allowed,    \* the features of the user and the kill switch
    minted,     \* stream tokens handed out and not used, by session
    lock,       \* the key voice_live:<user> in Redis
    socket,     \* what each socket is doing
    queued,     \* voice_finalize messages that are due, by session and attempt
    waiting,    \* those that wait for the end of the resume window
    worker,     \* what each worker is doing
    asks,       \* calls made so far
    crowded     \* history: sessions that had two sockets at once

vvars == <<vscene, session, acked, allowed, minted, lock, socket, queued, waiting, worker, asks, crowded>>

LIVE_STATES == {"created", "active", "paused"}
NoRow == [state |-> "none", mode |-> "mock", reason |-> "none", feedback |-> "none", started |-> FALSE,
          fresh |-> FALSE, results |-> 0]
NoSocket == [pc |-> "new", sid |-> NoSession, ended |-> FALSE, own |-> TRUE, did |-> FALSE]
NoWork == [pc |-> "idle", sid |-> NoSession, attempt |-> 0]
Asking == asks < vscene.asks /\ asks' = asks + 1
Happens(e) == e \in vscene.events
Exists(s) == session[s].state \notin {"none", "gone"}
Open(c) == socket[c].pc \in {"mark", "open", "ending", "ended", "closing"}
OpenSessions == {socket[c].sid : c \in {d \in Sockets : Open(d)}}
LiveSessions == {socket[c].sid : c \in {d \in Sockets : socket[d].pc \in {"mark", "open", "ending", "ended"}}}

RoomTypeOK ==
    /\ session \in [Sessions -> [state : LIVE_STATES \cup {"none", "ended", "gone"}, mode : Modes,
                                 reason : {"none", "user", "idle", "max_minutes", "length", "cost_cap", "disconnected"},
                                 feedback : {"none", "pending", "ready", "failed"}, started : BOOLEAN,
                                 fresh : BOOLEAN, results : 0..Cardinality(Workers)]]
    /\ lock \in Sessions \cup {NoSession}
    /\ socket \in [Sockets -> [pc : {"new", "gate", "lock", "mark", "open", "ending", "ended", "closing", "closed"},
                               sid : Sessions \cup {NoSession}, ended : BOOLEAN, own : BOOLEAN, did : BOOLEAN]]
    /\ worker \in [Workers -> [pc : {"idle", "settle", "end", "read", "score"},
                               sid : Sessions \cup {NoSession}, attempt : 0..Retries]]
    /\ minted \in [Sessions -> Nat] /\ waiting \in [Sessions -> Nat]
    /\ queued \in [Sessions \X (0..Retries) -> Nat]

RoomInit ==
    /\ vscene \in RoomScenes
    /\ session = [s \in Sessions |-> NoRow]
    /\ acked \in (IF Happens("settings") THEN {FALSE} ELSE {TRUE})
    /\ allowed = TRUE
    /\ minted = [s \in Sessions |-> 0]
    /\ lock = NoSession
    /\ socket = [c \in Sockets |-> NoSocket]
    /\ queued = [q \in Sessions \X (0..Retries) |-> 0]
    /\ waiting = [s \in Sessions |-> 0]
    /\ worker = [w \in Workers |-> NoWork]
    /\ asks = 0
    /\ crowded = {}

(***************************************************************************)
(* Requests                                                                 *)
(***************************************************************************)
MayUse(mode) == allowed /\ (mode = "copilot" => acked)

NewRow(mode) == [NoRow EXCEPT !.state = "created", !.mode = mode]

CreateSession(s, mode) ==
    /\ s \in vscene.ids /\ mode \in vscene.modes /\ session[s].state = "none" /\ MayUse(mode) /\ lock = NoSession
    /\ session' = [session EXCEPT ![s] = NewRow(mode)]
    /\ minted' = [minted EXCEPT ![s] = 1]
    /\ UNCHANGED <<vscene, acked, allowed, lock, socket, queued, waiting, worker, asks, crowded>>

StreamToken(s) ==
    /\ Asking /\ session[s].state \in LIVE_STATES /\ MayUse(session[s].mode)
    /\ minted' = [minted EXCEPT ![s] = @ + 1]
    /\ UNCHANGED <<vscene, session, acked, allowed, lock, socket, queued, waiting, worker, crowded>>

TokenExpires(s) ==
    /\ minted[s] > 0
    /\ minted' = [minted EXCEPT ![s] = @ - 1]
    /\ UNCHANGED <<vscene, session, acked, allowed, lock, socket, queued, waiting, worker, asks, crowded>>

AcknowledgeCopilot ==
    /\ ~acked /\ acked' = TRUE
    /\ UNCHANGED <<vscene, session, allowed, minted, lock, socket, queued, waiting, worker, asks, crowded>>

\* A new version of the notice, or an admin who turns a feature off or on.
SettingsChange ==
    /\ Happens("settings") /\ Asking
    /\ \/ acked' = FALSE /\ UNCHANGED allowed
       \/ allowed' = ~allowed /\ UNCHANGED acked
    /\ UNCHANGED <<vscene, session, minted, lock, socket, queued, waiting, worker, crowded>>

RetryFeedback(s) ==
    /\ Asking /\ Exists(s) /\ session[s].feedback = "failed"
    /\ session' = [session EXCEPT ![s].feedback = "pending"]
    /\ queued' = [queued EXCEPT ![<<s, 0>>] = @ + 1]
    /\ UNCHANGED <<vscene, acked, allowed, minted, lock, socket, waiting, worker, crowded>>

\* The rows of the session, its turns and its feedback go.
Wiped(S) == [s \in Sessions |-> IF s \in S THEN [session[s] EXCEPT !.state = "gone", !.results = 0] ELSE session[s]]

DeleteSession(s) ==
    /\ Happens("delete") /\ Exists(s) /\ lock # s
    /\ session' = Wiped({s})
    /\ UNCHANGED <<vscene, acked, allowed, minted, lock, socket, queued, waiting, worker, asks, crowded>>

DeleteHistory ==
    /\ Happens("delete") /\ lock = NoSession /\ \E s \in Sessions : Exists(s)
    /\ session' = Wiped({s \in Sessions : Exists(s)})
    /\ UNCHANGED <<vscene, acked, allowed, minted, lock, socket, queued, waiting, worker, asks, crowded>>

\* purge_expired: a day after it was created a session may have been used
\* and ended or not; the retention of an ended one is over.
PurgeExpired(s) ==
    /\ Happens("delete") /\ session[s].state \in {"created", "ended"}
    /\ session' = Wiped({s})
    /\ UNCHANGED <<vscene, acked, allowed, minted, lock, socket, queued, waiting, worker, asks, crowded>>

(***************************************************************************)
(* The lock of the live session                                             *)
(***************************************************************************)
Acquires(s) == lock \in {NoSession, s}
\* Fault: the lock is deleted without comparing it.
ReleasedAny(s) == IF s \in Sessions THEN NoSession ELSE lock

\* release_live
Released(s) == IF lock = s THEN NoSession ELSE lock

(***************************************************************************)
(* A socket                                                                 *)
(***************************************************************************)
At(c, pc) == socket[c].pc = pc
Move(c, pc) == socket' = [socket EXCEPT ![c].pc = pc]

\* authenticate: the token works once.  Without "two" the client opens a
\* socket of a session only after the one before has gone.
Authenticate(c, s) ==
    /\ c \in vscene.sockets /\ At(c, "new") /\ minted[s] > 0
    /\ Happens("two") \/ \A d \in Sockets : socket[d].sid = s => At(d, "closed")
    /\ minted' = [minted EXCEPT ![s] = @ - 1]
    /\ socket' = [socket EXCEPT ![c] = [NoSocket EXCEPT !.pc = "gate", !.sid = s]]
    /\ UNCHANGED <<vscene, session, acked, allowed, lock, queued, waiting, worker, asks, crowded>>

Gate(c) ==
    /\ At(c, "gate")
    /\ LET v == session[socket[c].sid] IN
       Move(c, IF v.state \in LIVE_STATES /\ MayUse(v.mode) THEN "lock" ELSE "closed")
    /\ UNCHANGED <<vscene, session, acked, allowed, minted, lock, queued, waiting, worker, asks, crowded>>

LockOrReject(c) ==
    /\ At(c, "lock")
    /\ LET s == socket[c].sid IN
       \/ /\ Acquires(s) /\ lock' = s /\ Move(c, "mark")
          /\ crowded' = IF s \in OpenSessions THEN crowded \cup {s} ELSE crowded
       \/ ~Acquires(s) /\ Move(c, "closed") /\ UNCHANGED <<lock, crowded>>
    /\ UNCHANGED <<vscene, session, acked, allowed, minted, queued, waiting, worker, asks>>

MarkStarted(c) ==
    /\ At(c, "mark") /\ Move(c, "open")
    /\ LET s == socket[c].sid IN
       session' = IF Exists(s) THEN [session EXCEPT ![s].state = "active", ![s].started = TRUE, ![s].fresh = TRUE]
                  ELSE session
    /\ UNCHANGED <<vscene, acked, allowed, minted, lock, queued, waiting, worker, asks, crowded>>

\* A message of the client: last_seen_at, and the pause and resume controls.
Touched(s, states) ==
    {[session EXCEPT ![s].fresh = Exists(s), ![s].state = st] :
        st \in {session[s].state} \cup (IF session[s].state \in LIVE_STATES THEN states ELSE {})}

Message(c) ==
    /\ At(c, "open") /\ Happens("control")
    /\ session' \in Touched(socket[c].sid, {"paused", "active"})
    /\ UNCHANGED <<vscene, acked, allowed, minted, lock, socket, queued, waiting, worker, asks, crowded>>

\* finish, called by the socket's own loop or by the task of a reply that
\* closes the interview or finds no model within the cost limit.
MainReasons == {"user", "idle", "max_minutes"}
TaskReasons == {"length", "cost_cap"}

Finish(c) ==
    /\ At(c, "open")
    /\ \E own \in (IF Happens("self") THEN BOOLEAN ELSE {TRUE}) :
        socket' = [socket EXCEPT ![c].pc = "ending", ![c].ended = TRUE, ![c].own = own]
    /\ UNCHANGED <<vscene, session, acked, allowed, minted, lock, queued, waiting, worker, asks, crowded>>

Ended(v, why) == IF v.state \in LIVE_STATES
                 THEN [v EXCEPT !.state = "ended", !.reason = why, !.feedback = "pending"] ELSE v

EndSession(c) ==
    /\ At(c, "ending")
    /\ LET s == socket[c].sid IN
       /\ \E why \in (IF socket[c].own THEN MainReasons ELSE TaskReasons) :
            session' = [session EXCEPT ![s] = Ended(@, why)]
       /\ socket' = [socket EXCEPT ![c].pc = "ended", ![c].did = session[s].state \in LIVE_STATES]
    /\ UNCHANGED <<vscene, acked, allowed, minted, lock, queued, waiting, worker, asks, crowded>>

EndTail(c) ==
    /\ At(c, "ended") /\ Move(c, "closing")
    /\ LET s == socket[c].sid IN
       /\ lock' = Released(s)
       /\ queued' = IF socket[c].did THEN [queued EXCEPT ![<<s, 0>>] = @ + 1] ELSE queued
    /\ UNCHANGED <<vscene, session, acked, allowed, minted, waiting, worker, asks, crowded>>

\* The client leaves while a reply's task is in finish: close cancels it.
CutShort(c) ==
    /\ socket[c].pc \in {"ending", "ended"} /\ ~socket[c].own /\ Move(c, "closing")
    /\ UNCHANGED <<vscene, session, acked, allowed, minted, lock, queued, waiting, worker, asks, crowded>>

Disconnect(c) ==
    /\ At(c, "open") /\ Move(c, "closing")
    /\ UNCHANGED <<vscene, session, acked, allowed, minted, lock, queued, waiting, worker, asks, crowded>>

\* An audio frame that is too long: the socket is closed and marked ended.
FrameTooBig(c) ==
    /\ Happens("oversized") /\ At(c, "open")
    /\ socket' = [socket EXCEPT ![c].pc = "closing", ![c].ended = TRUE]
    /\ UNCHANGED <<vscene, session, acked, allowed, minted, lock, queued, waiting, worker, asks, crowded>>

\* The finally branch of run_socket.
Close(c) ==
    /\ At(c, "closing") /\ Move(c, "closed")
    /\ LET s == socket[c].sid IN
       /\ lock' = Released(s)
       /\ IF socket[c].ended THEN UNCHANGED <<session, waiting>>
          ELSE /\ session' \in Touched(s, {})
               /\ waiting' = [waiting EXCEPT ![s] = @ + 1]
    /\ UNCHANGED <<vscene, acked, allowed, minted, queued, worker, asks, crowded>>

\* VOICE_RESUME_SECONDS pass without a word of the client.
WindowPasses(s) ==
    /\ session[s].fresh \/ waiting[s] > 0
    /\ session' = [session EXCEPT ![s].fresh = FALSE]
    /\ waiting' = [waiting EXCEPT ![s] = 0]
    /\ queued' = [queued EXCEPT ![<<s, 0>>] = @ + waiting[s]]
    /\ UNCHANGED <<vscene, acked, allowed, minted, lock, socket, worker, asks, crowded>>

(***************************************************************************)
(* The finalizer                                                            *)
(***************************************************************************)
Doing(w, pc) == worker[w].pc = pc
Stop(w) == worker' = [worker EXCEPT ![w] = NoWork]
Step(w, pc) == worker' = [worker EXCEPT ![w].pc = pc]

TakeFinalize(w, s, n) ==
    /\ w \in vscene.workers /\ Doing(w, "idle") /\ queued[s, n] > 0
    /\ queued' = [queued EXCEPT ![<<s, n>>] = @ - 1]
    /\ worker' = [worker EXCEPT ![w] = [pc |-> "settle", sid |-> s, attempt |-> n]]
    /\ UNCHANGED <<vscene, session, acked, allowed, minted, lock, socket, waiting, asks, crowded>>

Settle(w) ==
    /\ Doing(w, "settle")
    /\ LET s == worker[w].sid
           v == session[s]
           left == lock # s /\ ~v.fresh /\ v.started
       IN  \/ v.state \in LIVE_STATES /\ left /\ Step(w, "end")
           \/ v.state = "ended" /\ v.feedback \notin {"ready", "none"} /\ Step(w, "read")
           \/ /\ \/ ~Exists(s)
                 \/ v.state \in LIVE_STATES /\ ~left
                 \/ v.state = "ended" /\ v.feedback \in {"ready", "none"}
              /\ Stop(w)
    /\ UNCHANGED <<vscene, session, acked, allowed, minted, lock, socket, queued, waiting, asks, crowded>>

SettleEnds(w) ==
    /\ Doing(w, "end") /\ Step(w, "read")
    /\ session' = [session EXCEPT ![worker[w].sid] = Ended(@, "disconnected")]
    /\ UNCHANGED <<vscene, acked, allowed, minted, lock, socket, queued, waiting, asks, crowded>>

\* The turns are paired, what an earlier evaluation stored is deleted.
ReadTurns(w) ==
    /\ Doing(w, "read")
    /\ LET s == worker[w].sid IN
       IF Exists(s) THEN session' = [session EXCEPT ![s].results = 0] /\ Step(w, "score")
       ELSE UNCHANGED session /\ Stop(w)
    /\ UNCHANGED <<vscene, acked, allowed, minted, lock, socket, queued, waiting, asks, crowded>>

\* No answer to score, a copilot debrief (with a model or without), or the
\* scores of the answers.
Scores(w) ==
    /\ Doing(w, "score") /\ Stop(w)
    /\ LET s == worker[w].sid IN
       session' = IF Exists(s) THEN [session EXCEPT ![s].feedback = "ready", ![s].results = @ + 1] ELSE session
    /\ UNCHANGED <<vscene, acked, allowed, minted, lock, socket, queued, waiting, asks, crowded>>

\* Fault: after the last try nothing says that the feedback has failed.
NoModelSilent(w) ==
    /\ Happens("busy") /\ Doing(w, "score") /\ session[worker[w].sid].mode = "mock" /\ Stop(w)
    /\ LET s == worker[w].sid
           n == worker[w].attempt
       IN  queued' = IF n < Retries THEN [queued EXCEPT ![<<s, n + 1>>] = @ + 1] ELSE queued
    /\ UNCHANGED <<vscene, session, acked, allowed, minted, lock, socket, waiting, asks, crowded>>

\* Every model is busy: again later, or the feedback has failed.
NoModel(w) ==
    /\ Happens("busy") /\ Doing(w, "score") /\ session[worker[w].sid].mode = "mock" /\ Stop(w)
    /\ LET s == worker[w].sid
           n == worker[w].attempt
       IN  IF n < Retries
           THEN queued' = [queued EXCEPT ![<<s, n + 1>>] = @ + 1] /\ UNCHANGED session
           ELSE /\ session' = IF Exists(s) THEN [session EXCEPT ![s].feedback = "failed"] ELSE session
                /\ UNCHANGED queued
    /\ UNCHANGED <<vscene, acked, allowed, minted, lock, socket, waiting, asks, crowded>>

\* An exception anywhere in finalize.
FinalizeCrashes(w) ==
    /\ Happens("bug") /\ worker[w].pc \in {"settle", "end", "read", "score"} /\ Stop(w)
    /\ LET s == worker[w].sid IN
       session' = IF Exists(s) /\ session[s].feedback = "pending" THEN [session EXCEPT ![s].feedback = "failed"]
                  ELSE session
    /\ UNCHANGED <<vscene, acked, allowed, minted, lock, socket, queued, waiting, asks, crowded>>

SocketStep(c) ==
    \/ Gate(c) \/ LockOrReject(c) \/ MarkStarted(c) \/ EndSession(c) \/ EndTail(c) \/ Close(c)
WorkerStep(w) ==
    \/ Settle(w) \/ SettleEnds(w) \/ ReadTurns(w) \/ Scores(w) \/ NoModel(w) \/ FinalizeCrashes(w)
    \/ \E s \in Sessions, n \in 0..Retries : TakeFinalize(w, s, n)

RoomNext ==
    \/ \E s \in Sessions :
        \/ \E mode \in Modes : CreateSession(s, mode)
        \/ StreamToken(s) \/ TokenExpires(s) \/ RetryFeedback(s) \/ DeleteSession(s) \/ PurgeExpired(s)
        \/ WindowPasses(s)
    \/ AcknowledgeCopilot \/ SettingsChange \/ DeleteHistory
    \/ \E c \in Sockets :
        \/ \E s \in Sessions : Authenticate(c, s)
        \/ SocketStep(c) \/ Message(c) \/ Finish(c) \/ CutShort(c) \/ Disconnect(c) \/ FrameTooBig(c)
    \/ \E w \in Workers : WorkerStep(w)

\* The coroutines of the API and the workers run on, and time passes.  The
\* client and the user owe nothing.
RoomFairness ==
    /\ \A c \in Sockets : WF_vvars(SocketStep(c))
    /\ \A w \in Workers : WF_vvars(WorkerStep(w))
    /\ \A s \in Sessions : WF_vvars(WindowPasses(s))

RoomSpec == RoomInit /\ [][RoomNext]_vvars /\ RoomFairness

(***************************************************************************)
(* Properties                                                               *)
(***************************************************************************)
\* One voice session of the user is live (voice_auth.py:13), the one that
\* holds the lock, as long as no session had two sockets at once: what a
\* socket releases when it closes is the lock of its own session, and never
\* that of the next one.
OneLive == crowded = {} => LiveSessions \subseteq {lock}

\* A session the user ends, or that ends because nothing is heard of the
\* client, is scored, or its feedback has failed and says so
\* (celery_tasks.py:1170); unless it is deleted or a socket that was on its
\* way in makes it live again.
EndedIsScored ==
    \A s \in Sessions :
        (session[s].state = "ended" /\ session[s].feedback = "pending" /\ session[s].reason \notin TaskReasons)
            ~> (session[s].feedback # "pending" \/ session[s].state # "ended")

\* A session whose sockets are gone is ended (voice_eval.py:6), or resumed.
LeftIsEnded ==
    \A s \in Sessions :
        (session[s].state \in {"active", "paused"} /\ s \notin LiveSessions)
            ~> (session[s].state \notin {"active", "paused"} \/ s \in LiveSessions)
=============================================================================
