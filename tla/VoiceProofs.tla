----------------------------- MODULE VoiceProofs -----------------------------
(***************************************************************************)
(* The voice rooms, practice, the copilot and the segmenter: what holds for *)
(* any sessions, sockets, replies, cards and chunks.                        *)
(***************************************************************************)
EXTENDS Voice, WellFoundedInduction, FiniteSetTheorems, TLAPS
-----------------------------------------------------------------------------
(***************************************************************************)
(* One voice session of a user is live, for any sessions, sockets, workers  *)
(* and requests, as long as no session had two sockets at once.             *)
(*                                                                          *)
(* The argument: a socket that is live took the lock for its session, and   *)
(* the lock is given back only by the sockets of the session that holds it; *)
(* so while no two open sockets are of one session, a socket that closes    *)
(* gives back its own lock or none.                                         *)
(***************************************************************************)

Socket == [pc : {"new", "gate", "lock", "mark", "open", "ending", "ended", "closing", "closed"},
           sid : Sessions \cup {NoSession}, ended : BOOLEAN, own : BOOLEAN, did : BOOLEAN]

Live(c) == socket[c].pc \in {"mark", "open", "ending", "ended"}

LiveHasLock == \A c \in Sockets : Live(c) => lock = socket[c].sid
OpenApart == \A c, d \in Sockets : Open(c) /\ Open(d) /\ socket[c].sid = socket[d].sid => c = d

\* A socket that has shown a token is one of a session.
Named == \A c \in Sockets : socket[c].pc # "new" => socket[c].sid \in Sessions

VInv ==
    /\ socket \in [Sockets -> Socket] /\ Named
    /\ crowded = {} => LiveHasLock /\ OpenApart

\* A socket goes on without taking or giving back the lock: it is not newly
\* live, nor newly open.
GoesOn(c) ==
    /\ \E new \in Socket :
         /\ socket' = [socket EXCEPT ![c] = new]
         /\ new.pc \in {"mark", "open", "ending", "ended"} => Live(c)
         /\ new.pc \in {"mark", "open", "ending", "ended", "closing"} => Open(c) /\ new.sid = socket[c].sid
         /\ new.pc # "new" => new.sid \in Sessions
    /\ UNCHANGED <<lock, crowded>>

LEMMA GoesOnHolds == ASSUME VInv, NEW c \in Sockets, GoesOn(c) PROVE VInv'
<1>1. PICK new \in Socket :
        /\ socket' = [socket EXCEPT ![c] = new]
        /\ new.pc \in {"mark", "open", "ending", "ended"} => Live(c)
        /\ new.pc \in {"mark", "open", "ending", "ended", "closing"} => Open(c) /\ new.sid = socket[c].sid
        /\ new.pc # "new" => new.sid \in Sessions
  BY DEF GoesOn
<1>2. socket' \in [Sockets -> Socket] /\ UNCHANGED <<lock, crowded>>
  BY <1>1 DEF VInv, GoesOn
<1>3. \A d \in Sockets : socket'[d] = IF d = c THEN new ELSE socket[d]
  BY <1>1 DEF VInv
<1>4. ASSUME LiveHasLock PROVE LiveHasLock'
  BY <1>1, <1>2, <1>3, <1>4 DEF LiveHasLock, Live
<1>5. ASSUME OpenApart PROVE OpenApart'
  BY <1>1, <1>3, <1>5 DEF OpenApart, Open
<1>6. Named'
  BY <1>1, <1>3 DEF VInv, Named
<1> QED
  BY <1>2, <1>4, <1>5, <1>6 DEF VInv

LEMMA RoomStartsWell == RoomInit => VInv
<1>1. NoSocket \in Socket /\ NoSocket.pc = "new"
  BY DEF NoSocket, Socket
<1> QED
  BY <1>1 DEF RoomInit, VInv, Named, LiveHasLock, OpenApart, Live, Open

\* Requests, time and the finalizer touch neither sockets nor the lock.
LEMMA OthersHold ==
    ASSUME VInv, UNCHANGED <<socket, lock, crowded>>
    PROVE  VInv'
  BY DEF VInv, Named, LiveHasLock, OpenApart, Live, Open

----------------------------------------------------------------------------
(* A socket *)

LEMMA AuthenticateHolds ==
    ASSUME VInv, NEW c \in Sockets, NEW s \in Sessions, Authenticate(c, s)
    PROVE  VInv'
<1>1. [NoSocket EXCEPT !.pc = "gate", !.sid = s] \in Socket
  BY DEF NoSocket, Socket
<1>2. [NoSocket EXCEPT !.pc = "gate", !.sid = s].pc = "gate" /\ [NoSocket EXCEPT !.pc = "gate", !.sid = s].sid = s
  BY DEF NoSocket
<1>3. GoesOn(c)
  BY <1>1, <1>2 DEF Authenticate, GoesOn
<1> QED
  BY <1>3, GoesOnHolds

\* Moving to a place, and moving with other fields set.
Places == {"new", "gate", "lock", "mark", "open", "ending", "ended", "closing", "closed"}
AtPlace(c, pc) == [socket[c] EXCEPT !.pc = pc]
AtPlaceWith(c, pc, e, o, t) == [socket[c] EXCEPT !.pc = pc, !.ended = e, !.own = o, !.did = t]

LEMMA PlaceMoved ==
    ASSUME VInv, NEW c \in Sockets, NEW pc \in Places
    PROVE  AtPlace(c, pc) \in Socket /\ AtPlace(c, pc).pc = pc /\ AtPlace(c, pc).sid = socket[c].sid
<1>1. socket[c] \in Socket
  BY DEF VInv
<1> QED
  BY <1>1 DEF Socket, AtPlace, Places

LEMMA PlaceSet ==
    ASSUME VInv, NEW c \in Sockets, NEW pc \in Places, NEW e \in BOOLEAN, NEW o \in BOOLEAN, NEW t \in BOOLEAN
    PROVE  /\ AtPlaceWith(c, pc, e, o, t) \in Socket
           /\ AtPlaceWith(c, pc, e, o, t).pc = pc
           /\ AtPlaceWith(c, pc, e, o, t).sid = socket[c].sid
<1>1. socket[c] \in Socket
  BY DEF VInv
<1> QED
  BY <1>1 DEF Socket, AtPlaceWith, Places

LEMMA MovesHold ==
    ASSUME VInv, NEW c \in Sockets,
           Gate(c) \/ MarkStarted(c) \/ CutShort(c) \/ Disconnect(c)
    PROVE  VInv'
<1>1. PICK pc \in {"lock", "closed", "open", "closing"} :
        /\ socket' = [socket EXCEPT ![c] = AtPlace(c, pc)]
        /\ pc = "open" => Live(c) /\ Open(c)
        /\ pc = "closing" => Open(c)
        /\ socket[c].pc # "new"
  BY DEF Gate, MarkStarted, CutShort, Disconnect, Move, At, Live, Open, AtPlace
<1>2. UNCHANGED <<lock, crowded>>
  BY DEF Gate, MarkStarted, CutShort, Disconnect
<1>3. AtPlace(c, pc) \in Socket /\ AtPlace(c, pc).pc = pc /\ AtPlace(c, pc).sid = socket[c].sid
  <2>1. pc \in Places
    BY DEF Places
  <2> QED
    BY <2>1, PlaceMoved
<1>4. GoesOn(c)
  BY <1>1, <1>2, <1>3 DEF GoesOn, VInv, Named
<1> QED
  BY <1>4, GoesOnHolds

\* A socket that ends, or is marked as ended: the fields that are not written
\* are written as they were.
LEMMA EndsHold ==
    ASSUME VInv, NEW c \in Sockets, Finish(c) \/ EndSession(c) \/ FrameTooBig(c)
    PROVE  VInv'
<1>1. /\ socket[c] = [pc |-> socket[c].pc, sid |-> socket[c].sid, ended |-> socket[c].ended,
                      own |-> socket[c].own, did |-> socket[c].did]
      /\ socket[c].ended \in BOOLEAN /\ socket[c].own \in BOOLEAN /\ socket[c].did \in BOOLEAN
  <2>1. socket[c] \in Socket
    BY DEF VInv
  <2> QED
    BY <2>1 DEF Socket
<1>2. PICK pc \in {"ending", "ended", "closing"}, e \in BOOLEAN, o \in BOOLEAN, t \in BOOLEAN :
        socket' = [socket EXCEPT ![c] = AtPlaceWith(c, pc, e, o, t)]
  <2>1. CASE Finish(c)
    <3>1. PICK own \in BOOLEAN : socket' = [socket EXCEPT ![c] = [socket[c] EXCEPT !.pc = "ending", !.ended = TRUE, !.own = own]]
      BY <2>1 DEF Finish
    <3>2. [socket[c] EXCEPT !.pc = "ending", !.ended = TRUE, !.own = own]
             = AtPlaceWith(c, "ending", TRUE, own, socket[c].did)
      BY <1>1 DEF AtPlaceWith
    <3> QED
      BY <1>1, <3>1, <3>2
  <2>2. CASE EndSession(c)
    <3> DEFINE live == session[socket[c].sid].state \in LIVE_STATES
    <3>1. socket' = [socket EXCEPT ![c] = [socket[c] EXCEPT !.pc = "ended", !.did = live]]
      BY <2>2 DEF EndSession
    <3>2. live \in BOOLEAN
      OBVIOUS
    <3> HIDE DEF live
    <3>3. [socket[c] EXCEPT !.pc = "ended", !.did = live]
             = AtPlaceWith(c, "ended", socket[c].ended, socket[c].own, live)
      BY <1>1 DEF AtPlaceWith
    <3> QED
      BY <1>1, <3>1, <3>2, <3>3
  <2>3. CASE FrameTooBig(c)
    <3>1. socket' = [socket EXCEPT ![c] = [socket[c] EXCEPT !.pc = "closing", !.ended = TRUE]]
      BY <2>3 DEF FrameTooBig
    <3>2. [socket[c] EXCEPT !.pc = "closing", !.ended = TRUE]
             = AtPlaceWith(c, "closing", TRUE, socket[c].own, socket[c].did)
      BY <1>1 DEF AtPlaceWith
    <3> QED
      BY <1>1, <3>1, <3>2
  <2> QED
    BY <2>1, <2>2, <2>3
<1>3. UNCHANGED <<lock, crowded>> /\ Live(c) /\ Open(c) /\ socket[c].pc # "new"
  BY DEF Finish, EndSession, FrameTooBig, At, Live, Open
<1>4. /\ AtPlaceWith(c, pc, e, o, t) \in Socket
      /\ AtPlaceWith(c, pc, e, o, t).pc = pc
      /\ AtPlaceWith(c, pc, e, o, t).sid = socket[c].sid
  <2>1. pc \in Places
    BY DEF Places
  <2> QED
    BY <2>1, PlaceSet
<1>5. GoesOn(c)
  BY <1>2, <1>3, <1>4 DEF GoesOn, VInv, Named
<1> QED
  BY <1>5, GoesOnHolds

LEMMA LockHolds == ASSUME VInv, NEW c \in Sockets, LockOrReject(c) PROVE VInv'
<1>1. socket[c].sid \in Sessions /\ socket[c].pc = "lock"
  BY DEF VInv, Named, LockOrReject, At
<1>2. "closed" \in Places /\ "mark" \in Places
  BY DEF Places
<1>3. CASE Move(c, "closed") /\ UNCHANGED <<lock, crowded>>
  <2>1. socket' = [socket EXCEPT ![c] = AtPlace(c, "closed")]
    BY <1>3 DEF Move, AtPlace
  <2>2. AtPlace(c, "closed") \in Socket /\ AtPlace(c, "closed").pc = "closed" /\ AtPlace(c, "closed").sid = socket[c].sid
    BY <1>2, PlaceMoved
  <2>3. GoesOn(c)
    BY <1>1, <1>3, <2>1, <2>2 DEF GoesOn
  <2> QED
    BY <2>3, GoesOnHolds
<1>4. CASE /\ Acquires(socket[c].sid) /\ lock' = socket[c].sid /\ Move(c, "mark")
           /\ crowded' = IF socket[c].sid \in OpenSessions THEN crowded \cup {socket[c].sid} ELSE crowded
  <2>1. socket' = [socket EXCEPT ![c] = AtPlace(c, "mark")]
    BY <1>4 DEF Move, AtPlace
  <2>2. AtPlace(c, "mark") \in Socket /\ AtPlace(c, "mark").pc = "mark" /\ AtPlace(c, "mark").sid = socket[c].sid
    BY <1>2, PlaceMoved
  <2>3. socket' \in [Sockets -> Socket] /\ Named'
    BY <1>1, <2>1, <2>2 DEF VInv, Named
  <2>4. \A d \in Sockets : socket'[d].sid = socket[d].sid /\ (d # c => socket'[d].pc = socket[d].pc)
    BY <2>1, <2>2 DEF VInv
  <2>5. ASSUME crowded' = {} PROVE LiveHasLock' /\ OpenApart'
    <3>1. crowded = {} /\ socket[c].sid \notin OpenSessions
      BY <1>4, <2>5
    <3>2. \A d \in Sockets : Open(d) => socket[d].sid # socket[c].sid
      BY <3>1 DEF OpenSessions
    <3>3. ASSUME NEW d \in Sockets PROVE ~Live(d)
      <4>1. SUFFICES ASSUME Live(d) PROVE FALSE
        OBVIOUS
      <4>2. Open(d) /\ socket[d].sid \in Sessions /\ lock = socket[d].sid
        BY <3>1, <4>1 DEF VInv, Named, LiveHasLock, Live, Open
      <4> QED
        BY <1>4, <3>2, <4>2, RoomConstants DEF Acquires
    <3>4. LiveHasLock'
      BY <1>4, <2>4, <3>3 DEF LiveHasLock, Live
    <3>5. OpenApart'
      BY <2>4, <3>1, <3>2 DEF VInv, OpenApart, Open
    <3> QED
      BY <3>4, <3>5
  <2> QED
    BY <2>3, <2>5 DEF VInv
<1> QED
  BY <1>3, <1>4 DEF LockOrReject

\* Giving back the lock: nobody else is live who has it.
LEMMA ReleaseHolds == ASSUME VInv, NEW c \in Sockets, EndTail(c) \/ Close(c) PROVE VInv'
<1>1. PICK pc \in {"closing", "closed"} : socket' = [socket EXCEPT ![c] = AtPlace(c, pc)]
  BY DEF EndTail, Close, Move, AtPlace
<1>2. Open(c) /\ lock' = Released(socket[c].sid) /\ UNCHANGED crowded /\ socket[c].pc # "new"
  BY DEF EndTail, Close, At, Open
<1>3. AtPlace(c, pc) \in Socket /\ AtPlace(c, pc).pc = pc /\ AtPlace(c, pc).sid = socket[c].sid
  <2>1. pc \in Places
    BY DEF Places
  <2> QED
    BY <2>1, PlaceMoved
<1>4. socket' \in [Sockets -> Socket] /\ Named'
  BY <1>1, <1>2, <1>3 DEF VInv, Named
<1>5. \A d \in Sockets : socket'[d].sid = socket[d].sid /\ (d # c => socket'[d].pc = socket[d].pc)
  BY <1>1, <1>3 DEF VInv
<1>6. socket'[c].pc = pc
  BY <1>1, <1>3 DEF VInv
<1>7. ASSUME LiveHasLock, OpenApart PROVE LiveHasLock' /\ OpenApart'
  <2>1. \A d \in Sockets : Live(d) /\ d # c => lock = socket[d].sid /\ socket[d].sid # socket[c].sid
    BY <1>2, <1>7 DEF LiveHasLock, OpenApart, Live, Open
  <2>2. LiveHasLock'
    BY <1>2, <1>5, <1>6, <2>1 DEF LiveHasLock, Live, Released
  <2>3. OpenApart'
    BY <1>2, <1>5, <1>7 DEF OpenApart, Open
  <2> QED
    BY <2>2, <2>3
<1> QED
  BY <1>2, <1>4, <1>7 DEF VInv

----------------------------------------------------------------------------

LEMMA RoomStepHolds == ASSUME VInv, RoomNext PROVE VInv'
<1>1. CASE \E s \in Sessions :
             \/ \E mode \in Modes : CreateSession(s, mode)
             \/ StreamToken(s) \/ TokenExpires(s) \/ RetryFeedback(s) \/ DeleteSession(s) \/ PurgeExpired(s)
             \/ WindowPasses(s)
  BY <1>1, OthersHold DEF CreateSession, StreamToken, TokenExpires, RetryFeedback, DeleteSession,
     PurgeExpired, WindowPasses
<1>2. CASE AcknowledgeCopilot \/ SettingsChange \/ DeleteHistory
  BY <1>2, OthersHold DEF AcknowledgeCopilot, SettingsChange, DeleteHistory
<1>3. CASE \E c \in Sockets :
             \/ \E s \in Sessions : Authenticate(c, s)
             \/ SocketStep(c) \/ Message(c) \/ Finish(c) \/ CutShort(c) \/ Disconnect(c) \/ FrameTooBig(c)
  <2>1. PICK c \in Sockets :
             \/ \E s \in Sessions : Authenticate(c, s)
             \/ SocketStep(c) \/ Message(c) \/ Finish(c) \/ CutShort(c) \/ Disconnect(c) \/ FrameTooBig(c)
    BY <1>3
  <2>2. CASE Message(c)
    BY <2>2, OthersHold DEF Message
  <2> QED
    BY <2>1, <2>2, AuthenticateHolds, MovesHold, EndsHold, LockHolds, ReleaseHolds DEF SocketStep
<1>4. CASE \E w \in Workers : WorkerStep(w)
  BY <1>4, OthersHold DEF WorkerStep, Settle, SettleEnds, ReadTurns, Scores, NoModel, FinalizeCrashes, TakeFinalize
<1> QED
  BY <1>1, <1>2, <1>3, <1>4 DEF RoomNext

\* OneLive for any sessions, sockets, workers and requests (voice_auth.py:13).
THEOREM OneSessionIsLive == RoomSpec => []OneLive
<1>1. VInv /\ [RoomNext]_vvars => VInv'
  <2>1. ASSUME VInv, UNCHANGED vvars PROVE VInv'
    BY <2>1, OthersHold DEF vvars
  <2> QED
    BY <2>1, RoomStepHolds
<1>2. VInv => OneLive
  BY DEF VInv, OneLive, LiveSessions, LiveHasLock, Live
<1> QED
  BY RoomStartsWell, <1>1, <1>2, PTL DEF RoomSpec

-----------------------------------------------------------------------------
(***************************************************************************)
(* A reply that was cut leaves no model running and is not heard, for any   *)
(* number of replies, questions and utterances, and whatever fails.         *)
(*                                                                          *)
(* The argument: only the reply whose number is gen is before its end, and  *)
(* a model runs only for a reply that reads it.  Whoever clears gen, or     *)
(* gives it to another reply, drops that one reply and its model together.  *)
(***************************************************************************)

ReplyRecord ==
    [pc : {"off", "new", "streaming", "commit", "tail", "answer", "closing", "record", "done"},
     why : {"opening", "answer", "skip"}, spoken : Nat, epoch : Nat, tag : {"Q", "F", "END"}]

Coming(r) == reply[r].pc \in {"new", "streaming", "commit"}

PInv ==
    /\ reply \in [Replies -> ReplyRecord] /\ epoch \in Nat
    /\ stream \in [Replies -> {"off", "running", "finished", "cancelled"}]
    /\ said \in [words : Nat, stale : {FALSE}]
    /\ \A r \in Replies : Coming(r) => gen = r
    /\ \A r \in Replies : stream[r] = "running" => reply[r].pc \in {"streaming", "commit"}

\* The reply g is dropped with its model, and no other one takes its place.
Drops(g) ==
    /\ reply' = [reply EXCEPT ![g].pc = "done"]
    /\ stream' = IF stream[g] = "running" THEN [stream EXCEPT ![g] = "cancelled"] ELSE stream

LEMMA DropHolds ==
    ASSUME PInv, Drops(gen), epoch' \in Nat, UNCHANGED said
    PROVE  PInv'
<1>1. reply' \in [Replies -> ReplyRecord] /\ \A r \in Replies : reply'[r].pc = IF r = gen THEN "done" ELSE reply[r].pc
  BY DEF PInv, Drops, ReplyRecord
<1>2. stream' \in [Replies -> {"off", "running", "finished", "cancelled"}]
      /\ \A r \in Replies : stream'[r] = "running" => r # gen /\ stream[r] = "running"
  BY DEF PInv, Drops
<1>3. \A r \in Replies : ~Coming(r)'
  BY <1>1 DEF PInv, Coming
<1>4. \A r \in Replies : stream'[r] # "running"
  BY <1>2 DEF PInv, Coming
<1> QED
  BY <1>1, <1>2, <1>3, <1>4 DEF PInv

\* A reply is started when no other one is coming.
LEMMA StartHolds ==
    ASSUME PInv, NEW why \in {"opening", "answer", "skip"}, NEW rs \in [Replies -> ReplyRecord],
           \A r \in Replies : rs[r].pc \notin {"new", "streaming", "commit"},
           \A r \in Replies : stream'[r] # "running",
           stream' \in [Replies -> {"off", "running", "finished", "cancelled"}],
           StartReply(why, rs), said' \in [words : Nat, stale : {FALSE}]
    PROVE  PInv'
<1>1. PICK tag \in Tags(why) :
        reply' = [rs EXCEPT ![NextReply] =
                     [pc |-> "new", why |-> why, spoken |-> 0, epoch |-> epoch + 1, tag |-> tag]]
  BY DEF StartReply
<1>2. epoch' \in Nat /\ epoch' = epoch + 1 /\ gen' = NextReply /\ tag \in {"Q", "F", "END"}
  BY DEF PInv, StartReply, Tags
<1> DEFINE new == [pc |-> "new", why |-> why, spoken |-> 0, epoch |-> epoch + 1, tag |-> tag]
<1>3. new \in ReplyRecord
  BY <1>2 DEF ReplyRecord, PInv
<1> HIDE DEF new
<1>4. reply' \in [Replies -> ReplyRecord] /\ \A r \in Replies : r # NextReply => reply'[r] = rs[r]
  BY <1>1, <1>3 DEF new
<1>5. \A r \in Replies : Coming(r)' => gen' = r
  BY <1>2, <1>4 DEF Coming
<1> QED
  BY <1>2, <1>4, <1>5 DEF PInv

LEMMA AnswerHolds ==
    ASSUME PInv, NEW why \in {"opening", "answer", "skip"}, NEW parts_said, AnswerDone(why, parts_said),
           UNCHANGED stream, said' \in [words : Nat, stale : {FALSE}]
    PROVE  PInv'
<1>1. CASE UNCHANGED <<gen, epoch, reply>>
  BY <1>1 DEF PInv, Coming
<1>2. CASE gen = NoGen /\ StartReply(why, reply)
  <2>1. \A r \in Replies : ~Coming(r)
    BY <1>2 DEF PInv, NoGen, Replies
  <2>2. \A r \in Replies : stream'[r] # "running"
    BY <2>1 DEF PInv, Coming
  <2> QED
    BY <1>2, <2>1, <2>2, StartHolds DEF PInv, Coming
<1> QED
  BY <1>1, <1>2 DEF AnswerDone
\* What a reply goes on to: a stage that follows the one it is at.
LEMMA StageHolds ==
    ASSUME PInv, NEW r \in Replies, UNCHANGED <<epoch, said>>,
           NEW st \in {"new", "streaming", "commit", "tail", "answer", "closing", "record", "done"},
           reply' = [reply EXCEPT ![r].pc = st],
           st \in {"new", "streaming", "commit"} => gen' = r /\ gen' = gen,
           gen' = gen \/ gen = r,
           stream' \in [Replies -> {"off", "running", "finished", "cancelled"}],
           \A q \in Replies : q # r => stream'[q] = stream[q],
           stream'[r] = "running" => st \in {"streaming", "commit"}
    PROVE  PInv'
<1>1. reply' \in [Replies -> ReplyRecord] /\ \A q \in Replies : reply'[q].pc = IF q = r THEN st ELSE reply[q].pc
  BY DEF PInv, ReplyRecord
<1>2. \A q \in Replies : Coming(q)' => gen' = q
  BY <1>1 DEF PInv, Coming
<1>3. \A q \in Replies : stream'[q] = "running" => reply'[q].pc \in {"streaming", "commit"}
  BY <1>1 DEF PInv
<1>4. epoch' \in Nat /\ said' \in [words : Nat, stale : {FALSE}]
  BY DEF PInv
<1> QED
  BY <1>1, <1>2, <1>3, <1>4 DEF PInv

\* A sentence is heard only of the reply that is coming.
LEMMA SpeakHolds ==
    ASSUME PInv, NEW r \in Replies, gen = r, Speak(r), UNCHANGED <<gen, epoch, stream>>
    PROVE  PInv'
<1> DEFINE n == reply[r].spoken + 1
<1>1. n \in Nat
  BY DEF PInv, ReplyRecord
<1>2. reply' = [reply EXCEPT ![r].pc = "streaming", ![r].spoken = n]
  BY DEF Speak
<1> HIDE DEF n
<1>a. reply' \in [Replies -> ReplyRecord]
  <2>1. reply \in [Replies -> ReplyRecord]
    BY DEF PInv
  <2> QED
    BY <2>1, <1>1, <1>2 DEF ReplyRecord
<1>b. \A q \in Replies : reply'[q].pc = IF q = r THEN "streaming" ELSE reply[q].pc
  <2>1. reply \in [Replies -> ReplyRecord]
    BY DEF PInv
  <2> QED
    BY <2>1, <1>2 DEF ReplyRecord
<1>3. /\ reply' \in [Replies -> ReplyRecord]
      /\ \A q \in Replies : reply'[q].pc = IF q = r THEN "streaming" ELSE reply[q].pc
  BY <1>a, <1>b
<1>4. said' \in [words : Nat, stale : {FALSE}]
  BY DEF PInv, Speak
<1>5. \A q \in Replies : Coming(q)' => gen' = q
  BY <1>3 DEF PInv, Coming
<1>6. \A q \in Replies : stream'[q] = "running" => reply'[q].pc \in {"streaming", "commit"}
  BY <1>3 DEF PInv
<1>7. epoch' \in Nat /\ stream' \in [Replies -> {"off", "running", "finished", "cancelled"}]
  BY DEF PInv
<1> QED
  BY <1>3, <1>4, <1>5, <1>6, <1>7 DEF PInv

LEMMA ReplyHolds ==
    ASSUME PInv, NEW r \in Replies,
           \/ RunReply(r) \/ Sentence(r) \/ CommitReturns(r) \/ ReplyEnds(r)
           \/ TailCommits(r) \/ ReplyTail(r) \/ Recorded(r) \/ ReplyFails(r)
    PROVE  PInv'
<1>1. CASE RunReply(r)
  <2>1. gen = r
    BY <1>1 DEF RunReply, PInv, Coming
  <2> QED
    BY <1>1, <2>1, StageHolds DEF RunReply, PInv
<1>2. CASE Sentence(r)
  <2>1. gen = r
    BY <1>2 DEF Sentence, PInv, Coming
  <2>2. CASE UNCHANGED said /\ reply' = [reply EXCEPT ![r].pc = "commit"]
    BY <1>2, <2>1, <2>2, StageHolds DEF Sentence, PInv
  <2>3. CASE Speak(r)
    BY <1>2, <2>1, <2>3, SpeakHolds DEF Sentence
  <2> QED
    BY <1>2, <2>1, <2>2, <2>3 DEF Sentence
<1>3. CASE CommitReturns(r)
  <2>1. gen = r
    BY <1>3 DEF CommitReturns, PInv, Coming
  <2> QED
    BY <1>3, <2>1, SpeakHolds DEF CommitReturns
<1>4. CASE ReplyEnds(r)
  <2>1. stream' \in [Replies -> {"off", "running", "finished", "cancelled"}]
        /\ stream'[r] # "running" /\ \A q \in Replies : q # r => stream'[q] = stream[q]
    BY <1>4 DEF ReplyEnds, PInv
  <2>2. CASE reply[r].spoken = 0
    <3>1. reply' = [reply EXCEPT ![r].pc = "done"]
      BY <1>4, <2>2 DEF ReplyEnds
    <3> QED
      BY <1>4, <2>1, <3>1, StageHolds DEF ReplyEnds
  <2>3. CASE reply[r].spoken # 0
    <3>1. reply' = [reply EXCEPT ![r].pc = "tail"]
      BY <1>4, <2>3 DEF ReplyEnds
    <3> QED
      BY <1>4, <2>1, <3>1, StageHolds DEF ReplyEnds
  <2> QED
    BY <2>2, <2>3
<1>5. CASE TailCommits(r)
  <2>1. stream[r] # "running"
    BY <1>5 DEF TailCommits, PInv
  <2>2. PICK st \in {"tail", "answer"} : reply' = [reply EXCEPT ![r].pc = st]
    BY <1>5 DEF TailCommits
  <2> QED
    BY <1>5, <2>1, <2>2, StageHolds DEF TailCommits, PInv
<1>6. CASE ReplyTail(r)
  <2>1. stream[r] # "running"
    BY <1>6 DEF ReplyTail, PInv
  <2> QED
    BY <1>6, <2>1, StageHolds DEF ReplyTail, PInv
<1>7. CASE Recorded(r)
  <2>1. stream[r] # "running"
    BY <1>7 DEF Recorded, PInv
  <2>2. PICK st \in {"closing", "done"} : reply' = [reply EXCEPT ![r].pc = st]
    BY <1>7 DEF Recorded, Dropped
  <2> QED
    BY <1>7, <2>1, <2>2, StageHolds DEF Recorded, PInv
<1>8. CASE ReplyFails(r)
  <2>1. gen = r
    BY <1>8 DEF ReplyFails, PInv, Coming
  <2>2. PICK st \in {"closing", "done"} : reply' = [reply EXCEPT ![r].pc = st]
    BY <1>8 DEF ReplyFails, Dropped
  <2>3. stream' \in [Replies -> {"off", "running", "finished", "cancelled"}]
        /\ stream'[r] # "running" /\ \A q \in Replies : q # r => stream'[q] = stream[q]
    BY <1>8 DEF ReplyFails, PInv
  <2> QED
    BY <1>8, <2>1, <2>2, <2>3, StageHolds DEF ReplyFails
<1> QED
  BY <1>1, <1>2, <1>3, <1>4, <1>5, <1>6, <1>7, <1>8

\* With no reply coming no model runs, and nobody changes that by clearing gen.
LEMMA QuietHolds ==
    ASSUME PInv, UNCHANGED <<reply, stream, said>>, epoch' \in Nat, gen' = gen \/ gen = NoGen
    PROVE  PInv'
<1>1. \A r \in Replies : Coming(r)' => gen' = r
  BY DEF PInv, Coming, NoGen, Replies
<1> QED
  BY <1>1 DEF PInv

LEMMA BargeHolds ==
    ASSUME PInv, BargeIn, UNCHANGED said
    PROVE  PInv'
<1>1. CASE ~Speaking(gen)
  <2>1. epoch' \in Nat
    BY <1>1 DEF BargeIn, NextEpoch, PInv
  <2> QED
    BY <1>1, <2>1, QuietHolds DEF BargeIn
<1>2. CASE Speaking(gen)
  <2>1. epoch' \in Nat
    BY <1>2 DEF BargeIn, PInv
  <2> QED
    BY <1>2, <2>1, DropHolds DEF BargeIn, Drops, Dropped, StreamCut
<1> QED
  BY <1>1, <1>2

\* The socket's loop and the speech-to-text worker.
LEMMA SocketHolds ==
    ASSUME PInv, SpeechStart \/ SttReturns \/ TypedAnswer \/ ControlStart \/ ControlSkip \/ ControlBargeIn
    PROVE  PInv'
<1>0. said \in [words : Nat, stale : {FALSE}]
  BY DEF PInv
<1>1. CASE SpeechStart
  <2>1. CASE BargeIn
    BY <1>1, <2>1, BargeHolds DEF SpeechStart
  <2>2. CASE CancelPending
    <3>1. epoch' \in Nat
      BY <2>2 DEF CancelPending, PInv
    <3> QED
      BY <1>1, <2>2, <3>1, DropHolds DEF SpeechStart, CancelPending, Drops, Dropped, StreamCut
  <2> QED
    BY <1>1, <2>1, <2>2 DEF SpeechStart
<1>2. CASE SttReturns
  <2>1. CASE UNCHANGED <<gen, epoch, reply>>
    BY <1>2, <2>1, QuietHolds DEF SttReturns, PInv
  <2>2. CASE AnswerDone("answer", parts')
    BY <1>0, <1>2, <2>2, AnswerHolds DEF SttReturns
  <2> QED
    BY <1>2, <2>1, <2>2 DEF SttReturns
<1>3. CASE TypedAnswer
  <2>1. said' \in [words : Nat, stale : {FALSE}]
    <3>1. said.words + 1 \in Nat
      BY <1>0
    <3> QED
      BY <1>0, <1>3, <3>1 DEF TypedAnswer
  <2>2. CASE gen # NoGen /\ ~Speaking(gen)
    <3>1. StartReply("answer", Dropped(gen)) /\ stream' = StreamCut(gen)
      BY <1>3, <2>2 DEF TypedAnswer
    <3>2. Dropped(gen) \in [Replies -> ReplyRecord]
          /\ \A r \in Replies : Dropped(gen)[r].pc = IF r = gen THEN "done" ELSE reply[r].pc
      BY DEF PInv, Dropped, ReplyRecord
    <3>3. \A r \in Replies : Dropped(gen)[r].pc \notin {"new", "streaming", "commit"}
      BY <3>2 DEF PInv, Coming
    <3>4. stream' \in [Replies -> {"off", "running", "finished", "cancelled"}]
          /\ \A r \in Replies : stream'[r] # "running"
      BY <3>1 DEF PInv, StreamCut, Coming
    <3> QED
      BY <2>1, <3>1, <3>2, <3>3, <3>4, StartHolds
  <2>3. CASE AnswerDone("answer", parts') /\ UNCHANGED stream
    BY <2>1, <2>3, AnswerHolds
  <2> QED
    BY <1>3, <2>2, <2>3 DEF TypedAnswer
<1>4. CASE ControlStart
  <2>1. gen = NoGen
    BY <1>4 DEF ControlStart
  <2>2. \A r \in Replies : ~Coming(r)
    BY <2>1 DEF PInv, NoGen, Replies
  <2>3. \A r \in Replies : stream'[r] # "running"
    BY <1>4, <2>2 DEF ControlStart, PInv, Coming
  <2> QED
    BY <1>0, <1>4, <2>2, <2>3, StartHolds DEF ControlStart, PInv, Coming
<1>5. CASE ControlSkip
  BY <1>0, <1>5, AnswerHolds DEF ControlSkip
<1>6. CASE ControlBargeIn
  BY <1>6, BargeHolds DEF ControlBargeIn
<1> QED
  BY <1>1, <1>2, <1>3, <1>4, <1>5, <1>6

\* The microphone, the voice and the pauses leave the replies alone.
LEMMA AroundHolds ==
    ASSUME PInv,
           \/ \E t \in Tasks : Written(t)
           \/ BargeReturns \/ QueueUtterance \/ SttTakes \/ ControlPause \/ ControlResume \/ ControlRepeat
           \/ TtsTakes \/ TtsReturns \/ IdleTimeout \/ IdleEnds \/ ControlEnd \/ FinishEnds \/ ClientLeaves
    PROVE  PInv'
<1>0. said \in [words : Nat, stale : {FALSE}] /\ epoch \in Nat
  BY DEF PInv
<1>n. said.words + 1 \in Nat
  BY <1>0
<1>1. said' \in [words : Nat, stale : {FALSE}]
  <2>1. CASE QueueUtterance \/ ControlPause
    BY <1>0, <1>n, <2>1 DEF QueueUtterance, ControlPause
  <2>2. CASE TtsReturns
    BY <1>0, <2>2 DEF TtsReturns, Heard
  <2>3. CASE UNCHANGED said
    BY <1>0, <2>3
  <2> QED
    BY <2>1, <2>2, <2>3 DEF Written, BargeReturns, SttTakes, ControlResume, ControlRepeat, TtsTakes, IdleTimeout,
                            IdleEnds, ControlEnd, FinishEnds, ClientLeaves
<1>2. UNCHANGED <<reply, stream, gen>>
  BY DEF Written, BargeReturns, QueueUtterance, SttTakes, ControlPause, ControlResume, ControlRepeat, TtsTakes,
         TtsReturns, IdleTimeout, IdleEnds, ControlEnd, FinishEnds, ClientLeaves
<1>3. epoch' \in Nat
  <2>1. CASE ControlRepeat
    BY <1>0, <2>1 DEF ControlRepeat, NextEpoch
  <2>2. CASE UNCHANGED epoch
    BY <1>0, <2>2
  <2> QED
    BY <2>1, <2>2 DEF Written, BargeReturns, QueueUtterance, SttTakes, ControlPause, ControlResume, TtsTakes,
                      TtsReturns, IdleTimeout, IdleEnds, ControlEnd, FinishEnds, ClientLeaves
<1> QED
  BY <1>1, <1>2, <1>3 DEF PInv, Coming

\* The end drops the reply that is coming, and the close every other.
LEMMA EndingHolds ==
    ASSUME PInv, FinishCommits \/ ClosePractice
    PROVE  PInv'
<1>1. CASE FinishCommits /\ gen = NoGen
  BY <1>1, QuietHolds DEF FinishCommits, PInv
<1>2. CASE FinishCommits /\ gen # NoGen
  <2>1. epoch' \in Nat
    BY <1>2 DEF FinishCommits, PInv
  <2> QED
    BY <1>2, <2>1, DropHolds DEF FinishCommits, Drops, Dropped, StreamCut
<1>3. CASE ClosePractice
  <2>1. reply' \in [Replies -> ReplyRecord] /\ \A r \in Replies : reply'[r].pc \in {"off", "done"}
    BY <1>3 DEF ClosePractice, PInv, ReplyRecord
  <2>2. \A r \in Replies : stream[r] = "running" => ClosedStream(r) = "cancelled"
    BY DEF PInv, ClosedStream
  <2>3. \A r \in Replies : ClosedStream(r) \in {"off", "finished", "cancelled"}
    BY <2>2 DEF PInv, ClosedStream
  <2>4. stream' \in [Replies -> {"off", "running", "finished", "cancelled"}]
        /\ \A r \in Replies : stream'[r] # "running"
    BY <1>3, <2>3 DEF ClosePractice
  <2>5. UNCHANGED <<gen, epoch, said>>
    BY <1>3 DEF ClosePractice
  <2> QED
    BY <2>1, <2>4, <2>5 DEF PInv, Coming
<1> QED
  BY <1>1, <1>2, <1>3

LEMMA PracticeStep ==
    ASSUME PInv, [PracticeNext]_pvars
    PROVE  PInv'
<1>1. CASE UNCHANGED pvars
  BY <1>1 DEF PInv, pvars, Coming
<1>2. CASE PracticeNext
  BY <1>2, ReplyHolds, SocketHolds, AroundHolds, EndingHolds DEF PracticeNext
<1> QED
  BY <1>1, <1>2

LEMMA PracticeStarts ==
    ASSUME PracticeInit
    PROVE  PInv
<1>1. NoReply \in ReplyRecord /\ NoReply.pc = "off"
  BY DEF NoReply, ReplyRecord
<1> QED
  BY <1>1 DEF PracticeInit, PInv, Coming

\* A reply the candidate talks over, and every reply of a socket that is
\* closed, falls silent and lets go of its model (practice_session.py:7), in
\* an interview of any length and whatever the providers do.
THEOREM EveryCutReplyStops == PracticeSpec => []CutRepliesStop
<1>1. PracticeInit => PInv
  BY PracticeStarts
<1>2. PInv /\ [PracticeNext]_pvars => PInv'
  BY PracticeStep
<1>3. PInv => CutRepliesStop
  BY DEF PInv, CutRepliesStop
<1> QED
  BY <1>1, <1>2, <1>3, PTL DEF PracticeSpec

-----------------------------------------------------------------------------
(***************************************************************************)
(* What is heard is cut into utterances that do not overlap, for any length *)
(* of chunks, silences and utterances, while the client's clock runs on.    *)
(*                                                                          *)
(* The argument: whatever is held, of the present utterance or from before  *)
(* it, was heard after all that was handed out; and the clock has gone on   *)
(* by at least the number of chunks held, so an utterance that begins as    *)
(* many chunks ago as are held begins after the end of the last one.        *)
(***************************************************************************)

Utterance == [from : Int, to : Int, final : BOOLEAN, pcm : Seq(Nat)]

SpeechState == [on : BOOLEAN, start : Int, voiced : Nat, silent : Nat]

\* The last chunk of an utterance.
EndOf(u) == u.pcm[Len(u.pcm)]

\* The chunks c have all been heard, and after what is in the utterances u.
HeardAfter(c, u, fed) ==
    \A k \in 1..Len(c) : c[k] < fed /\ \A i \in 1..Len(u) : EndOf(u[i]) < c[k]

\* The utterance that began at start is closed at end with what was heard of
\* it, and the clock goes on to ms and the chunk fed.
Closes(ms, fed, start, end, chunks, voiced) ==
    /\ speech.on /\ speech.start = start /\ UNCHANGED preroll
    /\ \E final \in BOOLEAN : CloseUtterance(end, chunks, voiced, final)
    /\ clock' = [ms |-> ms, fed |-> fed] /\ clock.fed <= fed
    /\ HeardAfter(chunks, cut, fed) /\ start <= end /\ end <= ms
    /\ voiced > 0 => start < end /\ chunks # <<>>

\* Time enough has passed, since the last utterance and since the present
\* one began, for what is held of each.
InTime ==
    IF speech.on
    THEN /\ \A i \in 1..Len(cut) : cut[i].to <= speech.start
         /\ speech.start + Len(buf) <= clock.ms /\ speech.start + speech.silent <= clock.ms
         /\ speech.voiced > 0 => buf # <<>> /\ speech.start + speech.silent < clock.ms
         /\ preroll = <<>>
    ELSE /\ \A i \in 1..Len(cut) : cut[i].to + Len(preroll) <= clock.ms
         /\ buf = <<>>

VadTyped ==
    /\ clock \in [ms : Nat, fed : Nat]
    /\ preroll \in Seq(Nat) /\ buf \in Seq(Nat) /\ cut \in Seq(Utterance) /\ voiced_run \in Nat
    /\ speech \in SpeechState

HeldApart == HeardAfter(preroll, cut, clock.fed) /\ HeardAfter(buf, cut, clock.fed)
AllHeard == \A i \in 1..Len(cut) : cut[i].pcm # <<>> /\ EndOf(cut[i]) < clock.fed

VadInv == VadTyped /\ InTime /\ HeldApart /\ AllHeard /\ UtterancesApart

LEMMA EndTyped ==
    ASSUME NEW u \in Utterance, u.pcm # <<>>
    PROVE  EndOf(u) \in Nat
<1>1. u.pcm \in Seq(Nat)
  BY DEF Utterance
<1>2. Len(u.pcm) \in 1..Len(u.pcm)
  BY <1>1
<1> QED
  BY <1>1, <1>2 DEF EndOf

\* The invariant, conjunct by conjunct.
LEMMA VadFacts ==
    ASSUME VadInv
    PROVE  /\ clock \in [ms : Nat, fed : Nat] /\ clock.ms \in Nat /\ clock.fed \in Nat
           /\ preroll \in Seq(Nat) /\ buf \in Seq(Nat) /\ voiced_run \in Nat /\ cut \in Seq(Utterance)
           /\ speech \in SpeechState /\ speech.start \in Int /\ speech.voiced \in Nat /\ speech.silent \in Nat
           /\ Len(preroll) \in Nat /\ Len(buf) \in Nat
  BY DEF VadInv, VadTyped, SpeechState

LEMMA ClockIs == ASSUME VadInv PROVE clock = [ms |-> clock.ms, fed |-> clock.fed]
  BY DEF VadInv, VadTyped

LEMMA VadNumbers ==
           /\ MinSpeech \in Nat /\ MinSpeech > 0 /\ EndSilence \in Nat /\ EndSilence > 0
           /\ Preroll \in Nat \ {0} /\ StartChunks \in Nat /\ StartChunks > 0
           /\ MaxUtterance \in Nat /\ MaxUtterance > 0 /\ MaxGap \in Nat
  BY VadConstants

LEMMA CutFacts ==
    ASSUME VadInv, NEW i \in 1..Len(cut)
    PROVE  /\ cut[i] \in Utterance /\ cut[i].to \in Int /\ cut[i].from \in Int
           /\ cut[i].from < cut[i].to /\ cut[i].pcm # <<>>
           /\ EndOf(cut[i]) \in Nat /\ EndOf(cut[i]) < clock.fed
<1>1. cut \in Seq(Utterance)
  BY DEF VadInv, VadTyped
<1>2. cut[i] \in Utterance
  BY <1>1
<1>3. cut[i].to \in Int /\ cut[i].from \in Int
  BY <1>2 DEF Utterance
<1>4. cut[i].pcm # <<>> /\ EndOf(cut[i]) < clock.fed
  BY DEF VadInv, AllHeard
<1>5. EndOf(cut[i]) \in Nat
  BY <1>2, <1>4, EndTyped
<1>6. cut[i].from < cut[i].to
  BY DEF VadInv, UtterancesApart
<1> QED
  BY <1>2, <1>3, <1>4, <1>5, <1>6

LEMMA NewestIs ==
    ASSUME NEW s \in Seq(Nat), NEW n \in Nat \ {0}
    PROVE  /\ Newest(s, n) \in Seq(Nat) /\ Len(Newest(s, n)) <= Len(s)
           /\ s # <<>> => Newest(s, n) # <<>>
           /\ \A k \in 1..Len(Newest(s, n)) : \E j \in 1..Len(s) : Newest(s, n)[k] = s[j]
<1>1. CASE Len(s) <= n
  BY <1>1 DEF Newest
<1>2. CASE ~(Len(s) <= n)
  <2> DEFINE m == Len(s) - n + 1
  <2>1. Newest(s, n) = SubSeq(s, m, Len(s)) /\ m \in 1..Len(s) /\ Len(s) - m + 1 = n
    BY <1>2 DEF Newest
  <2> HIDE DEF m
  <2>2. Len(Newest(s, n)) = n /\ Newest(s, n) \in Seq(Nat)
    BY <2>1
  <2>3. \A k \in 1..n : Newest(s, n)[k] = s[m + k - 1] /\ m + k - 1 \in 1..Len(s)
    BY <2>1
  <2>5. ASSUME NEW k \in 1..n PROVE \E j \in 1..Len(s) : Newest(s, n)[k] = s[j]
    BY <2>3
  <2> QED
    BY <1>2, <2>2, <2>5
<1> QED
  BY <1>1, <1>2

\* What is held grows by the chunk that was just fed.
LEMMA HeardAfterAppend ==
    ASSUME NEW s \in Seq(Nat), NEW u \in Seq(Utterance), NEW fed \in Nat, HeardAfter(s, u, fed),
           \A i \in 1..Len(u) : EndOf(u[i]) < fed
    PROVE  Append(s, fed) \in Seq(Nat) /\ HeardAfter(Append(s, fed), u, fed + 1)
<1>1. Append(s, fed) \in Seq(Nat) /\ Len(Append(s, fed)) = Len(s) + 1
  OBVIOUS
<1>2. ASSUME NEW k \in 1..Len(s) + 1
      PROVE  Append(s, fed)[k] < fed + 1 /\ \A i \in 1..Len(u) : EndOf(u[i]) < Append(s, fed)[k]
  <2>1. CASE k = Len(s) + 1
    BY <2>1
  <2>2. CASE k # Len(s) + 1
    <3>1. k \in 1..Len(s) /\ Append(s, fed)[k] = s[k] /\ s[k] \in Nat
      BY <2>2
    <3> QED
      BY <3>1 DEF HeardAfter
  <2> QED
    BY <2>1, <2>2
<1> QED
  BY <1>1, <1>2 DEF HeardAfter

\* An utterance that is handed out, or dropped as too short, lies between
\* the one before it and what is heard next.
LEMMA CloseHolds ==
    ASSUME VadInv, NEW ms \in Nat, NEW fed \in Nat, NEW start \in Int, NEW end \in Int,
           NEW chunks \in Seq(Nat), NEW voiced \in Nat, Closes(ms, fed, start, end, chunks, voiced)
    PROVE  VadInv'
<1> DEFINE n == IF end - start < Len(chunks) THEN end - start ELSE Len(chunks)
           pcm == SubSeq(chunks, 1, n)
<1>1. buf' = <<>> /\ preroll' = <<>> /\ voiced_run' \in Nat
  <2>1. preroll = <<>>
    BY DEF VadInv, InTime, Closes
  <2> QED
    BY <2>1, VadFacts DEF Closes, CloseUtterance, HeldOf
<1>2. /\ speech' \in SpeechState /\ speech'.voiced = 0 /\ speech'.silent = 0
      /\ speech'.on => speech'.start = end
  <2>1. speech' = Quiet \/ speech' = [speech EXCEPT !.start = end, !.voiced = 0, !.silent = 0]
    BY DEF Closes, CloseUtterance, HeldOf
  <2>2. CASE speech' = Quiet
    BY <2>2 DEF Quiet, SpeechState
  <2>3. CASE speech' = [speech EXCEPT !.start = end, !.voiced = 0, !.silent = 0]
    BY <2>3 DEF VadInv, VadTyped, SpeechState
  <2> QED
    BY <2>1, <2>2, <2>3
<1>3. /\ start <= end /\ end <= ms /\ clock' = [ms |-> ms, fed |-> fed] /\ clock.fed <= fed
      /\ voiced > 0 => start < end /\ chunks # <<>>
  BY DEF Closes
<1>n. /\ clock.fed \in Nat /\ MinSpeech \in Nat /\ MinSpeech > 0 /\ cut \in Seq(Utterance)
      /\ \A i \in 1..Len(cut) : cut[i] \in Utterance /\ cut[i].pcm # <<>> /\ cut[i].from < cut[i].to
  BY VadFacts, VadNumbers, CutFacts
<1>t. \A i \in 1..Len(cut) : cut[i].to \in Int /\ cut[i].to <= start /\ cut[i].to <= end
  <2>1. \A i \in 1..Len(cut) : cut[i].to <= start
    BY DEF VadInv, InTime, Closes
  <2>2. \A i \in 1..Len(cut) : cut[i].to \in Int
    BY CutFacts
  <2> QED
    BY <1>3, <2>1, <2>2
<1>f. \A i \in 1..Len(cut) : EndOf(cut[i]) \in Nat /\ EndOf(cut[i]) < fed
  <2>1. \A i \in 1..Len(cut) : EndOf(cut[i]) \in Nat /\ EndOf(cut[i]) < clock.fed
    BY CutFacts
  <2> QED
    BY <1>3, <1>n, <2>1
<1>4. /\ cut' \in Seq(Utterance)
      /\ \A i \in 1..Len(cut') : cut'[i].to <= end /\ cut'[i].pcm # <<>> /\ EndOf(cut'[i]) < fed
      /\ UtterancesApart'
  <2>1. CASE voiced >= MinSpeech
    <3>1. n \in 1..Len(chunks) /\ start < end
      <4>1. voiced > 0
        BY <1>n, <2>1
      <4>2. Len(chunks) \in Nat /\ Len(chunks) > 0 /\ start < end
        BY <1>3, <4>1
      <4> QED
        BY <4>2
    <3>2. PICK new \in {[from |-> start, to |-> end, final |-> TRUE, pcm |-> pcm],
                         [from |-> start, to |-> end, final |-> FALSE, pcm |-> pcm]} : cut' = Append(cut, new)
      BY <2>1 DEF Closes, CloseUtterance, HeldOf
    <3>3. pcm \in Seq(Nat) /\ Len(pcm) = n /\ pcm[1] = chunks[1] /\ pcm[n] = chunks[n]
      <4> HIDE DEF n
      <4> QED
        BY <3>1
    <3>4. new \in Utterance /\ new.to = end /\ new.from = start /\ new.pcm = pcm
      <4> HIDE DEF pcm
      <4>1. CASE new = [from |-> start, to |-> end, final |-> TRUE, pcm |-> pcm]
        BY <3>3, <4>1 DEF Utterance
      <4>2. CASE new = [from |-> start, to |-> end, final |-> FALSE, pcm |-> pcm]
        BY <3>3, <4>2 DEF Utterance
      <4> QED
        BY <3>2, <4>1, <4>2
    <3> HIDE DEF n, pcm
    <3>5. new.pcm # <<>>
      <4>1. pcm # <<>>
        BY <3>1, <3>3
      <4> QED
        BY <3>4, <4>1
    <3>6. EndOf(new) = chunks[n] /\ new.pcm[1] = chunks[1]
      BY <3>1, <3>3, <3>4 DEF EndOf
    <3>7. EndOf(new) < fed /\ \A i \in 1..Len(cut) : cut[i].to <= new.from /\ EndOf(cut[i]) < new.pcm[1]
      <4>1. 1 \in 1..Len(chunks) /\ HeardAfter(chunks, cut, fed)
        BY <3>1 DEF Closes
      <4>2. chunks[n] < fed /\ \A i \in 1..Len(cut) : EndOf(cut[i]) < chunks[1]
        BY <3>1, <4>1 DEF HeardAfter
      <4> QED
        BY <1>t, <3>4, <3>6, <4>2
    <3>8. cut \in Seq(Utterance)
      BY <1>n
    <3>9. cut' \in Seq(Utterance) /\ Len(cut') = Len(cut) + 1 /\ cut'[Len(cut) + 1] = new
          /\ \A i \in 1..Len(cut) : cut'[i] = cut[i]
      BY <3>2, <3>4, <3>8
    <3>10. \A i \in 1..Len(cut') : i \in 1..Len(cut) \/ i = Len(cut) + 1
      BY <3>8, <3>9
    <3>12. \A i \in 1..Len(cut') :
             cut'[i].to <= end /\ cut'[i].pcm # <<>> /\ EndOf(cut'[i]) < fed /\ cut'[i].from < cut'[i].to
      <4>1. \A i \in 1..Len(cut) :
             cut'[i].to <= end /\ cut'[i].pcm # <<>> /\ EndOf(cut'[i]) < fed /\ cut'[i].from < cut'[i].to
        BY <1>n, <1>t, <1>f, <3>9
      <4>2. new.to <= end /\ new.from < new.to
        BY <3>1, <3>4
      <4> QED
        BY <3>5, <3>7, <3>9, <3>10, <4>1, <4>2
    <3>13. ASSUME NEW i \in 1..Len(cut'), NEW j \in 1..Len(cut'), i < j
           PROVE  cut'[i].to <= cut'[j].from /\ EndOf(cut'[i]) < cut'[j].pcm[1]
      <4>1. i \in 1..Len(cut)
        BY <3>8, <3>9, <3>13
      <4>2. CASE j = Len(cut) + 1
        BY <3>7, <3>9, <4>1, <4>2
      <4>3. CASE j \in 1..Len(cut)
        <5>1. cut[i].to <= cut[j].from /\ EndOf(cut[i]) < cut[j].pcm[1]
          BY <3>13, <4>1, <4>3 DEF VadInv, UtterancesApart, EndOf
        <5> QED
          BY <3>9, <4>1, <4>3, <5>1
      <4> QED
        BY <3>10, <4>2, <4>3
    <3>14. UtterancesApart'
      BY <3>12, <3>13 DEF UtterancesApart, EndOf
    <3> QED
      BY <3>9, <3>12, <3>14
  <2>2. CASE ~(voiced >= MinSpeech)
    <3>1. cut' = cut
      BY <2>2 DEF Closes, CloseUtterance, HeldOf
    <3>3. UtterancesApart'
      BY <3>1 DEF VadInv, UtterancesApart
    <3> QED
      BY <1>n, <1>t, <1>f, <3>1, <3>3
  <2> QED
    BY <2>1, <2>2
<1> HIDE DEF n, pcm
<1>5. VadTyped'
  BY <1>1, <1>2, <1>3, <1>4 DEF VadTyped
<1>6. InTime'
  <2>1. \A i \in 1..Len(cut') : cut'[i] \in Utterance
    BY <1>4
  <2>2. \A i \in 1..Len(cut') : cut'[i].to \in Int /\ cut'[i].to <= end
    BY <1>4, <2>1 DEF Utterance
  <2>3. \A i \in 1..Len(cut') : cut'[i].to <= ms
    BY <1>3, <2>2
  <2>4. clock'.ms = ms /\ Len(preroll') = 0 /\ Len(buf') = 0
    BY <1>1, <1>3
  <2>5. CASE speech'.on
    <3>1. speech'.start = end /\ speech'.silent = 0 /\ speech'.voiced = 0
      BY <1>2, <2>5
    <3> QED
      BY <1>1, <1>3, <2>2, <2>4, <2>5, <3>1 DEF InTime
  <2>6. CASE ~speech'.on
    <3>1. \A i \in 1..Len(cut') : cut'[i].to + Len(preroll') <= ms
      BY <2>2, <2>3, <2>4
    <3> QED
      BY <1>1, <2>4, <2>6, <3>1 DEF InTime
  <2> QED
    BY <2>5, <2>6
<1>7. HeldApart'
  BY <1>1 DEF HeldApart, HeardAfter
<1>8. AllHeard'
  BY <1>3, <1>4 DEF AllHeard
<1> QED
  BY <1>4, <1>5, <1>6, <1>7, <1>8 DEF VadInv

\* The utterances stay and the clock goes on.
Ticks(ms, fed) ==
    UNCHANGED cut /\ clock' = [ms |-> ms, fed |-> fed] /\ clock.ms <= ms /\ clock.fed <= fed

LEMMA TickHolds ==
    ASSUME VadInv, NEW ms \in Nat, NEW fed \in Nat, Ticks(ms, fed),
           preroll' \in Seq(Nat), buf' \in Seq(Nat), voiced_run' \in Nat, speech' \in SpeechState, InTime', HeldApart'
    PROVE  VadInv'
<1>1. clock' \in [ms : Nat, fed : Nat] /\ clock'.fed = fed /\ cut' = cut /\ clock.fed <= fed
  BY DEF Ticks
<1>2. VadTyped'
  BY <1>1, VadFacts DEF VadTyped
<1>3. \A i \in 1..Len(cut) : cut[i].pcm # <<>> /\ EndOf(cut[i]) < fed
  <2>1. clock.fed \in Nat /\ clock.fed <= fed
    BY VadFacts DEF Ticks
  <2>2. \A i \in 1..Len(cut) : cut[i].pcm # <<>> /\ EndOf(cut[i]) \in Nat /\ EndOf(cut[i]) < clock.fed
    BY CutFacts
  <2> QED
    BY <2>1, <2>2
<1>5. AllHeard'
  BY <1>1, <1>3 DEF AllHeard
<1>4. UtterancesApart'
  BY <1>1 DEF VadInv, UtterancesApart
<1> QED
  BY <1>2, <1>4, <1>5 DEF VadInv

LEMMA HeldLater ==
    ASSUME NEW c \in Seq(Nat), NEW u, NEW fed \in Nat, NEW later \in Nat, fed <= later, HeardAfter(c, u, fed)
    PROVE  HeardAfter(c, u, later)
<1>1. \A k \in 1..Len(c) : c[k] \in Nat
  OBVIOUS
<1> QED
  BY <1>1 DEF HeardAfter

\* The present utterance, and what came before it, are in time for a clock at t.
InTimeAt(t) ==
    IF speech.on
    THEN /\ \A i \in 1..Len(cut) : cut[i].to <= speech.start
         /\ speech.start + Len(buf) <= t /\ speech.start + speech.silent <= t
         /\ speech.voiced > 0 => buf # <<>> /\ speech.start + speech.silent < t
         /\ preroll = <<>>
    ELSE /\ \A i \in 1..Len(cut) : cut[i].to + Len(preroll) <= t
         /\ buf = <<>>

LEMMA LaterInTime ==
    ASSUME VadInv, NEW ms \in Nat, clock.ms <= ms
    PROVE  InTimeAt(ms)
<1>1. /\ clock.ms \in Nat /\ Len(preroll) \in Nat /\ Len(buf) \in Nat
      /\ speech.start \in Int /\ speech.silent \in Nat
  BY VadFacts
<1>2. \A i \in 1..Len(cut) : cut[i].to \in Int
  BY CutFacts
<1>3. CASE speech.on
  BY <1>1, <1>3 DEF VadInv, InTime, InTimeAt
<1>4. CASE ~speech.on
  BY <1>1, <1>2, <1>4 DEF VadInv, InTime, InTimeAt
<1> QED
  BY <1>3, <1>4

\* The client's clock is ahead.
LEMMA JumpHolds == ASSUME VadInv, ClockJumps PROVE VadInv'
<1>1. PICK ms \in Nat : clock' = [ms |-> ms, fed |-> clock.fed] /\ clock.ms <= ms
  <2>1. PICK gap \in 1..MaxGap : clock' = [clock EXCEPT !.ms = clock.fed + Preroll + gap]
    BY DEF ClockJumps
  <2>2. clock.fed + Preroll + gap \in Nat
    BY VadFacts, VadNumbers
  <2>3. clock \in [ms : Nat, fed : Nat] /\ clock.ms < clock'.ms
    BY VadFacts DEF ClockJumps
  <2> DEFINE t == clock.fed + Preroll + gap
  <2>4. t \in Nat /\ clock' = [clock EXCEPT !.ms = t]
    BY <2>1, <2>2
  <2> HIDE DEF t
  <2>5. clock' = [ms |-> t, fed |-> clock.fed] /\ clock.ms < t
    BY <2>3, <2>4
  <2>6. clock.ms <= t
    <3>1. clock.ms \in Nat
      BY <2>3
    <3> QED
      BY <2>4, <2>5, <3>1
  <2> QED
    BY <2>4, <2>5, <2>6
<1>2. UNCHANGED <<preroll, voiced_run, speech, buf, cut>>
  BY DEF ClockJumps
<1>3. Ticks(ms, clock.fed) /\ clock.fed \in Nat
  BY <1>1, <1>2, VadFacts DEF Ticks
<1>4. HeldApart'
  BY <1>1, <1>2 DEF VadInv, HeldApart, HeardAfter
<1>5. InTimeAt(ms)
  BY <1>1, LaterInTime
<1>6. InTime'
  BY <1>1, <1>2, <1>5 DEF InTime, InTimeAt
<1>7. preroll' \in Seq(Nat) /\ buf' \in Seq(Nat) /\ voiced_run' \in Nat /\ speech' \in SpeechState
  BY <1>2, VadFacts
<1> QED
  BY <1>3, <1>4, <1>6, <1>7, TickHolds

\* The next chunk is the one numbered n.
Feeds(n, ms, fed) == clock.fed = n /\ fed = n + 1 /\ ms = clock.ms + 1 /\ clock' = [ms |-> ms, fed |-> fed]

\* What is held while nobody speaks.
LEMMA NewestHeld ==
    ASSUME VadInv, NEW n \in Nat, clock.fed = n
    PROVE  \E h \in Seq(Nat) :
             /\ h = Newest(Append(preroll, clock.fed), Preroll) /\ HeardAfter(h, cut, n + 1)
             /\ Len(h) \in Nat /\ Len(h) > 0 /\ Len(h) <= Len(preroll) + 1
<1> DEFINE more == Append(preroll, n)
           h == Newest(more, Preroll)
<1>1. more \in Seq(Nat) /\ more # <<>> /\ Len(more) = Len(preroll) + 1
  <2>1. preroll \in Seq(Nat)
    BY VadFacts
  <2> QED
    BY <2>1
<1>2. HeardAfter(more, cut, n + 1)
  <2>1. HeardAfter(preroll, cut, n) /\ \A i \in 1..Len(cut) : EndOf(cut[i]) < n
    BY DEF VadInv, HeldApart, AllHeard
  <2>2. preroll \in Seq(Nat) /\ cut \in Seq(Utterance)
    BY VadFacts
  <2> QED
    BY <2>1, <2>2, HeardAfterAppend
<1> HIDE DEF more
<1>3. /\ h \in Seq(Nat) /\ Len(h) <= Len(more) /\ h # <<>>
      /\ \A k \in 1..Len(h) : \E j \in 1..Len(more) : h[k] = more[j]
  BY <1>1, NewestIs, VadNumbers
<1>4. h = Newest(Append(preroll, clock.fed), Preroll)
  BY DEF more
<1> HIDE DEF h
<1>5. HeardAfter(h, cut, n + 1)
  BY <1>2, <1>3 DEF HeardAfter
<1>6. Len(h) \in Nat /\ Len(h) > 0
  BY <1>3
<1> QED
  BY <1>1, <1>3, <1>4, <1>5, <1>6

\* A chunk is heard while nobody speaks.
LEMMA SilenceHolds ==
    ASSUME VadInv, NEW v \in BOOLEAN, StepQuiet(v),
           NEW n \in Nat, NEW ms \in Nat, NEW fed \in Nat, Feeds(n, ms, fed)
    PROVE  VadInv'
<1>1. PICK h \in Seq(Nat) :
        /\ h = Newest(Append(preroll, clock.fed), Preroll) /\ HeardAfter(h, cut, n + 1)
        /\ Len(h) \in Nat /\ Len(h) > 0 /\ Len(h) <= Len(preroll) + 1
  BY NewestHeld DEF Feeds
<1>2. PICK run \in {0, voiced_run + 1} :
        /\ voiced_run' = run
        /\ \/ preroll' = h /\ UNCHANGED <<speech, buf>>
           \/ /\ preroll' = <<>> /\ buf' = h
              /\ speech' = [on |-> TRUE, start |-> clock.ms + 1 - Len(h), voiced |-> run, silent |-> 0]
  BY <1>1 DEF StepQuiet
<1>3. run \in Nat
  BY <1>2, VadFacts
<1>4. Ticks(ms, fed)
  BY VadFacts DEF Ticks, Feeds, StepQuiet
<1>5. /\ buf = <<>> /\ ~speech.on
      /\ \A i \in 1..Len(cut) : cut[i].to \in Int /\ cut[i].to + Len(preroll) <= clock.ms
  BY CutFacts DEF VadInv, InTime, StepQuiet
<1>6. \A i \in 1..Len(cut) : cut[i].to + Len(h) <= ms
  <2>1. Len(preroll) \in Nat /\ clock.ms \in Nat /\ ms = clock.ms + 1
    BY VadFacts DEF Feeds
  <2> QED
    BY <1>1, <1>5, <2>1, SMTT(30)
<1>7. clock'.ms = ms /\ clock'.fed = fed /\ cut' = cut /\ HeardAfter(h, cut, fed)
  BY <1>1 DEF Feeds, StepQuiet
<1>8. CASE preroll' = h /\ UNCHANGED <<speech, buf>>
  <2>1. InTime'
    BY <1>5, <1>6, <1>7, <1>8 DEF InTime
  <2>2. HeldApart'
    BY <1>5, <1>7, <1>8 DEF HeldApart, HeardAfter
  <2>3. preroll' \in Seq(Nat) /\ buf' \in Seq(Nat) /\ voiced_run' \in Nat /\ speech' \in SpeechState
    BY <1>1, <1>2, <1>3, <1>8, VadFacts
  <2> QED
    BY <1>4, <2>1, <2>2, <2>3, TickHolds
<1>9. CASE /\ preroll' = <<>> /\ buf' = h
           /\ speech' = [on |-> TRUE, start |-> clock.ms + 1 - Len(h), voiced |-> run, silent |-> 0]
  <2>1. PICK start \in Int : start = clock.ms + 1 - Len(h) /\ start = ms - Len(h)
    <3>1. clock.ms \in Nat /\ ms = clock.ms + 1 /\ Len(h) \in Nat
      BY <1>1, VadFacts DEF Feeds
    <3> QED
      BY <3>1, SMTT(30)
  <2>2. speech' = [on |-> TRUE, start |-> start, voiced |-> run, silent |-> 0]
    BY <1>9, <2>1
  <2>3. start + Len(h) <= ms /\ start + 0 <= ms /\ start + 0 < ms /\ \A i \in 1..Len(cut) : cut[i].to <= start
    BY <1>1, <1>5, <1>6, <2>1, SMTT(30)
  <2>4. speech' \in SpeechState /\ speech'.on /\ speech'.start = start /\ speech'.silent = 0
    BY <1>3, <2>2 DEF SpeechState
  <2>5. InTime'
    <3>1. h # <<>>
      BY <1>1
    <3> QED
      BY <1>7, <1>9, <2>3, <2>4, <3>1 DEF InTime
  <2>6. HeldApart'
    BY <1>7, <1>9 DEF HeldApart, HeardAfter
  <2>7. preroll' \in Seq(Nat) /\ buf' \in Seq(Nat) /\ voiced_run' \in Nat
    BY <1>1, <1>2, <1>3, <1>9
  <2> QED
    BY <1>4, <2>4, <2>5, <2>6, <2>7, TickHolds
<1> QED
  BY <1>2, <1>8, <1>9

\* A chunk of somebody who speaks, or falls silent.
LEMMA SpeechHolds ==
    ASSUME VadInv, NEW v \in BOOLEAN, StepSpeech(v),
           NEW n \in Nat, NEW ms \in Nat, NEW fed \in Nat, Feeds(n, ms, fed)
    PROVE  VadInv'
<1> DEFINE chunks == Append(buf, n)
<1>1. PICK spoken \in {speech.voiced, speech.voiced + 1}, silent \in {0, speech.silent + 1} :
        /\ spoken = (speech.voiced + (IF v THEN 1 ELSE 0)) /\ silent = (IF v THEN 0 ELSE speech.silent + 1)
        /\ silent = 0 \/ (silent = speech.silent + 1 /\ spoken = speech.voiced)
  BY VadFacts
<1>2. /\ speech.start \in Int /\ speech.voiced \in Nat /\ speech.silent \in Nat /\ Len(buf) \in Nat
      /\ buf \in Seq(Nat) /\ cut \in Seq(Utterance) /\ spoken \in Nat /\ silent \in Nat /\ clock.ms \in Nat
  BY <1>1, VadFacts
<1>3. /\ ms = clock.ms + 1 /\ clock.fed = n /\ fed = n + 1 /\ clock' = [ms |-> ms, fed |-> fed]
  BY DEF Feeds
<1>4. /\ speech.on /\ UNCHANGED preroll
      /\ \/ silent >= EndSilence /\ CloseUtterance(ms - silent, chunks, spoken, TRUE)
         \/ CloseUtterance(ms, chunks, spoken, FALSE)
         \/ /\ speech' = [speech EXCEPT !.voiced = spoken, !.silent = silent]
            /\ buf' = chunks /\ UNCHANGED <<voiced_run, cut>>
  BY <1>1, <1>3 DEF StepSpeech
<1>5. chunks \in Seq(Nat) /\ HeardAfter(chunks, cut, fed) /\ chunks # <<>> /\ Len(chunks) = Len(buf) + 1
  <2>1. HeardAfter(buf, cut, n) /\ \A i \in 1..Len(cut) : EndOf(cut[i]) < n
    BY <1>3 DEF VadInv, HeldApart, AllHeard
  <2>2. HeardAfter(chunks, cut, fed)
    BY <1>2, <1>3, <2>1, HeardAfterAppend
  <2> QED
    BY <1>2, <2>2
<1> HIDE DEF chunks
<1>6. /\ \A i \in 1..Len(cut) : cut[i].to <= speech.start
      /\ speech.start + Len(buf) <= clock.ms /\ speech.start + speech.silent <= clock.ms
      /\ speech.voiced > 0 => speech.start + speech.silent < clock.ms
      /\ preroll = <<>>
  BY <1>4 DEF VadInv, InTime
<1>7. speech.start + silent <= ms /\ (spoken > 0 => speech.start + silent < ms)
  <2>1. CASE silent = 0
    BY <1>2, <1>3, <1>6, <2>1
  <2>2. CASE silent = speech.silent + 1 /\ spoken = speech.voiced
    BY <1>2, <1>3, <1>6, <2>2, SMTT(30)
  <2> QED
    BY <1>1, <2>1, <2>2
<1>8. CASE \/ silent >= EndSilence /\ CloseUtterance(ms - silent, chunks, spoken, TRUE)
           \/ CloseUtterance(ms, chunks, spoken, FALSE)
  <2>1. PICK start \in Int, end \in Int, final \in BOOLEAN :
          /\ start = speech.start /\ (end = ms - silent \/ end = ms)
          /\ CloseUtterance(end, chunks, spoken, final)
    <3>1. ms - silent \in Int
      BY <1>2
    <3>2. speech.start \in Int /\ ms \in Int /\ TRUE \in BOOLEAN /\ FALSE \in BOOLEAN
      BY <1>2
    <3>3. CASE CloseUtterance(ms - silent, chunks, spoken, TRUE)
      BY <3>1, <3>2, <3>3, Zenon
    <3>4. CASE CloseUtterance(ms, chunks, spoken, FALSE)
      BY <3>2, <3>4, Zenon
    <3> QED
      BY <1>8, <3>3, <3>4
  <2>2. start <= end /\ end <= ms /\ (spoken > 0 => start < end)
    BY <1>2, <1>7, <2>1, SMTT(30)
  <2>3. clock.fed <= fed
    BY <1>3
  <2>4. Closes(ms, fed, start, end, chunks, spoken)
    BY <1>3, <1>4, <1>5, <2>1, <2>2, <2>3 DEF Closes
  <2> QED
    BY <1>2, <1>5, <2>4, CloseHolds
<1>9. CASE /\ speech' = [speech EXCEPT !.voiced = spoken, !.silent = silent]
           /\ buf' = chunks /\ UNCHANGED <<voiced_run, cut>>
  <2>1. Ticks(ms, fed)
    BY <1>2, <1>3, <1>9 DEF Ticks
  <2>2. speech' \in SpeechState /\ speech'.on /\ speech'.start = speech.start /\ speech'.silent = silent
        /\ speech'.voiced = spoken
    BY <1>2, <1>4, <1>9, VadFacts DEF SpeechState
  <2>3. speech.start + Len(chunks) <= ms
    BY <1>2, <1>3, <1>5, <1>6
  <2>4. InTime'
    BY <1>3, <1>4, <1>5, <1>6, <1>7, <1>9, <2>2, <2>3 DEF InTime
  <2>5. HeldApart'
    BY <1>3, <1>4, <1>5, <1>6, <1>9 DEF HeldApart, HeardAfter
  <2>6. preroll' \in Seq(Nat) /\ buf' \in Seq(Nat) /\ voiced_run' \in Nat
    BY <1>4, <1>5, <1>9, VadFacts
  <2> QED
    BY <2>1, <2>2, <2>4, <2>5, <2>6, TickHolds
<1> QED
  BY <1>4, <1>8, <1>9

\* A pause, a typed answer or the end closes what is being said.
LEMMA FlushHolds == ASSUME VadInv, Flush PROVE VadInv'
<1>1. buf \in Seq(Nat) /\ speech.start \in Int /\ speech.voiced \in Nat /\ clock \in [ms : Nat, fed : Nat]
  BY VadFacts
<1>2. /\ speech.start + Len(buf) <= clock.ms
      /\ speech.voiced > 0 => buf # <<>>
      /\ HeardAfter(buf, cut, clock.fed)
  BY DEF VadInv, InTime, Flush, HeldApart
<1>3. /\ speech.on /\ UNCHANGED <<clock, preroll>>
      /\ CloseUtterance(speech.start + Len(buf), buf, speech.voiced, TRUE)
  BY DEF Flush
<1>4. PICK long \in Nat : long = Len(buf) /\ (buf # <<>> => long > 0)
  BY <1>1
<1>5. PICK end \in Int : end = speech.start + long /\ speech.start <= end /\ (long > 0 => speech.start < end)
  <2>1. \A x \in Int, y \in Nat : x + y \in Int /\ x <= x + y /\ (y > 0 => x < x + y)
    OBVIOUS
  <2>2. /\ speech.start + long \in Int /\ speech.start <= speech.start + long
        /\ long > 0 => speech.start < speech.start + long
    BY <1>1, <2>1
  <2> QED
    BY <2>2, Zenon
<1>6. speech.start <= end /\ (speech.voiced > 0 => speech.start < end)
  BY <1>2, <1>4, <1>5, Zenon
<1>7. end <= clock.ms /\ CloseUtterance(end, buf, speech.voiced, TRUE)
  BY <1>2, <1>3, <1>4, <1>5, Zenon
<1>n. clock.fed <= clock.fed
  BY <1>1
<1>8. clock' = [ms |-> clock.ms, fed |-> clock.fed] /\ clock.ms \in Nat /\ clock.fed \in Nat
  BY <1>1, <1>3
<1>9. Closes(clock.ms, clock.fed, speech.start, end, buf, speech.voiced)
  BY <1>2, <1>3, <1>4, <1>6, <1>7, <1>8, <1>n DEF Closes
<1> QED
  BY <1>1, <1>8, <1>9, CloseHolds

LEMMA FeedHolds == ASSUME VadInv, Feed PROVE VadInv'
<1>1. PICK n \in Nat, ms \in Nat, fed \in Nat :
        n = clock.fed /\ ms = clock.ms + 1 /\ fed = clock.fed + 1
  <2>1. clock.ms \in Nat /\ clock.fed \in Nat
    BY VadFacts
  <2>2. clock.ms + 1 \in Nat /\ clock.fed + 1 \in Nat
    BY <2>1
  <2> QED
    BY <2>1, <2>2
<1>2. Feeds(n, ms, fed)
  BY <1>1 DEF Feeds, Feed
<1>3. PICK v \in BOOLEAN : StepQuiet(v) \/ StepSpeech(v)
  BY DEF Feed
<1> QED
  BY <1>2, <1>3, SilenceHolds, SpeechHolds

LEMMA VadStarts == ASSUME VadInit PROVE VadInv
<1>1. Preroll \in Nat /\ Quiet \in SpeechState /\ Quiet.on = FALSE /\ Len(<<>>) = 0
  BY VadNumbers DEF Quiet, SpeechState
<1>2. clock = [ms |-> Preroll, fed |-> 0] /\ cut = <<>> /\ preroll = <<>> /\ buf = <<>> /\ voiced_run = 0 /\ speech = Quiet
  BY DEF VadInit
<1>3. VadTyped
  BY <1>1, <1>2 DEF VadTyped
<1>4. InTime
  BY <1>1, <1>2 DEF InTime
<1>5. HeldApart /\ AllHeard
  BY <1>2 DEF HeldApart, HeardAfter, AllHeard
<1>6. UtterancesApart
  BY <1>2 DEF UtterancesApart
<1> QED
  BY <1>3, <1>4, <1>5, <1>6 DEF VadInv

LEMMA VadStep == ASSUME VadInv, [VadNext]_vadvars PROVE VadInv'
<1>1. CASE UNCHANGED vadvars
  BY <1>1 DEF vadvars, VadInv, VadTyped, InTime, HeldApart, HeardAfter, AllHeard, EndOf, UtterancesApart
<1>2. CASE VadNext
  BY <1>2, JumpHolds, FeedHolds, FlushHolds DEF VadNext
<1> QED
  BY <1>1, <1>2

\* What is heard is transcribed once and in order (vad.py:7), for any lengths
\* of speech and silence and wherever the client's clock jumps.
THEOREM UtterancesStayApart == VadSpec => []UtterancesApart
<1>1. VadInit => VadInv
  BY VadStarts
<1>2. VadInv /\ [VadNext]_vadvars => VadInv'
  BY VadStep
<1>3. VadInv => UtterancesApart
  BY DEF VadInv
<1> QED
  BY <1>1, <1>2, <1>3, PTL DEF VadSpec

-----------------------------------------------------------------------------
(***************************************************************************)
(* A question of the copilot is stored once and before its suggestions, for *)
(* any number of cards, answers and utterances.                             *)
(*                                                                          *)
(* The argument: a card is marked exactly when its question is among the    *)
(* rows, every card a task or an answer works with was made, and a card     *)
(* that is made was never made before; so whoever stores a suggestion finds *)
(* the mark or stores the question with it.                                 *)
(***************************************************************************)

States == {"shown", "interrupted", "dismissed"}
Words == {"question", "statement", "addressed", "followup", "chat", "longer"}
CardRecord == [made : BOOLEAN, long : BOOLEAN, persisted : BOOLEAN, state : States, utt : Nat,
               parent : Cards \cup {Nothing}]
TaskRecord == [pc : {"idle", "new", "show", "start", "record", "asking", "drop"}, card : Cards \cup {Nothing},
               text : Words, utt : Nat]
AnswerRecord == [pc : {"off", "streaming", "tail", "done"}, card : Cards \cup {Nothing}, parts : BOOLEAN]
LogRow == [kind : {"question", "suggestion"}, card : Cards, state : States]

Known(cards, c) == c \in Cards /\ cards[c].made

TasksKnow(tasks, cards) ==
    /\ tasks \in [Actors -> TaskRecord]
    /\ \A t \in Actors : tasks[t].pc \in {"start", "record", "drop"} => Known(cards, tasks[t].card)
AnswersKnow(answers, g, cards) ==
    /\ answers \in [Answers -> AnswerRecord] /\ g \in Answers \cup {Nothing}
    /\ g # Nothing => answers[g].pc # "off"
    /\ \A a \in Answers : answers[a].pc # "off" => Known(cards, answers[a].card)

\* A question of the card c is among the rows l.
Asked(l, c) == \E i \in 1..Len(l) : l[i].kind = "question" /\ l[i].card = c

\* A question is stored once, and before its suggestions.
Ordered(l) ==
    \A i \in 1..Len(l) :
        /\ l[i].kind = "question" => \A j \in 1..(i - 1) : l[j].kind # "question" \/ l[j].card # l[i].card
        /\ l[i].kind = "suggestion" => \E j \in 1..(i - 1) : l[j].kind = "question" /\ l[j].card = l[i].card

\* A card is marked when, and only when, its question is stored.
Stored(cards, l) ==
    /\ cards \in [Cards -> CardRecord] /\ l \in Seq(LogRow) /\ Ordered(l)
    /\ \A c \in Cards : cards[c].persisted => Asked(l, c)
    /\ \A c \in Cards : Asked(l, c) => cards[c].persisted /\ cards[c].made

CInv ==
    /\ Stored(card, log) /\ TasksKnow(task, card) /\ AnswersKnow(answer, ogen, card)
    /\ last # Nothing => Known(card, last)
    /\ heard \in Nat /\ oscene \in CopilotScene

LEMMA NatMin ==
    ASSUME NEW S, S \subseteq Nat, S # {}
    PROVE  \E x \in S : \A y \in S : x <= y
<1>1. IsWellFoundedOn(OpToRel(<, Nat), Nat)
  BY NatLessThanWellFounded
<1>2. PICK x \in S : \A y \in S : <<y, x>> \notin OpToRel(<, Nat)
  BY <1>1, WFMin
<1>3. \A y \in S : ~(y < x)
  BY <1>2 DEF OpToRel
<1> QED
  BY <1>3

LEMMA NextCardIsFree == FreeCards # {} => NextCard \in FreeCards
<1>1. FreeCards \subseteq Nat
  BY DEF FreeCards, Cards
<1>2. ASSUME FreeCards # {} PROVE NextCard \in FreeCards
  <2>1. \E c \in FreeCards : \A d \in FreeCards : c <= d
    BY <1>1, <1>2, NatMin
  <2> QED
    BY <2>1 DEF NextCard
<1> QED
  BY <1>2

LEMMA NextAnswerIsFree == FreeAnswers # {} => NextAnswer \in FreeAnswers
<1>1. FreeAnswers \subseteq Nat
  BY DEF FreeAnswers
<1>2. ASSUME FreeAnswers # {} PROVE NextAnswer \in FreeAnswers
  <2>1. \E a \in FreeAnswers : \A b \in FreeAnswers : a <= b
    BY <1>1, <1>2, NatMin
  <2> QED
    BY <2>1 DEF NextAnswer
<1> QED
  BY <1>2

LEMMA NothingIsNone == Nothing \notin Answers /\ Nothing \notin Cards
  BY DEF Nothing, Answers, Cards

LEMMA RowsGrow ==
    ASSUME NEW l \in Seq(LogRow), NEW row \in LogRow
    PROVE  /\ l \o <<row>> \in Seq(LogRow) /\ Len(l \o <<row>>) = Len(l) + 1 /\ Len(l) \in Nat
           /\ (l \o <<row>>)[Len(l) + 1] = row
           /\ \A i \in 1..Len(l) : (l \o <<row>>)[i] = l[i]
  OBVIOUS

\* The question of a card that has none is stored last.
LEMMA QuestionLast ==
    ASSUME NEW l \in Seq(LogRow), Ordered(l), NEW c \in Cards, ~Asked(l, c), NEW st \in States,
           NEW m, m = l \o <<Row("question", c, st)>>
    PROVE  m \in Seq(LogRow) /\ Ordered(m) /\ Asked(m, c) /\ \A d \in Cards : d # c => (Asked(m, d) <=> Asked(l, d))
<1> DEFINE row == Row("question", c, st)
           n == Len(l) + 1
<1>1. row \in LogRow /\ row.kind = "question" /\ row.card = c
  BY DEF Row, LogRow
<1> HIDE DEF row
<1>2. m \in Seq(LogRow) /\ Len(m) = n /\ Len(l) \in Nat /\ m[n] = row /\ \A i \in 1..Len(l) : m[i] = l[i]
  BY <1>1, RowsGrow DEF row
<1>3. Ordered(m)
  <2> SUFFICES ASSUME NEW i \in 1..Len(m)
               PROVE  /\ m[i].kind = "question" => \A j \in 1..(i - 1) : m[j].kind # "question" \/ m[j].card # m[i].card
                      /\ m[i].kind = "suggestion" => \E j \in 1..(i - 1) : m[j].kind = "question" /\ m[j].card = m[i].card
    BY DEF Ordered
  <2>1. \A j \in 1..(i - 1) : j \in 1..Len(l) /\ m[j] = l[j]
    BY <1>2
  <2>2. CASE i \in 1..Len(l)
    <3>1. /\ l[i].kind = "question" => \A j \in 1..(i - 1) : l[j].kind # "question" \/ l[j].card # l[i].card
          /\ l[i].kind = "suggestion" => \E j \in 1..(i - 1) : l[j].kind = "question" /\ l[j].card = l[i].card
      BY <2>2 DEF Ordered
    <3>2. m[i] = l[i]
      BY <1>2, <2>2
    <3> QED
      BY <2>1, <3>1, <3>2
  <2>3. CASE i = n
    BY <1>1, <1>2, <2>1, <2>3 DEF Asked
  <2> QED
    BY <1>2, <2>2, <2>3
<1>4. Asked(m, c)
  <2>1. n \in 1..Len(m)
    BY <1>2
  <2> QED
    BY <1>1, <1>2, <2>1 DEF Asked
<1>5. ASSUME NEW d \in Cards, d # c PROVE Asked(m, d) <=> Asked(l, d)
  <2>1. \A i \in 1..Len(m) : i = n \/ i \in 1..Len(l)
    BY <1>2
  <2>2. \A i \in 1..Len(l) : i \in 1..Len(m)
    BY <1>2
  <2> QED
    BY <1>1, <1>2, <1>5, <2>1, <2>2 DEF Asked
<1> QED
  BY <1>2, <1>3, <1>4, <1>5

\* A suggestion follows the question it is for.
LEMMA SuggestionLast ==
    ASSUME NEW l \in Seq(LogRow), Ordered(l), NEW c \in Cards, Asked(l, c), NEW st \in States,
           NEW m, m = l \o <<Row("suggestion", c, st)>>
    PROVE  m \in Seq(LogRow) /\ Ordered(m) /\ \A d \in Cards : Asked(m, d) <=> Asked(l, d)
<1> DEFINE row == Row("suggestion", c, st)
           n == Len(l) + 1
<1>1. row \in LogRow /\ row.kind = "suggestion" /\ row.card = c
  BY DEF Row, LogRow
<1> HIDE DEF row
<1>2. m \in Seq(LogRow) /\ Len(m) = n /\ Len(l) \in Nat /\ m[n] = row /\ \A i \in 1..Len(l) : m[i] = l[i]
  BY <1>1, RowsGrow DEF row
<1>3. Ordered(m)
  <2> SUFFICES ASSUME NEW i \in 1..Len(m)
               PROVE  /\ m[i].kind = "question" => \A j \in 1..(i - 1) : m[j].kind # "question" \/ m[j].card # m[i].card
                      /\ m[i].kind = "suggestion" => \E j \in 1..(i - 1) : m[j].kind = "question" /\ m[j].card = m[i].card
    BY DEF Ordered
  <2>1. \A j \in 1..(i - 1) : j \in 1..Len(l) /\ m[j] = l[j]
    BY <1>2
  <2>2. CASE i \in 1..Len(l)
    <3>1. /\ l[i].kind = "question" => \A j \in 1..(i - 1) : l[j].kind # "question" \/ l[j].card # l[i].card
          /\ l[i].kind = "suggestion" => \E j \in 1..(i - 1) : l[j].kind = "question" /\ l[j].card = l[i].card
      BY <2>2 DEF Ordered
    <3>2. m[i] = l[i]
      BY <1>2, <2>2
    <3> QED
      BY <2>1, <3>1, <3>2
  <2>3. CASE i = n
    <3>1. PICK j \in 1..Len(l) : l[j].kind = "question" /\ l[j].card = c
      BY DEF Asked
    <3>2. j \in 1..(i - 1)
      BY <1>2, <2>3
    <3> QED
      BY <1>1, <1>2, <2>1, <2>3, <3>1, <3>2
  <2> QED
    BY <1>2, <2>2, <2>3
<1>4. ASSUME NEW d \in Cards PROVE Asked(m, d) <=> Asked(l, d)
  <2>1. \A i \in 1..Len(m) : i = n \/ i \in 1..Len(l)
    BY <1>2
  <2>2. \A i \in 1..Len(l) : i \in 1..Len(m)
    BY <1>2
  <2> QED
    BY <1>1, <1>2, <2>1, <2>2 DEF Asked
<1> QED
  BY <1>2, <1>3, <1>4

\* What a card shows changes, not whether it is made or its question stored.
Alike(cards) ==
    /\ cards \in [Cards -> CardRecord]
    /\ \A d \in Cards : (cards[d].made <=> card[d].made) /\ (cards[d].persisted <=> card[d].persisted)

LEMMA MarkedIs ==
    ASSUME NEW cards \in [Cards -> CardRecord], NEW c \in Cards
    PROVE  /\ Marked(c, cards) \in [Cards -> CardRecord]
           /\ \A d \in Cards : /\ Marked(c, cards)[d].made <=> cards[d].made
                               /\ Marked(c, cards)[d].persisted <=> (d = c \/ cards[d].persisted)
  BY DEF Marked, CardRecord

LEMMA QuestionStored ==
    ASSUME Stored(card, log), NEW c \in Cards, card[c].made, NEW cards, Alike(cards),
           NEW l, l = log \o QuestionRow(c)
    PROVE  /\ Stored(Marked(c, cards), l) /\ Asked(l, c)
           /\ \A d \in Cards : Marked(c, cards)[d].made <=> card[d].made
<1>1. /\ Marked(c, cards) \in [Cards -> CardRecord]
      /\ \A d \in Cards : /\ Marked(c, cards)[d].made <=> card[d].made
                          /\ Marked(c, cards)[d].persisted <=> (d = c \/ card[d].persisted)
  BY MarkedIs DEF Alike
<1>2. log \in Seq(LogRow) /\ Ordered(log)
  BY DEF Stored
<1>3. CASE card[c].persisted
  <2>1. l = log
    BY <1>2, <1>3 DEF QuestionRow
  <2>2. Asked(l, c)
    BY <1>3, <2>1 DEF Stored
  <2> QED
    BY <1>1, <1>2, <2>1, <2>2 DEF Stored
<1>4. CASE ~card[c].persisted
  <2>1. l = log \o <<Row("question", c, "shown")>> /\ ~Asked(log, c)
    BY <1>4 DEF QuestionRow, Stored
  <2>2. l \in Seq(LogRow) /\ Ordered(l) /\ Asked(l, c) /\ \A d \in Cards : d # c => (Asked(l, d) <=> Asked(log, d))
    BY <1>2, <2>1, QuestionLast DEF States
  <2> QED
    BY <1>1, <2>2 DEF Stored
<1> QED
  BY <1>3, <1>4

LEMMA SuggestionStored ==
    ASSUME NEW cards, NEW l, Stored(cards, l), NEW c \in Cards, Asked(l, c), NEW st \in States
    PROVE  Stored(cards, l \o <<Row("suggestion", c, st)>>)
<1>1. l \in Seq(LogRow) /\ Ordered(l)
  BY DEF Stored
<1>2. \A m : m = l \o <<Row("suggestion", c, st)>>
          => m \in Seq(LogRow) /\ Ordered(m) /\ \A d \in Cards : Asked(m, d) <=> Asked(l, d)
  BY <1>1, SuggestionLast
<1>3. \A m : m = l \o <<Row("suggestion", c, st)>> => Stored(cards, m)
  BY <1>2 DEF Stored
<1> QED
  BY <1>3

\* Cards that stay made are known as before.
LEMMA StillKnown ==
    ASSUME NEW cards, \A d \in Cards : card[d].made => cards[d].made, CInv
    PROVE  /\ TasksKnow(task, cards) /\ AnswersKnow(answer, ogen, cards)
           /\ last # Nothing => Known(cards, last)
  BY DEF CInv, TasksKnow, AnswersKnow, Known

LEMMA CutHolds ==
    ASSUME NEW cards, AnswersKnow(answer, ogen, cards), NEW a \in Answers, answer[a].pc # "off",
           NEW g \in Answers \cup {Nothing}, g \in {Nothing, ogen}
    PROVE  AnswersKnow(AnswerCut(a), g, cards)
  BY DEF AnswersKnow, AnswerCut, AnswerRecord

LEMMA InterruptedHolds ==
    ASSUME CInv, NEW a \in Answers, answer[a].pc # "off", NEW st \in States, Interrupted(a, st)
    PROVE  /\ Stored(card', log') /\ AnswersKnow(answer', ogen', card')
           /\ \A d \in Cards : card'[d].made <=> card[d].made
<1> DEFINE c == answer[a].card
           cards == [card EXCEPT ![c].state = st]
           l == log \o QuestionRow(c)
<1>1. c \in Cards /\ card[c].made /\ Stored(card, log) /\ card \in [Cards -> CardRecord]
  BY DEF CInv, AnswersKnow, Known, Stored
<1>2. /\ answer' = AnswerCut(a) /\ ogen' = Nothing
      /\ IF answer[a].parts THEN card' = Marked(c, cards) /\ log' = l \o <<Row("suggestion", c, st)>>
         ELSE card' = cards /\ log' = log
  BY DEF Interrupted
<1> HIDE DEF c
<1>3. Alike(cards)
  BY <1>1 DEF Alike, CardRecord
<1> HIDE DEF cards
<1>4. /\ Stored(Marked(c, cards), l) /\ Asked(l, c)
      /\ \A d \in Cards : Marked(c, cards)[d].made <=> card[d].made
  BY <1>1, <1>3, QuestionStored
<1> HIDE DEF l
<1>5. Stored(Marked(c, cards), l \o <<Row("suggestion", c, st)>>)
  BY <1>1, <1>4, SuggestionStored
<1>6. Stored(cards, log)
  BY <1>1, <1>3 DEF Stored, Alike
<1>7. Stored(card', log') /\ \A d \in Cards : card'[d].made <=> card[d].made
  BY <1>2, <1>3, <1>4, <1>5, <1>6 DEF Alike
<1>8. AnswersKnow(answer, ogen, card')
  BY <1>7, StillKnown
<1>9. AnswersKnow(AnswerCut(a), Nothing, card')
  BY <1>8, CutHolds
<1> QED
  BY <1>2, <1>7, <1>9

Carries(pc) == pc \in {"start", "record", "drop"}

LEMMA TaskSet ==
    ASSUME NEW cards, TasksKnow(task, cards), NEW t \in Actors, NEW new \in TaskRecord,
           Carries(new.pc) => Known(cards, new.card)
    PROVE  TasksKnow([task EXCEPT ![t] = new], cards)
  BY DEF TasksKnow, Carries

LEMMA TaskMoves ==
    ASSUME NEW cards, TasksKnow(task, cards), NEW t \in Actors,
           NEW pc \in {"idle", "new", "show", "start", "record", "asking", "drop"},
           Carries(pc) => Known(cards, task[t].card)
    PROVE  TasksKnow([task EXCEPT ![t].pc = pc], cards)
<1> DEFINE new == [task[t] EXCEPT !.pc = pc]
<1>1. task[t] \in TaskRecord /\ [task EXCEPT ![t].pc = pc] = [task EXCEPT ![t] = new]
  BY DEF TasksKnow
<1>2. new \in TaskRecord /\ new.pc = pc /\ new.card = task[t].card
  BY <1>1 DEF TaskRecord
<1> HIDE DEF new
<1> QED
  BY <1>1, <1>2, TaskSet

LEMMA TaskStops ==
    ASSUME NEW cards, TasksKnow(task, cards), NEW t \in Actors
    PROVE  TasksKnow([task EXCEPT ![t] = NoTask], cards)
<1>1. NoTask \in TaskRecord /\ ~Carries(NoTask.pc)
  BY DEF NoTask, TaskRecord, Words, Carries
<1> QED
  BY <1>1, TaskSet

\* A task takes up a question of an utterance.
LEMMA TaskTakes ==
    ASSUME NEW cards, TasksKnow(task, cards), NEW t \in Actors, NEW pc \in {"new", "asking"}, NEW w \in Words,
           heard \in Nat
    PROVE  /\ TasksKnow([task EXCEPT ![t] = [NoTask EXCEPT !.pc = pc, !.utt = heard]], cards)
           /\ TasksKnow([task EXCEPT ![t] = [NoTask EXCEPT !.pc = pc, !.text = w, !.utt = heard]], cards)
<1> DEFINE one == [NoTask EXCEPT !.pc = pc, !.utt = heard]
           two == [NoTask EXCEPT !.pc = pc, !.text = w, !.utt = heard]
<1>1. one \in TaskRecord /\ one.pc = pc
  BY DEF NoTask, TaskRecord, Words
<1>2. two \in TaskRecord /\ two.pc = pc
  BY DEF NoTask, TaskRecord, Words
<1> HIDE DEF one, two
<1>3. TasksKnow([task EXCEPT ![t] = one], cards) /\ TasksKnow([task EXCEPT ![t] = two], cards)
  BY <1>1, <1>2, TaskSet DEF Carries
<1> QED
  BY <1>3 DEF one, two

LEMMA FreeAnswersAre == ASSUME oscene \in CopilotScene PROVE FreeAnswers \subseteq Answers
<1>1. oscene.answers \in 0..MaxAnswers /\ MaxAnswers \in Nat
  BY CopilotConstants DEF CopilotScene
<1> QED
  BY <1>1 DEF FreeAnswers, Answers

\* An answer that was never used is started.
LEMMA AnswerStarts ==
    ASSUME NEW cards, AnswersKnow(answer, ogen, cards), NEW c, Known(cards, c), Starts(c), oscene \in CopilotScene
    PROVE  AnswersKnow(answer', ogen', cards)
<1> DEFINE new == [pc |-> "streaming", card |-> c, parts |-> FALSE]
<1>1. NextAnswer \in Answers /\ ogen' = NextAnswer /\ answer' = [answer EXCEPT ![NextAnswer] = new]
  BY NextAnswerIsFree, FreeAnswersAre DEF Starts
<1>2. new \in AnswerRecord /\ new.pc = "streaming" /\ new.card = c
  BY DEF AnswerRecord, Known
<1> HIDE DEF new
<1>3. NextAnswer # Nothing
  BY <1>1 DEF Answers, Nothing
<1> QED
  BY <1>1, <1>2, <1>3 DEF AnswersKnow

\* An answer is cut, and another one is started for the same card.
LEMMA RestartHolds ==
    ASSUME NEW cards, AnswersKnow(answer, ogen, cards), NEW c, Known(cards, c), Restarted(c), oscene \in CopilotScene
    PROVE  AnswersKnow(answer', ogen', cards)
<1> DEFINE stopped == IF ogen # Nothing /\ answer[ogen].card = c THEN ogen ELSE Nothing
           new == [pc |-> "streaming", card |-> c, parts |-> FALSE]
<1>1. /\ NextAnswer \in Answers /\ ogen' = NextAnswer /\ answer[NextAnswer].pc = "off"
      /\ answer' = [a \in Answers |-> IF a = stopped THEN [answer[a] EXCEPT !.pc = "done", !.parts = FALSE]
                                     ELSE IF a = NextAnswer THEN new ELSE answer[a]]
  BY NextAnswerIsFree, FreeAnswersAre DEF Restarted, FreeAnswers
<1>2. new \in AnswerRecord /\ new.pc = "streaming" /\ new.card = c
  BY DEF AnswerRecord, Known
<1> HIDE DEF new
<1>3. NextAnswer # Nothing
  BY <1>1, NothingIsNone
<1>4. stopped # NextAnswer /\ (stopped # Nothing => stopped \in Answers /\ answer[stopped].pc # "off")
  BY <1>1, <1>3 DEF AnswersKnow
<1> HIDE DEF stopped
<1>5. \A a \in Answers : LET ended == [answer[a] EXCEPT !.pc = "done", !.parts = FALSE]
                         IN  ended \in AnswerRecord /\ ended.pc = "done" /\ ended.card = answer[a].card
  BY DEF AnswersKnow, AnswerRecord
<1>6. answer' \in [Answers -> AnswerRecord]
  BY <1>1, <1>2, <1>5 DEF AnswersKnow
<1>7. answer'[NextAnswer] = new
  BY <1>1, <1>4
<1>8. ASSUME NEW a \in Answers, a # NextAnswer
      PROVE  answer'[a].pc = "off" \/ (answer[a].pc # "off" /\ answer'[a].card = answer[a].card)
  <2>1. CASE a = stopped
    <3>1. stopped # Nothing /\ answer[a].pc # "off"
      BY <1>4, <2>1, NothingIsNone
    <3>2. answer'[a] = [answer[a] EXCEPT !.pc = "done", !.parts = FALSE]
      BY <1>1, <2>1
    <3> QED
      BY <1>5, <3>1, <3>2
  <2>2. CASE a # stopped
    BY <1>1, <1>8, <2>2
  <2> QED
    BY <2>1, <2>2
<1> QED
  BY <1>1, <1>2, <1>3, <1>6, <1>7, <1>8 DEF AnswersKnow

\* What holds after a step that leaves the cards and the rows alone.
LEMMA SameCards ==
    ASSUME CInv, UNCHANGED <<card, log, oscene>>, TasksKnow(task', card), AnswersKnow(answer', ogen', card),
           last' = last, heard' \in Nat
    PROVE  CInv'
  BY DEF CInv

\* What holds after a step that stores what is known of a card.
LEMMA StoredCards ==
    ASSUME CInv, UNCHANGED <<oscene, last, heard>>, Stored(card', log'),
           \A d \in Cards : card[d].made => card'[d].made,
           TasksKnow(task', card'), AnswersKnow(answer', ogen', card')
    PROVE  CInv'
<1>1. last' # Nothing => Known(card', last')
  BY StillKnown
<1> QED
  BY <1>1 DEF CInv

\* A card that was never made becomes the last one; its question is not stored yet.
LEMMA ShowHolds == ASSUME CInv, NEW t \in Actors, ShowCard(t) PROVE CInv'
<1> DEFINE c == NextCard
           parent == IF ~IsFollowup(task[t].text) THEN Nothing
                     ELSE IF card[last].parent # Nothing THEN card[last].parent ELSE last
           new == [BlankCard EXCEPT !.made = TRUE, !.long = task[t].text = "longer", !.utt = task[t].utt, !.parent = parent]
           put == [task EXCEPT ![t].pc = "start", ![t].card = c]
<1>0. /\ TasksKnow(task, card) /\ AnswersKnow(answer, ogen, card) /\ Stored(card, log)
      /\ card \in [Cards -> CardRecord] /\ task[t] \in TaskRecord
  BY DEF CInv, Stored, TasksKnow
<1>1. c \in Cards /\ ~card[c].made
  BY NextCardIsFree DEF ShowCard, FreeCards
<1>2. /\ card' = [card EXCEPT ![c] = new] /\ last' = c /\ task' = put
      /\ UNCHANGED <<oscene, ogen, answer, log, heard>>
  BY DEF ShowCard
<1>3. parent \in Cards \cup {Nothing}
  BY <1>0 DEF CInv, IsFollowup, Recent, Known, CardRecord
<1> HIDE DEF c, parent
<1>4. PICK long \in BOOLEAN : new = [BlankCard EXCEPT !.made = TRUE, !.long = long, !.utt = task[t].utt, !.parent = parent]
  OBVIOUS
<1> HIDE DEF new
<1>5. new \in CardRecord /\ new.made /\ ~new.persisted
  BY <1>0, <1>3, <1>4 DEF BlankCard, CardRecord, TaskRecord, States
<1>6. /\ card' \in [Cards -> CardRecord] /\ card'[c] = new
      /\ \A d \in Cards : d # c => card'[d] = card[d]
  BY <1>0, <1>1, <1>2, <1>5
<1>7. \A d \in Cards : card[d].made => card'[d].made
  BY <1>5, <1>6
<1>8. ~Asked(log, c)
  BY <1>0, <1>1 DEF Stored
<1>9. Stored(card', log)
  <2>1. \A d \in Cards : (card'[d].persisted => Asked(log, d)) /\ (Asked(log, d) => card'[d].persisted /\ card'[d].made)
    <3> SUFFICES ASSUME NEW d \in Cards
                 PROVE  (card'[d].persisted => Asked(log, d)) /\ (Asked(log, d) => card'[d].persisted /\ card'[d].made)
      OBVIOUS
    <3>1. CASE d = c
      BY <1>5, <1>6, <1>8, <3>1
    <3>2. CASE d # c
      BY <1>0, <1>6, <3>2 DEF Stored
    <3> QED
      BY <3>1, <3>2
  <2> QED
    BY <1>0, <1>6, <2>1 DEF Stored
<1>10. TasksKnow(task, card') /\ AnswersKnow(answer, ogen, card')
  BY <1>7, StillKnown
<1>11. Known(card', c)
  BY <1>1, <1>5, <1>6 DEF Known
<1>12. TasksKnow(put, card')
  <2>1. put \in [Actors -> TaskRecord] /\ put[t].pc = "start" /\ put[t].card = c
        /\ \A u \in Actors : u # t => put[u] = task[u]
    BY <1>1, <1>10 DEF TasksKnow, TaskRecord
  <2> HIDE DEF put
  <2> QED
    BY <1>10, <1>11, <2>1 DEF TasksKnow
<1> HIDE DEF put
<1>13. TasksKnow(task', card') /\ AnswersKnow(answer', ogen', card') /\ Stored(card', log')
       /\ (last' # Nothing => Known(card', last'))
  BY <1>2, <1>9, <1>10, <1>11, <1>12
<1> QED
  BY <1>2, <1>13 DEF CInv

LEMMA CardStepHolds ==
    ASSUME CInv, NEW t \in Actors, NewCard(t) \/ ShowCard(t) \/ StartAnswer(t) \/ RecordQuestion(t)
    PROVE  CInv'
<1>0. TasksKnow(task, card) /\ AnswersKnow(answer, ogen, card) /\ Stored(card, log) /\ oscene \in CopilotScene
  BY DEF CInv
<1>1. CASE NewCard(t)
  <2>1. task' = [task EXCEPT ![t].pc = "show"] /\ UNCHANGED <<oscene, last, heard>>
    BY <1>1 DEF NewCard, TaskGoes
  <2>2. CASE ogen # Nothing /\ Interrupted(ogen, "interrupted")
    <3>1. ogen \in Answers /\ answer[ogen].pc # "off"
      BY <1>0, <2>2 DEF AnswersKnow
    <3>2. /\ Stored(card', log') /\ AnswersKnow(answer', ogen', card')
          /\ \A d \in Cards : card'[d].made <=> card[d].made
      BY <2>2, <3>1, InterruptedHolds DEF States
    <3>3. TasksKnow(task, card')
      BY <3>2, StillKnown
    <3>4. TasksKnow(task', card')
      BY <2>1, <3>3, TaskMoves DEF Carries
    <3> QED
      BY <2>1, <3>2, <3>4, StoredCards
  <2>3. CASE UNCHANGED <<card, ogen, answer, model, log>>
    <3>1. TasksKnow(task', card)
      BY <1>0, <2>1, TaskMoves DEF Carries
    <3> QED
      BY <1>0, <2>1, <2>3, <3>1, SameCards DEF CInv
  <2> QED
    BY <1>1, <2>2, <2>3 DEF NewCard
<1>2. CASE ShowCard(t)
  BY <1>2, ShowHolds
<1>3. CASE StartAnswer(t)
  <2>1. task' = [task EXCEPT ![t].pc = "record"] /\ UNCHANGED <<oscene, card, last, log, heard>> /\ task[t].pc = "start"
    BY <1>3 DEF StartAnswer, TaskGoes, AtStep
  <2>2. Known(card, task[t].card) /\ Starts(task[t].card)
    BY <1>0, <1>3, <2>1 DEF StartAnswer, TasksKnow
  <2>3. AnswersKnow(answer', ogen', card) /\ TasksKnow(task', card)
    BY <1>0, <2>1, <2>2, AnswerStarts, TaskMoves DEF Carries
  <2> QED
    BY <2>1, <2>3, SameCards DEF CInv
<1>4. CASE RecordQuestion(t)
  <2> DEFINE c == task[t].card
  <2>1. /\ card' = Marked(c, card) /\ log' = log \o QuestionRow(c) /\ task' = [task EXCEPT ![t] = NoTask]
        /\ UNCHANGED <<oscene, last, ogen, answer, heard>> /\ task[t].pc = "record"
    BY <1>4 DEF RecordQuestion, TaskEnds, AtStep
  <2>2. c \in Cards /\ card[c].made
    BY <1>0, <2>1 DEF TasksKnow, Known
  <2> HIDE DEF c
  <2>3. Alike(card)
    BY <1>0 DEF Alike, Stored
  <2>4. Stored(card', log') /\ \A d \in Cards : card'[d].made <=> card[d].made
    BY <1>0, <2>1, <2>2, <2>3, QuestionStored
  <2>5. TasksKnow(task, card') /\ AnswersKnow(answer, ogen, card')
    BY <2>4, StillKnown
  <2>6. TasksKnow(task', card')
    BY <2>1, <2>5, TaskStops
  <2> QED
    BY <2>1, <2>4, <2>5, <2>6, StoredCards
<1> QED
  BY <1>1, <1>2, <1>3, <1>4

LEMMA AnswerStepHolds ==
    ASSUME CInv, NEW a \in Answers, Chunk(a) \/ AnswerEnds(a) \/ AnswerTail(a) \/ AnswerFails(a)
    PROVE  CInv'
<1>0. /\ TasksKnow(task, card) /\ AnswersKnow(answer, ogen, card) /\ Stored(card, log)
      /\ heard \in Nat /\ answer \in [Answers -> AnswerRecord]
  BY DEF CInv, AnswersKnow
<1>p. answer[a].pc # "off" /\ answer[a].card \in Cards /\ card[answer[a].card].made
  BY <1>0 DEF Chunk, AnswerEnds, AnswerTail, AnswerFails, AnswersKnow, Known
<1>g. ogen \in Answers \cup {Nothing} /\ Nothing \in Answers \cup {Nothing}
  BY <1>0 DEF AnswersKnow
<1>1. CASE Chunk(a)
  <2>1. UNCHANGED <<oscene, card, last, ogen, task, log, heard>>
        /\ (answer' = [answer EXCEPT ![a].parts = TRUE] \/ answer' = AnswerCut(a))
    BY <1>1 DEF Chunk
  <2>2. CASE answer' = [answer EXCEPT ![a].parts = TRUE]
    <3>1. AnswersKnow([answer EXCEPT ![a].parts = TRUE], ogen, card)
      BY <1>0 DEF AnswersKnow, AnswerRecord
    <3> QED
      BY <1>0, <2>1, <2>2, <3>1, SameCards
  <2>3. CASE answer' = AnswerCut(a)
    <3>1. AnswersKnow(AnswerCut(a), ogen, card)
      BY <1>0, <1>p, <1>g, CutHolds
    <3> QED
      BY <1>0, <2>1, <2>3, <3>1, SameCards
  <2> QED
    BY <2>1, <2>2, <2>3
<1>2. CASE AnswerEnds(a)
  <2>1. UNCHANGED <<oscene, last, task, log, heard>>
    BY <1>2 DEF AnswerEnds
  <2>2. CASE ogen = a
    <3> DEFINE c == answer[a].card
               cards == [card EXCEPT ![c].state = "shown"]
               new == [answer EXCEPT ![a].pc = "tail"]
    <3>1. ogen' = Nothing /\ answer' = new /\ card' = cards
      BY <1>2, <2>2 DEF AnswerEnds
    <3>2. c \in Cards /\ card \in [Cards -> CardRecord]
      BY <1>0, <1>p DEF Stored
    <3> HIDE DEF c
    <3>3. Alike(cards)
      BY <3>2 DEF Alike, CardRecord, States
    <3> HIDE DEF cards
    <3>4. Stored(card', log') /\ \A d \in Cards : card'[d].made <=> card[d].made
      BY <1>0, <2>1, <3>1, <3>3 DEF Stored, Alike
    <3>5. TasksKnow(task', card') /\ AnswersKnow(answer, ogen, card')
      BY <2>1, <3>4, StillKnown
    <3>6. AnswersKnow(new, Nothing, card')
      BY <1>p, <3>5 DEF AnswersKnow, AnswerRecord
    <3> HIDE DEF new
    <3> QED
      BY <2>1, <3>1, <3>4, <3>5, <3>6, StoredCards
  <2>3. CASE ogen # a
    <3>1. answer' = AnswerCut(a) /\ UNCHANGED <<ogen, card>>
      BY <1>2, <2>3 DEF AnswerEnds
    <3>2. AnswersKnow(AnswerCut(a), ogen, card)
      BY <1>0, <1>p, <1>g, CutHolds
    <3> QED
      BY <1>0, <2>1, <3>1, <3>2, SameCards
  <2> QED
    BY <2>2, <2>3
<1>3. CASE AnswerTail(a)
  <2> DEFINE c == answer[a].card
             l == log \o QuestionRow(c)
  <2>1. /\ UNCHANGED <<oscene, last, ogen, task, heard>> /\ answer' = AnswerCut(a)
        /\ card' = Marked(c, card) /\ log' = l \o <<Row("suggestion", c, "shown")>>
    BY <1>3 DEF AnswerTail
  <2>2. c \in Cards /\ card[c].made /\ Alike(card)
    BY <1>0, <1>p DEF Stored, Alike
  <2> HIDE DEF c
  <2>3. /\ Stored(Marked(c, card), l) /\ Asked(l, c)
        /\ \A d \in Cards : Marked(c, card)[d].made <=> card[d].made
    BY <1>0, <2>2, QuestionStored
  <2> HIDE DEF l
  <2>4. Stored(card', log')
    BY <2>1, <2>2, <2>3, SuggestionStored DEF States
  <2>5. \A d \in Cards : card'[d].made <=> card[d].made
    BY <2>1, <2>3
  <2>6. TasksKnow(task', card') /\ AnswersKnow(answer, ogen, card')
    BY <2>1, <2>5, StillKnown
  <2>7. AnswersKnow(answer', ogen', card')
    BY <1>p, <1>g, <2>1, <2>6, CutHolds
  <2> QED
    BY <2>1, <2>4, <2>5, <2>6, <2>7, StoredCards
<1>4. CASE AnswerFails(a)
  <2>1. UNCHANGED <<oscene, card, last, task, log, heard>> /\ answer' = AnswerCut(a) /\ ogen' \in {Nothing, ogen}
    BY <1>4 DEF AnswerFails
  <2>2. AnswersKnow(answer', ogen', card)
    BY <1>0, <1>p, <1>g, <2>1, CutHolds
  <2> QED
    BY <1>0, <2>1, <2>2, SameCards
<1> QED
  BY <1>1, <1>2, <1>3, <1>4

LEMMA CardOfUtteranceKnown == ASSUME CInv, CardOfUtterance # Nothing PROVE Known(card, CardOfUtterance)
<1>1. CASE ogen # Nothing
  <2>1. Known(card, answer[ogen].card)
    BY <1>1 DEF CInv, AnswersKnow
  <2> QED
    BY <1>1, <2>1 DEF CardOfUtterance
<1>2. CASE ogen = Nothing
  BY <1>2 DEF CInv, CardOfUtterance
<1> QED
  BY <1>1, <1>2

\* The end of an utterance.
LEMMA UtteranceHolds == ASSUME CInv, NEW text \in Words, UtteranceEnd(text) PROVE CInv'
<1> DEFINE c == CardOfUtterance
           joins == c = Nothing /\ channel.kind = "utterances" /\ last # Nothing /\ card[last].utt + 1 = heard /\ Unfinished(last)
           hit == IF c # Nothing THEN c ELSE last
           longer == [card EXCEPT ![hit].long = TRUE, ![hit].utt = heard]
           whole == [card EXCEPT ![hit].long = TRUE, ![hit].utt = heard, ![hit].persisted = TRUE]
           yes == [task EXCEPT !["reader"] = [NoTask EXCEPT !.pc = "new", !.text = text, !.utt = heard]]
           ask == [task EXCEPT !["gate"] = [NoTask EXCEPT !.pc = "asking", !.utt = heard]]
<1>0. /\ TasksKnow(task, card) /\ AnswersKnow(answer, ogen, card) /\ Stored(card, log)
      /\ card \in [Cards -> CardRecord] /\ heard \in Nat /\ oscene \in CopilotScene
  BY DEF CInv, Stored
<1>1. UNCHANGED <<oscene, last>> /\ heard' \in Nat
  BY <1>0 DEF UtteranceEnd
<1>2. \/ /\ c # Nothing \/ joins
         /\ \/ Restarted(hit) /\ card' = whole
            \/ UNCHANGED <<ogen, answer, model>> /\ card' = Marked(hit, card)
         /\ log' = log \o QuestionRow(hit)
         /\ UNCHANGED task
      \/ task' \in {task, yes, ask} /\ UNCHANGED <<card, ogen, answer, model, log>>
  BY DEF UtteranceEnd
<1>3. CASE /\ c # Nothing \/ joins
           /\ \/ Restarted(hit) /\ card' = whole
              \/ UNCHANGED <<ogen, answer, model>> /\ card' = Marked(hit, card)
           /\ log' = log \o QuestionRow(hit)
           /\ UNCHANGED task
  <2>1. Known(card, hit)
    BY <1>3, CardOfUtteranceKnown DEF CInv
  <2> HIDE DEF c, joins, hit
  <2>2. hit \in Cards /\ card[hit].made
    BY <2>1 DEF Known
  <2>3. Alike(longer) /\ whole = Marked(hit, longer)
    <3>1. Alike(longer)
      BY <1>0, <2>2 DEF Alike, CardRecord
    <3>2. whole = Marked(hit, longer)
      BY <1>0, <2>2 DEF Marked, CardRecord
    <3> QED
      BY <3>1, <3>2
  <2>4. Alike(card)
    BY <1>0 DEF Alike
  <2> HIDE DEF longer, whole
  <2>5. PICK cards \in {longer, card} : Alike(cards) /\ card' = Marked(hit, cards)
    BY <1>3, <2>3, <2>4
  <2>6. /\ Stored(card', log') /\ \A d \in Cards : card'[d].made <=> card[d].made
    BY <1>0, <1>3, <2>2, <2>5, QuestionStored
  <2>7. TasksKnow(task', card') /\ AnswersKnow(answer, ogen, card') /\ (last' # Nothing => Known(card', last'))
    BY <1>1, <1>3, <2>6, StillKnown
  <2>8. Known(card', hit)
    BY <2>2, <2>6 DEF Known
  <2>9. AnswersKnow(answer', ogen', card')
    BY <1>0, <1>3, <2>7, <2>8, RestartHolds
  <2> QED
    BY <1>0, <1>1, <2>6, <2>7, <2>9 DEF CInv
<1>4. CASE task' \in {task, yes, ask} /\ UNCHANGED <<card, ogen, answer, model, log>>
  <2>1. TasksKnow(yes, card) /\ TasksKnow(ask, card)
    BY <1>0, TaskTakes DEF Actors
  <2> HIDE DEF yes, ask
  <2>2. TasksKnow(task', card)
    BY <1>0, <1>4, <2>1
  <2> QED
    BY <1>0, <1>1, <1>4, <2>2, SameCards
<1> HIDE DEF c, joins, hit, longer, whole, yes, ask
<1> QED
  BY <1>2, <1>3, <1>4

LEMMA ChannelHolds ==
    ASSUME CInv, OpenChannel \/ StreamDrops \/ Consider \/ LlmGate \/ PauseCopilot \/ AnswerNow \/ StopCopilot
    PROVE  CInv'
<1>0. TasksKnow(task, card) /\ AnswersKnow(answer, ogen, card) /\ heard \in Nat
  BY DEF CInv
<1>1. UNCHANGED <<oscene, card, last, ogen, answer, log, heard>>
  BY DEF OpenChannel, StreamDrops, Consider, LlmGate, PauseCopilot, AnswerNow, StopCopilot
<1>2. TasksKnow(task', card)
  <2>1. CASE Consider
    <3>1. task' = [task EXCEPT !["reader"] = [NoTask EXCEPT !.pc = "new", !.utt = heard]]
      BY <2>1 DEF Consider
    <3> QED
      BY <1>0, <3>1, TaskTakes DEF Actors, Words
  <2>2. CASE AnswerNow
    <3>1. task' = [task EXCEPT !["loop"] = [NoTask EXCEPT !.pc = "new", !.utt = heard]]
      BY <2>2 DEF AnswerNow
    <3> QED
      BY <1>0, <3>1, TaskTakes DEF Actors, Words
  <2>3. CASE LlmGate
    <3>1. task' = [task EXCEPT !["gate"].pc = "new"] \/ task' = [task EXCEPT !["gate"] = NoTask]
      BY <2>3 DEF LlmGate, TaskGoes, TaskEnds
    <3>2. "gate" \in Actors
      BY DEF Actors
    <3> QED
      BY <1>0, <3>1, <3>2, TaskMoves, TaskStops DEF Carries
  <2>4. CASE task' = task
    BY <1>0, <2>4
  <2> QED
    BY <2>1, <2>2, <2>3, <2>4 DEF OpenChannel, StreamDrops, PauseCopilot, StopCopilot
<1> QED
  BY <1>0, <1>1, <1>2, SameCards

\* Expand, shorter, regenerate.
LEMMA RedoHolds == ASSUME CInv, NEW c \in Cards, RedoCard(c) PROVE CInv'
<1> DEFINE new == [NoTask EXCEPT !.pc = "start", !.card = c]
<1>0. TasksKnow(task, card) /\ AnswersKnow(answer, ogen, card) /\ heard \in Nat /\ Known(card, c)
  BY DEF CInv, RedoCard, Known
<1>1. task' = [task EXCEPT !["loop"] = new] /\ UNCHANGED <<oscene, last, heard>>
  BY DEF RedoCard
<1>2. new \in TaskRecord /\ new.pc = "start" /\ new.card = c /\ "loop" \in Actors
  BY DEF NoTask, TaskRecord, Words, Actors
<1> HIDE DEF new
<1>3. ogen # Nothing => ogen \in Answers /\ answer[ogen].pc # "off"
  BY <1>0 DEF AnswersKnow
<1>4. CASE ogen # Nothing /\ Interrupted(ogen, "interrupted")
  <2>1. /\ Stored(card', log') /\ AnswersKnow(answer', ogen', card')
        /\ \A d \in Cards : card'[d].made <=> card[d].made
    BY <1>3, <1>4, InterruptedHolds DEF States
  <2>2. TasksKnow(task, card') /\ Known(card', c)
    BY <1>0, <2>1, StillKnown DEF Known
  <2>3. TasksKnow(task', card')
    BY <1>1, <1>2, <2>2, TaskSet
  <2> QED
    BY <1>1, <2>1, <2>3, StoredCards
<1>5. CASE UNCHANGED <<card, log>> /\ (UNCHANGED <<ogen, answer>> \/ (ogen # Nothing /\ ogen' = Nothing /\ answer' = AnswerCut(ogen)))
  <2>1. AnswersKnow(answer', ogen', card)
    BY <1>0, <1>3, <1>5, CutHolds
  <2>2. TasksKnow(task', card)
    BY <1>0, <1>1, <1>2, TaskSet
  <2> QED
    BY <1>0, <1>1, <1>5, <2>1, <2>2, SameCards
<1> QED
  BY <1>4, <1>5 DEF RedoCard

LEMMA DismissHolds == ASSUME CInv, NEW c \in Cards, DismissCard(c) PROVE CInv'
<1> DEFINE new == [NoTask EXCEPT !.pc = "drop", !.card = c]
           cards == [card EXCEPT ![c].state = "dismissed"]
<1>0. /\ TasksKnow(task, card) /\ AnswersKnow(answer, ogen, card) /\ Known(card, c) /\ Stored(card, log)
      /\ card \in [Cards -> CardRecord]
  BY DEF CInv, DismissCard, Known, Stored
<1>1. task' = [task EXCEPT !["loop"] = new] /\ UNCHANGED <<oscene, last, heard>>
  BY DEF DismissCard
<1>2. new \in TaskRecord /\ new.pc = "drop" /\ new.card = c /\ "loop" \in Actors
  BY DEF NoTask, TaskRecord, Words, Actors
<1> HIDE DEF new
<1>3. Stored(card', log') /\ AnswersKnow(answer', ogen', card') /\ \A d \in Cards : card'[d].made <=> card[d].made
  <2>1. CASE ogen # Nothing /\ Interrupted(ogen, "dismissed")
    <3>1. ogen \in Answers /\ answer[ogen].pc # "off"
      BY <1>0, <2>1 DEF AnswersKnow
    <3> QED
      BY <2>1, <3>1, InterruptedHolds DEF States
  <2>2. CASE card' = cards /\ UNCHANGED <<ogen, answer, model, log>>
    <3>1. Alike(cards)
      BY <1>0 DEF Alike, CardRecord, States
    <3> HIDE DEF cards
    <3>2. Stored(card', log') /\ \A d \in Cards : card'[d].made <=> card[d].made
      BY <1>0, <2>2, <3>1 DEF Stored, Alike
    <3> QED
      BY <2>2, <3>2, StillKnown
  <2> QED
    BY <2>1, <2>2 DEF DismissCard
<1>4. TasksKnow(task, card') /\ Known(card', c)
  BY <1>0, <1>3, StillKnown DEF Known
<1>5. TasksKnow(task', card')
  BY <1>1, <1>2, <1>4, TaskSet
<1> QED
  BY <1>1, <1>3, <1>5, StoredCards

LEMMA DroppedHolds == ASSUME CInv, DismissStored PROVE CInv'
<1> DEFINE c == task["loop"].card
           l == log \o QuestionRow(c)
<1>0. TasksKnow(task, card) /\ Stored(card, log) /\ "loop" \in Actors
  BY DEF CInv, Actors
<1>1. /\ UNCHANGED <<oscene, last, ogen, answer, heard>> /\ task' = [task EXCEPT !["loop"] = NoTask]
      /\ card' = Marked(c, card) /\ log' = l \o <<Row("suggestion", c, "dismissed")>> /\ task["loop"].pc = "drop"
  BY DEF DismissStored, TaskEnds, AtStep
<1>2. c \in Cards /\ card[c].made /\ Alike(card)
  BY <1>0, <1>1 DEF TasksKnow, Known, Stored, Alike
<1> HIDE DEF c
<1>3. /\ Stored(Marked(c, card), l) /\ Asked(l, c)
      /\ \A d \in Cards : Marked(c, card)[d].made <=> card[d].made
  BY <1>0, <1>2, QuestionStored
<1> HIDE DEF l
<1>4. Stored(card', log') /\ \A d \in Cards : card'[d].made <=> card[d].made
  BY <1>1, <1>2, <1>3, SuggestionStored DEF States
<1>5. TasksKnow(task, card') /\ AnswersKnow(answer', ogen', card')
  BY <1>1, <1>4, StillKnown
<1>6. TasksKnow(task', card')
  BY <1>0, <1>1, <1>5, TaskStops
<1> QED
  BY <1>1, <1>4, <1>5, <1>6, StoredCards

LEMMA FinishHolds == ASSUME CInv, FinishInterrupts \/ CloseSocket PROVE CInv'
<1>0. TasksKnow(task, card) /\ AnswersKnow(answer, ogen, card) /\ Stored(card, log) /\ heard \in Nat
  BY DEF CInv
<1>1. CASE FinishInterrupts
  <2>1. ogen \in Answers /\ answer[ogen].pc # "off" /\ Interrupted(ogen, "interrupted")
    BY <1>0, <1>1 DEF FinishInterrupts, AnswersKnow
  <2>2. UNCHANGED <<oscene, last, task, heard>>
    BY <1>1 DEF FinishInterrupts
  <2>3. /\ Stored(card', log') /\ AnswersKnow(answer', ogen', card')
        /\ \A d \in Cards : card'[d].made <=> card[d].made
    BY <2>1, InterruptedHolds DEF States
  <2>4. TasksKnow(task', card')
    BY <2>2, <2>3, StillKnown
  <2> QED
    BY <2>2, <2>3, <2>4, StoredCards
<1>2. CASE CloseSocket
  <2>1. /\ UNCHANGED <<oscene, card, last, ogen, log, heard>> /\ task' = [t \in Actors |-> NoTask]
        /\ answer' = [a \in Answers |-> IF answer[a].pc = "off" THEN answer[a]
                                       ELSE [answer[a] EXCEPT !.pc = "done", !.parts = FALSE]]
    BY <1>2 DEF CloseSocket
  <2>2. TasksKnow(task', card)
    BY <2>1 DEF TasksKnow, NoTask, TaskRecord, Words
  <2>3. AnswersKnow(answer', ogen', card)
    BY <1>0, <2>1, NothingIsNone DEF AnswersKnow, AnswerRecord
  <2> QED
    BY <1>0, <2>1, <2>2, <2>3, SameCards
<1> QED
  BY <1>1, <1>2

LEMMA CopilotStep == ASSUME CInv, [CopilotNext]_ovars PROVE CInv'
<1>1. CASE UNCHANGED ovars
  BY <1>1, SameCards DEF ovars, CInv
<1>2. CASE CopilotNext
  BY <1>2, CardStepHolds, AnswerStepHolds, UtteranceHolds, ChannelHolds, RedoHolds, DismissHolds, DroppedHolds,
     FinishHolds DEF CopilotNext, Words
<1> QED
  BY <1>1, <1>2

LEMMA CopilotStarts == ASSUME CopilotInit PROVE CInv
<1>1. BlankCard \in CardRecord /\ ~BlankCard.persisted
  BY DEF BlankCard, CardRecord, States
<1>2. NoTask \in TaskRecord /\ NoTask.pc = "idle"
  BY DEF NoTask, TaskRecord, Words
<1>3. NoAnswer \in AnswerRecord /\ NoAnswer.pc = "off"
  BY DEF NoAnswer, AnswerRecord
<1>4. log = <<>> /\ last = Nothing /\ ogen = Nothing /\ heard = 0 /\ oscene \in CopilotScene
  BY CopilotConstants DEF CopilotInit
<1>5. Stored(card, log)
  BY <1>1, <1>4 DEF CopilotInit, Stored, Ordered, Asked
<1>6. TasksKnow(task, card)
  BY <1>2 DEF CopilotInit, TasksKnow
<1>7. AnswersKnow(answer, ogen, card)
  BY <1>3, <1>4 DEF CopilotInit, AnswersKnow
<1> QED
  BY <1>4, <1>5, <1>6, <1>7 DEF CInv

\* The debrief is made of the stored turns (voice_eval.copilot_cards): a
\* question is stored once, before every suggestion shown for it, for any
\* cards, answers and utterances and whichever task got there first.
THEOREM QuestionsLeadTheirAnswers == CopilotSpec => []QuestionStoredOnceAndFirst
<1>1. CopilotInit => CInv
  BY CopilotStarts
<1>2. CInv /\ [CopilotNext]_ovars => CInv'
  BY CopilotStep
<1>3. CInv => QuestionStoredOnceAndFirst
  BY DEF CInv, Stored, Ordered, QuestionStoredOnceAndFirst
<1> QED
  BY <1>1, <1>2, <1>3, PTL DEF CopilotSpec

-----------------------------------------------------------------------------
(***************************************************************************)
(* The types.  Of the rooms: the results of a session are no more than the  *)
(* workers there are, whatever finalizers run for it at once.               *)
(***************************************************************************)

SessionRecord == [state : LIVE_STATES \cup {"none", "ended", "gone"}, mode : Modes,
                  reason : {"none", "user", "idle", "max_minutes", "length", "cost_cap", "disconnected"},
                  feedback : {"none", "pending", "ready", "failed"}, started : BOOLEAN,
                  fresh : BOOLEAN, results : Nat]
WorkRecord == [pc : {"idle", "settle", "end", "read", "score"}, sid : Sessions \cup {NoSession}, attempt : 0..Retries]

\* A worker that has taken a message works at its session.
WorkersTyped ==
    /\ worker \in [Workers -> WorkRecord]
    /\ \A w \in Workers : worker[w].pc # "idle" => worker[w].sid \in Sessions

\* Results are deleted before they are written again: what a session has and
\* what is about to be added to it come from different workers.
Scoring(s) == {w \in Workers : worker[w].pc = "score" /\ worker[w].sid = s}
ResultsApart ==
    \A s \in Sessions : session[s].results + Cardinality(Scoring(s)) <= Cardinality(Workers)

RInv ==
    /\ VInv
    /\ session \in [Sessions -> SessionRecord] /\ lock \in Sessions \cup {NoSession}
    /\ WorkersTyped /\ ResultsApart
    /\ minted \in [Sessions -> Nat] /\ waiting \in [Sessions -> Nat]
    /\ queued \in [Sessions \X (0..Retries) -> Nat]

\* The rows are rewritten, and nothing is added to the results of any.
RowsKept ==
    /\ session' \in [Sessions -> SessionRecord]
    /\ \A s \in Sessions : session'[s].results \in {0, session[s].results}

LEMMA ScoringCounted ==
    ASSUME NEW s
    PROVE  /\ IsFiniteSet(Workers) /\ Cardinality(Workers) \in Nat
           /\ IsFiniteSet(Scoring(s)) /\ Cardinality(Scoring(s)) \in Nat /\ Cardinality(Scoring(s)) <= Cardinality(Workers)
           /\ IsFiniteSet(Scoring(s)') /\ Cardinality(Scoring(s)') \in Nat
           /\ Cardinality(Scoring(s)') <= Cardinality(Workers)
<1>1. Scoring(s) \subseteq Workers /\ Scoring(s)' \subseteq Workers
  BY DEF Scoring
<1> QED
  BY <1>1, RoomConstants, FS_Subset, FS_CardinalityType

\* Nobody goes on to score, and nothing is added.
LEMMA ResultsKept ==
    ASSUME RInv, RowsKept, \A w \in Workers : worker'[w] = worker[w] \/ worker'[w].pc # "score"
    PROVE  ResultsApart'
<1> SUFFICES ASSUME NEW s \in Sessions
             PROVE  session'[s].results + Cardinality(Scoring(s)') <= Cardinality(Workers)
  BY DEF ResultsApart, Scoring
<1>1. Scoring(s)' \subseteq Scoring(s)
  BY DEF Scoring
<1>2. Cardinality(Scoring(s)') <= Cardinality(Scoring(s)) /\ Cardinality(Scoring(s)') \in Nat
      /\ Cardinality(Scoring(s)) \in Nat /\ Cardinality(Workers) \in Nat
  BY <1>1, ScoringCounted, FS_Subset
<1>3. session[s].results \in Nat /\ session[s].results + Cardinality(Scoring(s)) <= Cardinality(Workers)
  BY DEF RInv, ResultsApart, SessionRecord
<1>4. session'[s].results \in {0, session[s].results}
  BY DEF RowsKept
<1> QED
  BY <1>2, <1>3, <1>4

-----------------------------------------------------------------------------
LEMMA RowTyped ==
    ASSUME RInv, NEW s \in Sessions
    PROVE  /\ session[s] \in SessionRecord /\ session[s].results \in Nat
           /\ session[s] = [state |-> session[s].state, mode |-> session[s].mode, reason |-> session[s].reason,
                            feedback |-> session[s].feedback, started |-> session[s].started,
                            fresh |-> session[s].fresh, results |-> session[s].results]
  BY DEF RInv, SessionRecord

\* One row is rewritten.
LEMMA RowRewritten ==
    ASSUME RInv, NEW s \in Sessions, NEW v \in SessionRecord, v.results \in {0, session[s].results},
           session' = [session EXCEPT ![s] = v]
    PROVE  RowsKept
  BY DEF RInv, RowsKept

LEMMA EndedTyped ==
    ASSUME RInv, NEW s \in Sessions, NEW why \in {"user", "idle", "max_minutes", "length", "cost_cap", "disconnected"}
    PROVE  Ended(session[s], why) \in SessionRecord /\ Ended(session[s], why).results = session[s].results
  BY RowTyped DEF Ended, SessionRecord, LIVE_STATES

LEMMA TouchedTyped ==
    ASSUME RInv, NEW s \in Sessions, NEW states \in SUBSET LIVE_STATES, session' \in Touched(s, states)
    PROVE  RowsKept
<1>1. PICK st \in LIVE_STATES \cup {session[s].state} :
        session' = [session EXCEPT ![s].fresh = Exists(s), ![s].state = st]
  BY DEF Touched
<1> DEFINE f == Exists(s)
<1>2. f \in BOOLEAN
  BY DEF Exists
<1>3. session' = [session EXCEPT ![s] = [session[s] EXCEPT !.fresh = f, !.state = st]]
  BY <1>1 DEF RInv
<1> HIDE DEF f
<1> DEFINE v == [session[s] EXCEPT !.fresh = f, !.state = st]
<1>4. v \in SessionRecord /\ v.results = session[s].results
  BY <1>2, RowTyped DEF SessionRecord
<1> HIDE DEF v
<1> QED
  BY <1>3, <1>4, RowRewritten DEF v

LEMMA WipedTyped ==
    ASSUME RInv, NEW S, session' = Wiped(S)
    PROVE  RowsKept
<1>1. ASSUME NEW s \in Sessions PROVE [session[s] EXCEPT !.state = "gone", !.results = 0] \in SessionRecord
                                      /\ [session[s] EXCEPT !.state = "gone", !.results = 0].results = 0
  BY <1>1, RowTyped DEF SessionRecord
<1> QED
  BY <1>1, RowTyped DEF Wiped, RowsKept

-----------------------------------------------------------------------------
\* Requests and time.
LEMMA RequestRows ==
    ASSUME RInv, NEW s \in Sessions,
           \/ \E mode \in Modes : CreateSession(s, mode)
           \/ StreamToken(s) \/ TokenExpires(s) \/ RetryFeedback(s) \/ DeleteSession(s) \/ PurgeExpired(s)
           \/ WindowPasses(s)
    PROVE  RowsKept
<1>1. CASE UNCHANGED session
  BY <1>1, RowTyped DEF RInv, RowsKept
<1>2. CASE \E mode \in Modes : CreateSession(s, mode)
  <2>1. PICK mode \in Modes : session' = [session EXCEPT ![s] = NewRow(mode)]
    BY <1>2 DEF CreateSession
  <2>2. NewRow(mode) \in SessionRecord /\ NewRow(mode).results = 0
    BY DEF NewRow, NoRow, SessionRecord, LIVE_STATES
  <2> QED
    BY <2>1, <2>2, RowRewritten
<1>3. CASE RetryFeedback(s)
  <2>1. session' = [session EXCEPT ![s] = [session[s] EXCEPT !.feedback = "pending"]]
    BY <1>3 DEF RetryFeedback
  <2>2. [session[s] EXCEPT !.feedback = "pending"] \in SessionRecord
        /\ [session[s] EXCEPT !.feedback = "pending"].results = session[s].results
    BY RowTyped DEF SessionRecord
  <2> QED
    BY <2>1, <2>2, RowRewritten
<1>4. CASE WindowPasses(s)
  <2>1. session' = [session EXCEPT ![s] = [session[s] EXCEPT !.fresh = FALSE]]
    BY <1>4 DEF WindowPasses
  <2>2. [session[s] EXCEPT !.fresh = FALSE] \in SessionRecord
        /\ [session[s] EXCEPT !.fresh = FALSE].results = session[s].results
    BY RowTyped DEF SessionRecord
  <2> QED
    BY <2>1, <2>2, RowRewritten
<1>5. CASE DeleteSession(s) \/ PurgeExpired(s)
  BY <1>5, WipedTyped DEF DeleteSession, PurgeExpired
<1> QED
  BY <1>1, <1>2, <1>3, <1>4, <1>5 DEF StreamToken, TokenExpires

LEMMA RequestTypes ==
    ASSUME RInv, NEW s \in Sessions,
           \/ \E mode \in Modes : CreateSession(s, mode)
           \/ StreamToken(s) \/ TokenExpires(s) \/ RetryFeedback(s) \/ DeleteSession(s) \/ PurgeExpired(s)
           \/ WindowPasses(s)
    PROVE  /\ lock' = lock /\ worker' = worker
           /\ minted' \in [Sessions -> Nat] /\ waiting' \in [Sessions -> Nat]
           /\ queued' \in [Sessions \X (0..Retries) -> Nat]
<1>0. /\ minted \in [Sessions -> Nat] /\ waiting \in [Sessions -> Nat] /\ queued \in [Sessions \X (0..Retries) -> Nat]
      /\ <<s, 0>> \in Sessions \X (0..Retries)
  BY RoomConstants DEF RInv
<1>1. lock' = lock /\ worker' = worker
  BY DEF CreateSession, StreamToken, TokenExpires, RetryFeedback, DeleteSession, PurgeExpired, WindowPasses
<1>2. minted' \in [Sessions -> Nat]
  BY <1>0 DEF CreateSession, StreamToken, TokenExpires, RetryFeedback, DeleteSession, PurgeExpired, WindowPasses
<1>3. waiting' \in [Sessions -> Nat]
  BY <1>0 DEF CreateSession, StreamToken, TokenExpires, RetryFeedback, DeleteSession, PurgeExpired, WindowPasses
<1>4. queued' \in [Sessions \X (0..Retries) -> Nat]
  <2>1. CASE RetryFeedback(s)
    <3>1. queued' = [queued EXCEPT ![<<s, 0>>] = @ + 1]
      BY <2>1 DEF RetryFeedback
    <3>2. queued[<<s, 0>>] + 1 \in Nat
      BY <1>0
    <3> QED
      BY <1>0, <3>1, <3>2
  <2>2. CASE WindowPasses(s)
    <3>1. queued' = [queued EXCEPT ![<<s, 0>>] = @ + waiting[s]]
      BY <2>2 DEF WindowPasses
    <3>2. queued[<<s, 0>>] + waiting[s] \in Nat
      BY <1>0
    <3> QED
      BY <1>0, <3>1, <3>2
  <2>3. CASE UNCHANGED queued
    BY <1>0, <2>3
  <2> QED
    BY <2>1, <2>2, <2>3 DEF CreateSession, StreamToken, TokenExpires, DeleteSession, PurgeExpired
<1> QED
  BY <1>1, <1>2, <1>3, <1>4

\* Sockets.
LEMMA SocketRows ==
    ASSUME RInv, NEW c \in Sockets,
           \/ \E s \in Sessions : Authenticate(c, s)
           \/ SocketStep(c) \/ Message(c) \/ Finish(c) \/ CutShort(c) \/ Disconnect(c) \/ FrameTooBig(c)
    PROVE  RowsKept
<1>1. CASE UNCHANGED session
  BY <1>1, RowTyped DEF RInv, RowsKept
<1> DEFINE s == socket[c].sid
<1>2. ASSUME socket[c].pc # "new" PROVE s \in Sessions
  BY <1>2 DEF RInv, VInv, Named
<1>3. CASE MarkStarted(c) /\ session' # session
  <2>1. s \in Sessions
    BY <1>2, <1>3 DEF MarkStarted, At
  <2>2. session' = [session EXCEPT ![s] = [session[s] EXCEPT !.state = "active", !.started = TRUE, !.fresh = TRUE]]
    BY <1>3, <2>1 DEF MarkStarted, RInv
  <2> HIDE DEF s
  <2> DEFINE v == [session[s] EXCEPT !.state = "active", !.started = TRUE, !.fresh = TRUE]
  <2>3. v \in SessionRecord /\ v.results = session[s].results
    BY <2>1, RowTyped DEF SessionRecord, LIVE_STATES
  <2> HIDE DEF v
  <2> QED
    BY <2>1, <2>2, <2>3, RowRewritten DEF v
<1>4. CASE Message(c)
  BY <1>2, <1>4, TouchedTyped DEF Message, At, LIVE_STATES
<1>5. CASE EndSession(c)
  <2>1. s \in Sessions
    BY <1>2, <1>5 DEF EndSession, At
  <2>2. PICK why \in {"user", "idle", "max_minutes", "length", "cost_cap", "disconnected"} :
            session' = [session EXCEPT ![s] = Ended(session[s], why)]
    BY <1>5 DEF EndSession, MainReasons, TaskReasons
  <2> QED
    BY <2>1, <2>2, EndedTyped, RowRewritten
<1>6. CASE Close(c) /\ session' # session
  BY <1>2, <1>6, TouchedTyped DEF Close, At
<1> QED
  BY <1>1, <1>3, <1>4, <1>5, <1>6 DEF SocketStep, Authenticate, Gate, LockOrReject, MarkStarted, EndTail, Close, Finish,
     CutShort, Disconnect, FrameTooBig

LEMMA SocketTypes ==
    ASSUME RInv, NEW c \in Sockets,
           \/ \E s \in Sessions : Authenticate(c, s)
           \/ SocketStep(c) \/ Message(c) \/ Finish(c) \/ CutShort(c) \/ Disconnect(c) \/ FrameTooBig(c)
    PROVE  /\ lock' \in Sessions \cup {NoSession} /\ worker' = worker
           /\ minted' \in [Sessions -> Nat] /\ waiting' \in [Sessions -> Nat]
           /\ queued' \in [Sessions \X (0..Retries) -> Nat]
<1>0. /\ minted \in [Sessions -> Nat] /\ waiting \in [Sessions -> Nat] /\ queued \in [Sessions \X (0..Retries) -> Nat]
      /\ lock \in Sessions \cup {NoSession} /\ 0 \in 0..Retries
  BY RoomConstants DEF RInv
<1>1. socket[c].pc # "new" => socket[c].sid \in Sessions
  BY DEF RInv, VInv, Named
<1>2. CASE UNCHANGED <<lock, minted, waiting, queued, worker>>
  BY <1>0, <1>2
<1>3. CASE \E s \in Sessions : Authenticate(c, s)
  <2>1. PICK s \in Sessions : Authenticate(c, s)
    BY <1>3
  <2>2. UNCHANGED <<lock, waiting, queued, worker>> /\ minted' = [minted EXCEPT ![s] = @ - 1] /\ minted[s] > 0
    BY <2>1 DEF Authenticate
  <2>3. minted[s] - 1 \in Nat
    BY <1>0, <2>2
  <2> QED
    BY <1>0, <2>2, <2>3
<1>4. CASE LockOrReject(c)
  BY <1>0, <1>1, <1>4 DEF LockOrReject, At
<1>5. CASE EndTail(c)
  <2>1. socket[c].sid \in Sessions /\ lock' = Released(socket[c].sid) /\ UNCHANGED <<minted, waiting, worker>>
    BY <1>1, <1>5 DEF EndTail, At
  <2>2. queued' = queued \/ queued' = [queued EXCEPT ![<<socket[c].sid, 0>>] = @ + 1]
    BY <1>5 DEF EndTail
  <2>3. queued[<<socket[c].sid, 0>>] + 1 \in Nat
    BY <1>0, <2>1
  <2> QED
    BY <1>0, <2>1, <2>2, <2>3 DEF Released
<1>6. CASE Close(c)
  <2>1. socket[c].sid \in Sessions /\ lock' = Released(socket[c].sid) /\ UNCHANGED <<minted, queued, worker>>
    BY <1>1, <1>6 DEF Close, At
  <2>2. waiting' = waiting \/ waiting' = [waiting EXCEPT ![socket[c].sid] = @ + 1]
    BY <1>6 DEF Close
  <2> QED
    BY <1>0, <2>1, <2>2 DEF Released
<1> QED
  BY <1>2, <1>3, <1>4, <1>5, <1>6 DEF SocketStep, Gate, MarkStarted, EndSession, Message, Finish,
     CutShort, Disconnect, FrameTooBig

-----------------------------------------------------------------------------
\* The finalizer: a worker goes on to another place, or stops.
LEMMA WorkerMoves ==
    ASSUME RInv, NEW w \in Workers,
           \/ \E pc \in {"settle", "end", "read", "score"} : Step(w, pc) /\ worker[w].pc # "idle"
           \/ Stop(w)
           \/ \E s \in Sessions, n \in 0..Retries : worker' = [worker EXCEPT ![w] = [pc |-> "settle", sid |-> s, attempt |-> n]]
    PROVE  WorkersTyped'
<1>0. worker \in [Workers -> WorkRecord] /\ \A q \in Workers : worker[q].pc # "idle" => worker[q].sid \in Sessions
  BY DEF RInv, WorkersTyped
<1>1. PICK v \in WorkRecord : worker' = [worker EXCEPT ![w] = v] /\ (v.pc # "idle" => v.sid \in Sessions)
  <2>1. CASE \E pc \in {"settle", "end", "read", "score"} : Step(w, pc) /\ worker[w].pc # "idle"
    <3>1. PICK pc \in {"settle", "end", "read", "score"} : Step(w, pc) /\ worker[w].pc # "idle"
      BY <2>1
    <3>2. worker' = [worker EXCEPT ![w] = [worker[w] EXCEPT !.pc = pc]]
      BY <3>1 DEF Step
    <3>3. [worker[w] EXCEPT !.pc = pc] \in WorkRecord /\ [worker[w] EXCEPT !.pc = pc].sid = worker[w].sid
      BY <1>0 DEF WorkRecord
    <3> QED
      BY <1>0, <3>1, <3>2, <3>3
  <2>2. CASE Stop(w)
    <3>1. NoWork \in WorkRecord /\ NoWork.pc = "idle"
      BY RoomConstants DEF NoWork, WorkRecord
    <3> QED
      BY <2>2, <3>1 DEF Stop
  <2>3. CASE \E s \in Sessions, n \in 0..Retries : worker' = [worker EXCEPT ![w] = [pc |-> "settle", sid |-> s, attempt |-> n]]
    <3>1. PICK s \in Sessions, n \in 0..Retries : worker' = [worker EXCEPT ![w] = [pc |-> "settle", sid |-> s, attempt |-> n]]
      BY <2>3
    <3> DEFINE v == [pc |-> "settle", sid |-> s, attempt |-> n]
    <3>2. v \in WorkRecord /\ v.sid \in Sessions /\ worker' = [worker EXCEPT ![w] = v]
      BY <3>1 DEF WorkRecord
    <3> HIDE DEF v
    <3> QED
      BY <3>2
  <2> QED
    BY <2>1, <2>2, <2>3
<1> QED
  BY <1>0, <1>1 DEF WorkersTyped

LEMMA WorkerRows ==
    ASSUME RInv, NEW w \in Workers,
           \/ Settle(w) \/ SettleEnds(w) \/ NoModel(w) \/ FinalizeCrashes(w)
           \/ \E s \in Sessions, n \in 0..Retries : TakeFinalize(w, s, n)
    PROVE  RowsKept
<1>1. CASE UNCHANGED session
  BY <1>1, RowTyped DEF RInv, RowsKept
<1> DEFINE s == worker[w].sid
<1>2. ASSUME worker[w].pc # "idle" PROVE s \in Sessions
  BY <1>2 DEF RInv, WorkersTyped
<1>3. CASE SettleEnds(w)
  <2>1. s \in Sessions /\ session' = [session EXCEPT ![s] = Ended(session[s], "disconnected")]
    BY <1>2, <1>3 DEF SettleEnds, Doing
  <2> QED
    BY <2>1, EndedTyped, RowRewritten
<1>4. CASE s \in Sessions /\ session' = [session EXCEPT ![s].feedback = "failed"]
  <2>1. session' = [session EXCEPT ![s] = [session[s] EXCEPT !.feedback = "failed"]]
    BY <1>4
  <2> HIDE DEF s
  <2>2. [session[s] EXCEPT !.feedback = "failed"] \in SessionRecord
        /\ [session[s] EXCEPT !.feedback = "failed"].results = session[s].results
    BY <1>4, RowTyped DEF SessionRecord
  <2> QED
    BY <1>4, <2>1, <2>2, RowRewritten
<1> QED
  BY <1>1, <1>2, <1>3, <1>4 DEF Settle, NoModel, FinalizeCrashes, TakeFinalize, Doing

\* What was stored is deleted, and the worker goes on to score.
LEMMA ReadResults == ASSUME RInv, NEW w \in Workers, ReadTurns(w) PROVE session' \in [Sessions -> SessionRecord] /\ ResultsApart'
<1> DEFINE s == worker[w].sid
<1>0. s \in Sessions /\ worker \in [Workers -> WorkRecord]
  BY DEF RInv, WorkersTyped, ReadTurns, Doing
<1>1. CASE UNCHANGED session /\ Stop(w)
  <2>1. RowsKept
    BY <1>1, RowTyped DEF RInv, RowsKept
  <2>2. \A q \in Workers : worker'[q] = worker[q] \/ worker'[q].pc # "score"
    BY <1>0, <1>1 DEF Stop, NoWork
  <2> QED
    BY <2>1, <2>2, ResultsKept DEF RowsKept
<1>2. CASE session' = [session EXCEPT ![s].results = 0] /\ Step(w, "score")
  <2>1. session' = [session EXCEPT ![s] = [session[s] EXCEPT !.results = 0]]
    BY <1>2
  <2>2. worker' = [worker EXCEPT ![w] = [worker[w] EXCEPT !.pc = "score"]]
    BY <1>2 DEF Step
  <2>3. \A q \in Workers : (q # w => worker'[q] = worker[q]) /\ worker'[w].sid = s
    BY <1>0, <2>2 DEF WorkRecord
  <2> HIDE DEF s
  <2>4. [session[s] EXCEPT !.results = 0] \in SessionRecord /\ [session[s] EXCEPT !.results = 0].results = 0
    BY <1>0, RowTyped DEF SessionRecord
  <2>5. RowsKept /\ session'[s].results = 0 /\ \A q \in Sessions : q # s => session'[q] = session[q]
    BY <1>0, <2>1, <2>4, RowRewritten DEF RInv
  <2>6. ASSUME NEW q \in Sessions PROVE session'[q].results + Cardinality(Scoring(q)') <= Cardinality(Workers)
    <3>1. CASE q = s
      BY <2>5, <3>1, ScoringCounted
    <3>2. CASE q # s
      <4>1. Scoring(q)' \subseteq Scoring(q)
        BY <2>3, <3>2 DEF Scoring
      <4>2. Cardinality(Scoring(q)') <= Cardinality(Scoring(q))
        BY <4>1, ScoringCounted, FS_Subset
      <4>3. session[q].results \in Nat /\ session[q].results + Cardinality(Scoring(q)) <= Cardinality(Workers)
        BY RowTyped DEF RInv, ResultsApart
      <4> QED
        BY <2>5, <3>2, <4>2, <4>3, ScoringCounted
    <3> QED
      BY <3>1, <3>2
  <2> QED
    BY <2>5, <2>6 DEF RowsKept, ResultsApart, Scoring
<1> QED
  BY <1>1, <1>2 DEF ReadTurns

\* A result is added by a worker that no longer scores.
LEMMA ScoreResults == ASSUME RInv, NEW w \in Workers, Scores(w) PROVE session' \in [Sessions -> SessionRecord] /\ ResultsApart'
<1>s. PICK s \in Sessions : s = worker[w].sid
  BY DEF RInv, WorkersTyped, Scores, Doing
<1>0. s \in Sessions /\ worker \in [Workers -> WorkRecord] /\ w \in Scoring(s) /\ Stop(w)
  BY <1>s DEF RInv, WorkersTyped, Scores, Doing, Scoring
<1>1. \A q \in Workers : (q # w => worker'[q] = worker[q]) /\ worker'[w].pc # "score"
  BY <1>0 DEF Stop, NoWork
<1>2. CASE UNCHANGED session
  <2>1. RowsKept
    BY <1>2, RowTyped DEF RInv, RowsKept
  <2> QED
    BY <1>1, <2>1, ResultsKept DEF RowsKept
<1>3. CASE session' = [session EXCEPT ![s].feedback = "ready", ![s].results = @ + 1]
  <2> DEFINE n == session[s].results + 1
  <2>1. session' = [session EXCEPT ![s] = [session[s] EXCEPT !.feedback = "ready", !.results = n]]
    BY <1>0, <1>3 DEF RInv
  <2>2. n \in Nat /\ n = session[s].results + 1 /\ session[s].results \in Nat
    <3>1. session[s].results \in Nat
      BY RowTyped
    <3> QED
      BY <3>1
  <2>3. Scoring(s)' \subseteq Scoring(s) \ {w}
    BY <1>1 DEF Scoring
  <2> HIDE DEF n
  <2>4. [session[s] EXCEPT !.feedback = "ready", !.results = n] \in SessionRecord
        /\ [session[s] EXCEPT !.feedback = "ready", !.results = n].results = n
    BY <1>0, <2>2, RowTyped DEF SessionRecord
  <2>5. /\ session' \in [Sessions -> SessionRecord] /\ session'[s].results = n
        /\ \A q \in Sessions : q # s => session'[q] = session[q]
    BY <1>0, <2>1, <2>4 DEF RInv
  <2>6. ASSUME NEW q \in Sessions PROVE session'[q].results + Cardinality(Scoring(q)') <= Cardinality(Workers)
    <3>1. session[q].results \in Nat /\ session[q].results + Cardinality(Scoring(q)) <= Cardinality(Workers)
      BY RowTyped DEF RInv, ResultsApart
    <3>2. CASE q = s
      <4>1. Cardinality(Scoring(s) \ {w}) = Cardinality(Scoring(s)) - 1 /\ IsFiniteSet(Scoring(s) \ {w})
        BY <1>0, ScoringCounted, FS_RemoveElement
      <4>2. Cardinality(Scoring(s)') <= Cardinality(Scoring(s) \ {w})
        BY <2>3, <4>1, FS_Subset
      <4> QED
        BY <2>2, <2>5, <3>1, <3>2, <4>1, <4>2, ScoringCounted
    <3>3. CASE q # s
      <4>1. Scoring(q)' \subseteq Scoring(q)
        BY <1>1 DEF Scoring
      <4>2. Cardinality(Scoring(q)') <= Cardinality(Scoring(q))
        BY <4>1, ScoringCounted, FS_Subset
      <4> QED
        BY <2>5, <3>1, <3>3, <4>2, ScoringCounted
    <3> QED
      BY <3>2, <3>3
  <2> QED
    BY <2>5, <2>6 DEF ResultsApart, Scoring
<1> QED
  BY <1>s, <1>2, <1>3 DEF Scores

LEMMA WorkerTypes ==
    ASSUME RInv, NEW w \in Workers, WorkerStep(w)
    PROVE  /\ WorkersTyped' /\ lock' = lock /\ minted' = minted /\ waiting' = waiting
           /\ queued' \in [Sessions \X (0..Retries) -> Nat]
<1>0. /\ queued \in [Sessions \X (0..Retries) -> Nat] /\ worker \in [Workers -> WorkRecord] /\ Retries \in Nat
      /\ worker[w].pc # "idle" => worker[w].sid \in Sessions
      /\ worker[w].attempt \in 0..Retries
  BY RoomConstants DEF RInv, WorkersTyped, WorkRecord
<1>1. lock' = lock /\ minted' = minted /\ waiting' = waiting
  BY DEF WorkerStep, Settle, SettleEnds, ReadTurns, Scores, NoModel, FinalizeCrashes, TakeFinalize
<1>2. /\ \/ \E pc \in {"settle", "end", "read", "score"} : Step(w, pc) /\ worker[w].pc # "idle"
         \/ Stop(w)
         \/ \E s \in Sessions, n \in 0..Retries : worker' = [worker EXCEPT ![w] = [pc |-> "settle", sid |-> s, attempt |-> n]]
  BY DEF WorkerStep, Settle, SettleEnds, ReadTurns, Scores, NoModel, FinalizeCrashes, TakeFinalize, Doing
<1>3. CASE UNCHANGED queued
  BY <1>0, <1>1, <1>2, <1>3, WorkerMoves
<1>4. CASE \E s \in Sessions, n \in 0..Retries : TakeFinalize(w, s, n)
  <2>1. PICK s \in Sessions, n \in 0..Retries : TakeFinalize(w, s, n)
    BY <1>4
  <2>2. queued' = [queued EXCEPT ![<<s, n>>] = @ - 1] /\ queued[<<s, n>>] > 0
    BY <2>1 DEF TakeFinalize
  <2>3. queued[<<s, n>>] - 1 \in Nat
    BY <1>0, <2>2
  <2> QED
    BY <1>0, <1>1, <1>2, <2>2, <2>3, WorkerMoves
<1>5. CASE NoModel(w)
  <2> DEFINE s == worker[w].sid
             n == worker[w].attempt
  <2>1. s \in Sessions
    BY <1>0, <1>5 DEF NoModel, Doing
  <2>2. CASE n < Retries /\ queued' = [queued EXCEPT ![<<s, n + 1>>] = @ + 1]
    <3>1. <<s, n + 1>> \in Sessions \X (0..Retries)
      BY <1>0, <2>1, <2>2
    <3>2. queued[<<s, n + 1>>] + 1 \in Nat
      BY <1>0, <3>1
    <3> QED
      BY <1>0, <1>1, <1>2, <2>2, <3>1, <3>2, WorkerMoves
  <2>3. n < Retries \/ queued' = queued
    BY <1>5 DEF NoModel
  <2>4. n < Retries => queued' = [queued EXCEPT ![<<s, n + 1>>] = @ + 1]
    BY <1>5 DEF NoModel
  <2> QED
    BY <1>3, <2>2, <2>3, <2>4
<1> QED
  BY <1>3, <1>4, <1>5 DEF WorkerStep, Settle, SettleEnds, ReadTurns, Scores, FinalizeCrashes

-----------------------------------------------------------------------------
LEMMA RoomStepTyped == ASSUME RInv, RoomNext PROVE RInv'
<1>0. VInv'
  BY RoomStepHolds DEF RInv
<1>1. ASSUME worker' = worker PROVE WorkersTyped' /\ \A w \in Workers : worker'[w] = worker[w] \/ worker'[w].pc # "score"
  BY <1>1 DEF RInv, WorkersTyped
<1>2. CASE \E s \in Sessions :
             \/ \E mode \in Modes : CreateSession(s, mode)
             \/ StreamToken(s) \/ TokenExpires(s) \/ RetryFeedback(s) \/ DeleteSession(s) \/ PurgeExpired(s)
             \/ WindowPasses(s)
  <2>1. PICK s \in Sessions :
             \/ \E mode \in Modes : CreateSession(s, mode)
             \/ StreamToken(s) \/ TokenExpires(s) \/ RetryFeedback(s) \/ DeleteSession(s) \/ PurgeExpired(s)
             \/ WindowPasses(s)
    BY <1>2
  <2>2. RowsKept
    BY <2>1, RequestRows
  <2>3. /\ lock' = lock /\ worker' = worker
        /\ minted' \in [Sessions -> Nat] /\ waiting' \in [Sessions -> Nat]
        /\ queued' \in [Sessions \X (0..Retries) -> Nat]
    BY <2>1, RequestTypes
  <2>4. ResultsApart'
    BY <1>1, <2>2, <2>3, ResultsKept
  <2> QED
    BY <1>0, <1>1, <2>2, <2>3, <2>4 DEF RInv, RowsKept
<1>3. CASE AcknowledgeCopilot \/ SettingsChange \/ DeleteHistory
  <2>1. UNCHANGED <<minted, lock, queued, waiting, worker>>
    BY <1>3 DEF AcknowledgeCopilot, SettingsChange, DeleteHistory
  <2>2. RowsKept
    <3>1. CASE UNCHANGED session
      BY <3>1, RowTyped DEF RInv, RowsKept
    <3>2. CASE DeleteHistory
      BY <3>2, WipedTyped DEF DeleteHistory
    <3> QED
      BY <1>3, <3>1, <3>2 DEF AcknowledgeCopilot, SettingsChange
  <2>3. ResultsApart'
    BY <1>1, <2>1, <2>2, ResultsKept
  <2> QED
    BY <1>0, <1>1, <2>1, <2>2, <2>3 DEF RInv, RowsKept
<1>4. CASE \E c \in Sockets :
             \/ \E s \in Sessions : Authenticate(c, s)
             \/ SocketStep(c) \/ Message(c) \/ Finish(c) \/ CutShort(c) \/ Disconnect(c) \/ FrameTooBig(c)
  <2>1. PICK c \in Sockets :
             \/ \E s \in Sessions : Authenticate(c, s)
             \/ SocketStep(c) \/ Message(c) \/ Finish(c) \/ CutShort(c) \/ Disconnect(c) \/ FrameTooBig(c)
    BY <1>4
  <2>2. RowsKept
    BY <2>1, SocketRows
  <2>3. /\ lock' \in Sessions \cup {NoSession} /\ worker' = worker
        /\ minted' \in [Sessions -> Nat] /\ waiting' \in [Sessions -> Nat]
        /\ queued' \in [Sessions \X (0..Retries) -> Nat]
    BY <2>1, SocketTypes
  <2>4. ResultsApart'
    BY <1>1, <2>2, <2>3, ResultsKept
  <2> QED
    BY <1>0, <1>1, <2>2, <2>3, <2>4 DEF RInv, RowsKept
<1>5. CASE \E w \in Workers : WorkerStep(w)
  <2>1. PICK w \in Workers : WorkerStep(w)
    BY <1>5
  <2>2. /\ WorkersTyped' /\ lock' = lock /\ minted' = minted /\ waiting' = waiting
        /\ queued' \in [Sessions \X (0..Retries) -> Nat]
    BY <2>1, WorkerTypes
  <2>3. session' \in [Sessions -> SessionRecord] /\ ResultsApart'
    <3>1. CASE \/ Settle(w) \/ SettleEnds(w) \/ NoModel(w) \/ FinalizeCrashes(w)
               \/ \E s \in Sessions, n \in 0..Retries : TakeFinalize(w, s, n)
      <4>1. \A q \in Workers : worker'[q] = worker[q] \/ worker'[q].pc # "score"
        <5>1. worker \in [Workers -> WorkRecord]
          BY DEF RInv, WorkersTyped
        <5>2. CASE Stop(w)
          BY <5>1, <5>2 DEF Stop, NoWork
        <5>3. CASE Step(w, "end") \/ Step(w, "read")
          BY <5>1, <5>3 DEF Step, WorkRecord
        <5>4. CASE \E s \in Sessions, n \in 0..Retries : TakeFinalize(w, s, n)
          <6>1. PICK s \in Sessions, n \in 0..Retries : TakeFinalize(w, s, n)
            BY <5>4
          <6>2. worker' = [worker EXCEPT ![w] = [pc |-> "settle", sid |-> s, attempt |-> n]]
            BY <6>1 DEF TakeFinalize
          <6> QED
            BY <5>1, <6>2
        <5> QED
          BY <3>1, <5>2, <5>3, <5>4 DEF Settle, SettleEnds, NoModel, FinalizeCrashes
      <4> QED
        BY <3>1, <4>1, WorkerRows, ResultsKept DEF RowsKept
    <3> QED
      BY <2>1, <3>1, ReadResults, ScoreResults DEF WorkerStep
  <2> QED
    BY <1>0, <2>2, <2>3 DEF RInv
<1> QED
  BY <1>2, <1>3, <1>4, <1>5 DEF RoomNext

LEMMA RoomTyped ==
    /\ RoomInit => RInv
    /\ RInv /\ [RoomNext]_vvars => RInv'
    /\ RInv => RoomTypeOK
<1>1. ASSUME RoomInit PROVE RInv
  <2>1. NoRow \in SessionRecord /\ NoRow.results = 0
    BY DEF NoRow, SessionRecord, LIVE_STATES, Modes
  <2>2. NoWork \in WorkRecord /\ NoWork.pc = "idle"
    BY RoomConstants DEF NoWork, WorkRecord
  <2>3. VInv
    BY <1>1, RoomStartsWell
  <2>4. session \in [Sessions -> SessionRecord] /\ \A s \in Sessions : session[s].results = 0
    BY <1>1, <2>1 DEF RoomInit
  <2>5. WorkersTyped
    BY <1>1, <2>2 DEF RoomInit, WorkersTyped
  <2>6. ResultsApart
    BY <2>4, ScoringCounted DEF ResultsApart
  <2>7. /\ minted \in [Sessions -> Nat] /\ waiting \in [Sessions -> Nat] /\ lock \in Sessions \cup {NoSession}
        /\ queued \in [Sessions \X (0..Retries) -> Nat]
    BY <1>1 DEF RoomInit
  <2> QED
    BY <2>3, <2>4, <2>5, <2>6, <2>7 DEF RInv
<1>2. ASSUME RInv, UNCHANGED vvars PROVE RInv'
  <2>1. VInv'
    BY <1>2, OthersHold DEF RInv, vvars
  <2> QED
    BY <1>2, <2>1 DEF RInv, vvars, WorkersTyped, ResultsApart, Scoring
<1>3. ASSUME RInv PROVE RoomTypeOK
  <2>1. ASSUME NEW s \in Sessions PROVE session[s].results \in 0..Cardinality(Workers)
    BY <1>3, RowTyped, ScoringCounted DEF RInv, ResultsApart
  <2>2. session \in [Sessions -> [state : LIVE_STATES \cup {"none", "ended", "gone"}, mode : Modes,
                                 reason : {"none", "user", "idle", "max_minutes", "length", "cost_cap", "disconnected"},
                                 feedback : {"none", "pending", "ready", "failed"}, started : BOOLEAN,
                                 fresh : BOOLEAN, results : 0..Cardinality(Workers)]]
    BY <1>3, <2>1 DEF RInv, SessionRecord
  <2> QED
    BY <1>3, <2>2 DEF RInv, VInv, Socket, WorkersTyped, WorkRecord, RoomTypeOK
<1> QED
  BY <1>1, <1>2, <1>3, RoomStepTyped

-----------------------------------------------------------------------------
(* The types of an interview *)

\* What PInv leaves open of the types of an interview.  An utterance is
\* numbered when it is cut or typed, and that number is all that is queued,
\* transcribed and kept of it; a reply that waits for the answer before it to be
\* written has still a sentence to say.
Utterances == 0..MaxWords
RoomRecord == [paused : BOOLEAN, idle : BOOLEAN, ended : BOOLEAN, free : BOOLEAN,
               pc : {"loop", "barge", "commit", "finish", "close", "closed"}, task : Tasks]
Counts == [main : Nat, follow : Nat, asked : Nat]
Speeches == [pc : {"idle", "busy"}, epoch : Nat]

WordsTyped ==
    /\ said.words <= pscene.words /\ pscene \in PracticeScene
    /\ parts \in Seq(Utterances)
    /\ stt \in [pc : {"idle", "busy"}, queue : Seq(Utterances), cur : Utterances] /\ Len(stt.queue) <= Queue
VoiceOut == tts \in [queue : Seq(Nat), cur : Speeches]
SpokenInBounds ==
    \A r \in Replies : reply[r].spoken <= MaxSentences /\ (reply[r].pc = "commit" => reply[r].spoken < MaxSentences)

TInv ==
    /\ PInv /\ WordsTyped /\ VoiceOut /\ SpokenInBounds
    /\ gen \in Tasks /\ count \in Counts /\ room \in RoomRecord

LEMMA NextReplyIsFree == ASSUME pscene \in PracticeScene, Unused # {} PROVE NextReply \in Replies /\ NextReply \in Unused
<1>1. Unused \subseteq Nat
  BY DEF Unused
<1>2. \E r \in Unused : \A q \in Unused : r <= q
  BY <1>1, NatMin
<1>3. NextReply \in Unused
  BY <1>2 DEF NextReply
<1>4. pscene.replies \in Nat /\ pscene.replies <= MaxReplies /\ MaxReplies \in Nat
  BY PracticeConstants DEF PracticeScene
<1> QED
  BY <1>3, <1>4 DEF Unused, Replies

-----------------------------------------------------------------------------
(* Utterances *)

LEMMA QueuedTyped ==
    ASSUME TInv, NEW u \in Utterances
    PROVE  Queued(u) \in Seq(Utterances) /\ Len(Queued(u)) <= Queue
<1>1. stt.queue \in Seq(Utterances) /\ Len(stt.queue) <= Queue /\ Queue \in Nat /\ Queue > 0 /\ Len(stt.queue) \in Nat
  BY PracticeConstants DEF TInv, WordsTyped
<1>2. CASE Len(stt.queue) < Queue
  <2>1. Queued(u) = Append(stt.queue, u)
    BY <1>2 DEF Queued
  <2> QED
    BY <1>1, <1>2, <2>1
<1>3. CASE ~(Len(stt.queue) < Queue)
  <2>1. Queued(u) = Append(Tail(stt.queue), u) /\ stt.queue # <<>>
    BY <1>1, <1>3 DEF Queued
  <2>2. Tail(stt.queue) \in Seq(Utterances) /\ Len(Tail(stt.queue)) = Len(stt.queue) - 1
    BY <1>1, <2>1
  <2> QED
    BY <1>1, <2>1, <2>2
<1> QED
  BY <1>2, <1>3

LEMMA WordsFacts ==
    ASSUME TInv
    PROVE  /\ said.words \in Nat /\ pscene.words \in Nat /\ pscene.words <= MaxWords /\ MaxWords \in Nat
           /\ said.words < pscene.words => said.words + 1 \in Utterances /\ said.words + 1 <= pscene.words
           /\ 0 \in Utterances
<1>1. said.words \in Nat /\ MaxWords \in Nat /\ pscene.words \in 0..MaxWords
  BY PracticeConstants DEF TInv, PInv, WordsTyped, PracticeScene
<1> QED
  BY <1>1 DEF Utterances

\* An utterance is cut, and goes to the speech-to-text worker.
LEMMA CutTyped ==
    ASSUME TInv, UNCHANGED <<pscene, parts>>, said.words < pscene.words,
           said' = [said EXCEPT !.words = @ + 1], stt' = [stt EXCEPT !.queue = Queued(said.words + 1)]
    PROVE  WordsTyped'
<1>1. said.words + 1 \in Utterances /\ said.words + 1 <= pscene.words
  BY WordsFacts
<1>2. said'.words = said.words + 1
  BY DEF TInv, PInv
<1> DEFINE q == Queued(said.words + 1)
<1>3. q \in Seq(Utterances) /\ Len(q) <= Queue
  BY <1>1, QueuedTyped
<1> HIDE DEF q
<1>4. stt' = [stt EXCEPT !.queue = q] /\ stt \in [pc : {"idle", "busy"}, queue : Seq(Utterances), cur : Utterances]
  BY DEF TInv, WordsTyped, q
<1>5. stt' \in [pc : {"idle", "busy"}, queue : Seq(Utterances), cur : Utterances] /\ stt'.queue = q
  BY <1>3, <1>4
<1>6. pscene' \in PracticeScene /\ parts' \in Seq(Utterances)
  BY DEF TInv, WordsTyped
<1> QED
  BY <1>1, <1>2, <1>3, <1>5, <1>6 DEF WordsTyped

LEMMA PracticeWords == ASSUME TInv, PracticeNext PROVE WordsTyped'
<1>0. /\ said \in [words : Nat, stale : {FALSE}] /\ said.words <= pscene.words /\ pscene \in PracticeScene
      /\ parts \in Seq(Utterances)
      /\ stt \in [pc : {"idle", "busy"}, queue : Seq(Utterances), cur : Utterances] /\ Len(stt.queue) <= Queue
  BY DEF TInv, PInv, WordsTyped
<1>1. ASSUME UNCHANGED <<pscene, stt>>, said'.words = said.words, parts' = parts \/ parts' = <<>> PROVE WordsTyped'
  <2>1. parts' \in Seq(Utterances)
    <3>1. <<>> \in Seq(Utterances)
      OBVIOUS
    <3> QED
      BY <1>0, <1>1, <3>1
  <2>2. said'.words <= pscene'.words /\ stt' = stt /\ pscene' = pscene
    BY <1>0, <1>1
  <2> QED
    BY <1>0, <2>1, <2>2 DEF WordsTyped
<1>2. ASSUME NEW r \in Replies, Speak(r) PROVE said'.words = said.words
  <2> DEFINE stale == said.stale \/ gen # r
  <2>1. said' = [said EXCEPT !.stale = stale]
    BY <1>2 DEF Speak
  <2> HIDE DEF stale
  <2> QED
    BY <1>0, <2>1
<1>3. CASE \E r \in Replies : RunReply(r) \/ Sentence(r) \/ CommitReturns(r) \/ ReplyEnds(r) \/ TailCommits(r) \/ ReplyTail(r)
                              \/ Recorded(r) \/ ReplyFails(r)
  <2>1. PICK r \in Replies : RunReply(r) \/ Sentence(r) \/ CommitReturns(r) \/ ReplyEnds(r) \/ TailCommits(r) \/ ReplyTail(r)
                              \/ Recorded(r) \/ ReplyFails(r)
    BY <1>3
  <2>2. UNCHANGED <<pscene, stt>> /\ (parts' = parts \/ parts' = <<>>)
    BY <2>1 DEF RunReply, Sentence, CommitReturns, ReplyEnds, TailCommits, ReplyTail, Recorded, ReplyFails, Committed
  <2>3. said'.words = said.words
    <3>1. said' = said \/ Speak(r)
      BY <2>1 DEF RunReply, Sentence, CommitReturns, ReplyEnds, TailCommits, ReplyTail, Recorded, ReplyFails
    <3> QED
      BY <1>2, <3>1
  <2> QED
    BY <1>1, <2>2, <2>3
<1>4. CASE QueueUtterance
  <2>1. /\ said.words < pscene.words /\ said' = [said EXCEPT !.words = @ + 1]
        /\ stt' = [stt EXCEPT !.queue = Queued(said.words + 1)] /\ UNCHANGED <<pscene, parts>>
    BY <1>4 DEF QueueUtterance
  <2> QED
    BY <2>1, CutTyped
<1>5. CASE ControlPause
  <2>1. CASE said.words < pscene.words /\ said' = [said EXCEPT !.words = @ + 1] /\ stt' = [stt EXCEPT !.queue = Queued(said.words + 1)]
    BY <1>5, <2>1, CutTyped DEF ControlPause
  <2>2. CASE UNCHANGED <<said, stt>>
    BY <1>1, <1>5, <2>2 DEF ControlPause
  <2> QED
    BY <1>5, <2>1, <2>2 DEF ControlPause
<1>6. CASE SttTakes
  <2>1. /\ stt.queue # <<>> /\ stt' = [pc |-> "busy", queue |-> Tail(stt.queue), cur |-> Head(stt.queue)]
        /\ UNCHANGED <<pscene, parts, said>>
    BY <1>6 DEF SttTakes
  <2>2. /\ Tail(stt.queue) \in Seq(Utterances) /\ Head(stt.queue) \in Utterances
        /\ Len(Tail(stt.queue)) = Len(stt.queue) - 1
    BY <1>0, <2>1
  <2>3. stt' \in [pc : {"idle", "busy"}, queue : Seq(Utterances), cur : Utterances] /\ stt'.queue = Tail(stt.queue)
    BY <2>1, <2>2
  <2>4. Len(stt'.queue) <= Queue
    BY <1>0, <2>2, <2>3, PracticeConstants
  <2> QED
    BY <1>0, <2>1, <2>3, <2>4 DEF WordsTyped
<1>7. CASE SttReturns
  <2>1. /\ stt' = [stt EXCEPT !.pc = "idle", !.cur = 0] /\ UNCHANGED <<pscene, said>>
        /\ parts' = parts \/ parts' = Append(parts, stt.cur)
    BY <1>7 DEF SttReturns
  <2>2. parts' \in Seq(Utterances)
    <3>1. stt.cur \in Utterances /\ parts \in Seq(Utterances)
      BY <1>0
    <3>2. CASE parts' = parts
      BY <3>1, <3>2
    <3>3. CASE parts' = Append(parts, stt.cur)
      BY <3>1, <3>3
    <3> QED
      BY <2>1, <3>2, <3>3
  <2>3. stt' \in [pc : {"idle", "busy"}, queue : Seq(Utterances), cur : Utterances] /\ stt'.queue = stt.queue
    BY <1>0, <2>1, WordsFacts
  <2> QED
    BY <1>0, <2>1, <2>2, <2>3 DEF WordsTyped
<1>8. CASE TypedAnswer
  <2>1. /\ said.words < pscene.words /\ said' = [said EXCEPT !.words = @ + 1] /\ parts' = Append(parts, said.words + 1)
        /\ UNCHANGED <<pscene, stt>>
    BY <1>8 DEF TypedAnswer
  <2>2. said.words + 1 \in Utterances /\ said.words + 1 <= pscene.words /\ said'.words = said.words + 1
    BY <1>0, <2>1, WordsFacts
  <2>3. parts' \in Seq(Utterances)
    <3>1. parts \in Seq(Utterances) /\ said.words + 1 \in Utterances /\ parts' = Append(parts, said.words + 1)
      BY <1>0, <2>1, <2>2
    <3> QED
      BY <3>1
  <2> QED
    BY <1>0, <2>1, <2>2, <2>3 DEF WordsTyped
<1>9. CASE ControlSkip
  <2>1. parts' = <<0>> /\ UNCHANGED <<pscene, said, stt>>
    BY <1>9 DEF ControlSkip
  <2>2. parts' \in Seq(Utterances)
    BY <2>1, WordsFacts
  <2> QED
    BY <1>0, <2>1, <2>2 DEF WordsTyped
<1>10. CASE TtsReturns
  <2>1. said'.words = said.words
    BY <1>0, <1>10 DEF TtsReturns
  <2> QED
    BY <1>1, <1>10, <2>1 DEF TtsReturns
<1>11. CASE \/ \E t \in Tasks : Written(t)
            \/ SpeechStart \/ BargeReturns \/ ControlStart \/ ControlResume \/ ControlRepeat \/ ControlBargeIn
            \/ TtsTakes \/ IdleTimeout \/ IdleEnds \/ ControlEnd \/ FinishCommits \/ FinishEnds \/ ClientLeaves \/ ClosePractice
  <2>1. UNCHANGED <<pscene, stt, said>> /\ (parts' = parts \/ parts' = <<>>)
    BY <1>11 DEF Written, SpeechStart, BargeReturns, ControlStart, ControlResume, ControlRepeat, ControlBargeIn,
       TtsTakes, IdleTimeout, IdleEnds, ControlEnd, FinishCommits, FinishEnds, ClientLeaves, ClosePractice, Committed
  <2> QED
    BY <1>1, <2>1
<1> QED
  BY <1>3, <1>4, <1>5, <1>6, <1>7, <1>8, <1>9, <1>10, <1>11 DEF PracticeNext

-----------------------------------------------------------------------------
(* The reply that is coming, and its sentences *)

\* Replies change, and what each has said does not.
SpokenKept ==
    \A r \in Replies : reply'[r].spoken \in {0, reply[r].spoken} /\ (reply'[r].pc = "commit" => reply[r].pc = "commit")

LEMMA KeptInBounds == ASSUME TInv, SpokenKept, reply' \in [Replies -> ReplyRecord] PROVE SpokenInBounds'
<1> SUFFICES ASSUME NEW r \in Replies
             PROVE  reply'[r].spoken <= MaxSentences /\ (reply'[r].pc = "commit" => reply'[r].spoken < MaxSentences)
  BY DEF SpokenInBounds
<1>1. /\ reply[r].spoken <= MaxSentences /\ (reply[r].pc = "commit" => reply[r].spoken < MaxSentences)
      /\ reply[r].spoken \in Nat /\ MaxSentences \in Nat
  BY PracticeConstants DEF TInv, PInv, SpokenInBounds, ReplyRecord
<1>2. reply'[r].spoken \in {0, reply[r].spoken} /\ (reply'[r].pc = "commit" => reply[r].pc = "commit")
  BY DEF SpokenKept
<1> QED
  BY <1>1, <1>2

LEMMA StageKept ==
    ASSUME TInv, NEW r, NEW st, st # "commit", reply' = [reply EXCEPT ![r].pc = st]
    PROVE  SpokenKept
  BY DEF TInv, PInv, SpokenKept, ReplyRecord

LEMMA StartKept ==
    ASSUME TInv, NEW why, NEW rs \in [Replies -> ReplyRecord],
           \A r \in Replies : rs[r].spoken = reply[r].spoken /\ (rs[r].pc = "commit" => reply[r].pc = "commit"),
           StartReply(why, rs)
    PROVE  SpokenKept /\ gen' \in Tasks
<1>1. NextReply \in Replies
  BY NextReplyIsFree DEF StartReply, TInv, WordsTyped
<1>2. PICK tag \in Tags(why) :
        reply' = [rs EXCEPT ![NextReply] =
                     [pc |-> "new", why |-> why, spoken |-> 0, epoch |-> epoch + 1, tag |-> tag]]
  BY DEF StartReply
<1> DEFINE new == [pc |-> "new", why |-> why, spoken |-> 0, epoch |-> epoch + 1, tag |-> tag]
<1>3. new.spoken = 0 /\ new.pc = "new"
  OBVIOUS
<1> HIDE DEF new
<1>4. \A r \in Replies : reply'[r] = IF r = NextReply THEN new ELSE rs[r]
  BY <1>1, <1>2 DEF new
<1> QED
  BY <1>1, <1>3, <1>4 DEF SpokenKept, StartReply, Tasks

LEMMA AnswerKept ==
    ASSUME TInv, NEW why, NEW what, AnswerDone(why, what)
    PROVE  SpokenKept /\ gen' \in Tasks
<1>1. CASE UNCHANGED <<gen, epoch, reply>>
  BY <1>1 DEF TInv, SpokenKept
<1>2. CASE StartReply(why, reply)
  BY <1>2, StartKept DEF TInv, PInv
<1> QED
  BY <1>1, <1>2 DEF AnswerDone

\* A sentence more.
LEMMA SpeakInBounds ==
    ASSUME TInv, NEW r \in Replies, Speak(r), reply[r].spoken < MaxSentences
    PROVE  SpokenInBounds'
<1> DEFINE n == reply[r].spoken + 1
<1>0. reply \in [Replies -> ReplyRecord] /\ MaxSentences \in Nat /\ reply[r].spoken \in Nat
  BY PracticeConstants DEF TInv, PInv, ReplyRecord
<1>1. n \in Nat /\ n <= MaxSentences
  BY <1>0
<1>2. reply' = [reply EXCEPT ![r].pc = "streaming", ![r].spoken = n]
  BY DEF Speak
<1> HIDE DEF n
<1>3. /\ reply'[r].spoken = n /\ reply'[r].pc = "streaming"
      /\ \A q \in Replies : q # r => reply'[q] = reply[q]
  BY <1>0, <1>2 DEF ReplyRecord
<1> QED
  BY <1>1, <1>3 DEF TInv, SpokenInBounds

LEMMA ReplySpoken ==
    ASSUME TInv, PInv', NEW r \in Replies,
           \/ RunReply(r) \/ Sentence(r) \/ CommitReturns(r) \/ ReplyEnds(r) \/ TailCommits(r) \/ ReplyTail(r)
           \/ Recorded(r) \/ ReplyFails(r)
    PROVE  SpokenInBounds' /\ gen' \in Tasks
<1>0. gen' \in Tasks
  BY DEF TInv, RunReply, Sentence, CommitReturns, ReplyEnds, TailCommits, ReplyTail, Recorded, ReplyFails, Tasks, NoGen, SocketLoop
<1>r. reply' \in [Replies -> ReplyRecord] /\ reply \in [Replies -> ReplyRecord]
  BY DEF PInv, TInv
<1>1. CASE \E st \in {"new", "streaming", "tail", "answer", "closing", "record", "done"} : reply' = [reply EXCEPT ![r].pc = st]
  BY <1>0, <1>r, <1>1, StageKept, KeptInBounds
<1>2. CASE Sentence(r) /\ reply' = [reply EXCEPT ![r].pc = "commit"]
  <2>1. reply[r].spoken < MaxSentences
    BY <1>2 DEF Sentence
  <2>2. /\ reply'[r].spoken = reply[r].spoken
        /\ \A q \in Replies : q # r => reply'[q] = reply[q]
    BY <1>r, <1>2 DEF ReplyRecord
  <2> QED
    BY <1>0, <2>1, <2>2 DEF TInv, SpokenInBounds
<1>3. CASE Sentence(r) /\ Speak(r)
  <2>1. reply[r].spoken < MaxSentences
    BY <1>3 DEF Sentence
  <2> QED
    BY <1>0, <1>3, <2>1, SpeakInBounds
<1>4. CASE CommitReturns(r)
  <2>1. reply[r].spoken < MaxSentences /\ Speak(r)
    BY <1>4 DEF CommitReturns, TInv, SpokenInBounds
  <2> QED
    BY <1>0, <2>1, SpeakInBounds
<1>5. CASE ReplyEnds(r)
  BY <1>1, <1>5 DEF ReplyEnds
<1> QED
  BY <1>1, <1>2, <1>3, <1>4, <1>5 DEF RunReply, Sentence, TailCommits, ReplyTail, Recorded, ReplyFails, Dropped

\* Dropping the reply that is coming.
LEMMA DropKept ==
    ASSUME TInv, reply' = Dropped(gen), gen' = NoGen
    PROVE  SpokenKept /\ gen' \in Tasks
<1>1. SpokenKept
  BY StageKept DEF Dropped
<1> QED
  BY <1>1 DEF Tasks, NoGen, SocketLoop

LEMMA OthersSpoken ==
    ASSUME TInv, PInv',
           \/ \E t \in Tasks : Written(t)
           \/ SpeechStart \/ BargeReturns \/ QueueUtterance \/ SttTakes \/ SttReturns \/ TypedAnswer
           \/ ControlStart \/ ControlPause \/ ControlResume \/ ControlRepeat \/ ControlSkip \/ ControlBargeIn
           \/ TtsTakes \/ TtsReturns \/ IdleTimeout \/ IdleEnds \/ ControlEnd \/ FinishCommits \/ FinishEnds
           \/ ClientLeaves \/ ClosePractice
    PROVE  SpokenInBounds' /\ gen' \in Tasks
<1>r. reply' \in [Replies -> ReplyRecord] /\ reply \in [Replies -> ReplyRecord]
  BY DEF PInv, TInv
<1> SUFFICES SpokenKept /\ gen' \in Tasks
  BY <1>r, KeptInBounds
<1>1. CASE UNCHANGED <<gen, reply>>
  BY <1>1 DEF TInv, SpokenKept
<1>2. ASSUME BargeIn PROVE SpokenKept /\ gen' \in Tasks
  BY <1>1, <1>2, DropKept DEF BargeIn
<1>3. CASE SpeechStart
  BY <1>2, <1>3, DropKept DEF SpeechStart, CancelPending
<1>4. CASE SttReturns
  BY <1>1, <1>4, AnswerKept DEF SttReturns
<1>5. CASE TypedAnswer
  <2>1. Dropped(gen) \in [Replies -> ReplyRecord]
        /\ \A r \in Replies : /\ Dropped(gen)[r].spoken = reply[r].spoken
                              /\ Dropped(gen)[r].pc = "commit" => reply[r].pc = "commit"
    BY <1>r DEF Dropped, ReplyRecord
  <2> QED
    BY <1>5, <2>1, StartKept, AnswerKept DEF TypedAnswer
<1>6. CASE ControlStart
  BY <1>r, <1>6, StartKept DEF ControlStart
<1>7. CASE ControlSkip
  BY <1>7, AnswerKept DEF ControlSkip
<1>8. CASE ControlBargeIn
  BY <1>2, <1>8 DEF ControlBargeIn
<1>9. CASE FinishCommits
  <2>1. CASE gen # NoGen
    BY <1>9, <2>1, DropKept DEF FinishCommits
  <2>2. CASE gen = NoGen
    BY <1>1, <1>9, <2>2 DEF FinishCommits
  <2> QED
    BY <2>1, <2>2
<1>10. CASE ClosePractice
  <2>1. \A r \in Replies : reply'[r] = IF reply[r].pc = "off" THEN reply[r] ELSE [reply[r] EXCEPT !.pc = "done"]
    BY <1>10 DEF ClosePractice
  <2>2. \A r \in Replies : reply'[r].spoken = reply[r].spoken /\ reply'[r].pc \in {"off", "done"}
    BY <1>r, <2>1 DEF ReplyRecord
  <2> QED
    BY <1>10, <2>2 DEF ClosePractice, SpokenKept, TInv
<1> QED
  BY <1>1, <1>3, <1>4, <1>5, <1>6, <1>7, <1>8, <1>9, <1>10
     DEF Written, BargeReturns, QueueUtterance, SttTakes, ControlPause, ControlResume, ControlRepeat,
     TtsTakes, TtsReturns, IdleTimeout, IdleEnds, ControlEnd, FinishEnds, ClientLeaves

-----------------------------------------------------------------------------
(* The socket, the counts and the voice *)

LEMMA PracticeRoom == ASSUME TInv, PracticeNext PROVE room' \in RoomRecord
<1>0. room \in RoomRecord /\ SocketLoop \in Tasks /\ Replies \subseteq Tasks
  BY DEF TInv, Tasks
<1>1. CASE UNCHANGED room
  BY <1>0, <1>1
<1>2. CASE \E r \in Replies : ReplyEnds(r) \/ Recorded(r) \/ ReplyFails(r)
  <2>1. PICK r \in Replies : ReplyEnds(r) \/ Recorded(r) \/ ReplyFails(r)
    BY <1>2
  <2>2. CASE ReplyEnds(r)
    <3>1. PICK spent \in BOOLEAN : room' = [room EXCEPT !.free = @ \/ spent]
      BY <2>2 DEF ReplyEnds
    <3> DEFINE f == room.free \/ spent
    <3>2. f \in BOOLEAN
      OBVIOUS
    <3>3. room' = [room EXCEPT !.free = f]
      BY <3>1
    <3> HIDE DEF f
    <3> QED
      BY <1>0, <3>2, <3>3 DEF RoomRecord
  <2>3. CASE room' = [room EXCEPT !.ended = TRUE, !.pc = "finish", !.task = r]
    BY <1>0, <2>3 DEF RoomRecord
  <2> QED
    BY <1>1, <2>1, <2>2, <2>3 DEF Recorded, ReplyFails
<1>3. CASE SpeechStart \/ ControlBargeIn \/ BargeReturns
  BY <1>0, <1>3 DEF SpeechStart, ControlBargeIn, BargeIn, CancelPending, BargeReturns, RoomRecord
<1>4. CASE ControlPause \/ ControlResume \/ IdleEnds \/ IdleTimeout \/ ControlEnd
  BY <1>0, <1>4 DEF ControlPause, ControlResume, IdleEnds, IdleTimeout, ControlEnd, RoomRecord
<1>5. CASE FinishCommits \/ FinishEnds \/ ClientLeaves \/ ClosePractice
  BY <1>0, <1>5 DEF FinishCommits, FinishEnds, ClientLeaves, ClosePractice, RoomRecord
<1> QED
  BY <1>1, <1>2, <1>3, <1>4, <1>5 DEF PracticeNext, RunReply, Sentence, CommitReturns, TailCommits, ReplyTail, Written,
     QueueUtterance, SttTakes, SttReturns, TypedAnswer, ControlStart, ControlRepeat, ControlSkip, TtsTakes, TtsReturns

LEMMA PracticeCounts == ASSUME TInv, PracticeNext PROVE count' \in Counts
<1>0. count \in Counts /\ count.main \in Nat /\ count.follow \in Nat /\ count.asked \in Nat
  BY DEF TInv, Counts
<1>1. CASE UNCHANGED count
  BY <1>0, <1>1
<1>2. CASE \E r \in Replies : ReplyTail(r)
  <2>1. PICK r \in Replies : count' = Counted(r)
    BY <1>2 DEF ReplyTail
  <2>2. Counted(r) \in Counts
    <3>1. /\ Counted(r).main \in Nat /\ Counted(r).follow \in Nat /\ Counted(r).asked \in Nat
          /\ Counted(r) = [main |-> Counted(r).main, follow |-> Counted(r).follow, asked |-> Counted(r).asked]
      BY <1>0 DEF Counted
    <3> QED
      BY <3>1 DEF Counts
  <2> QED
    BY <2>1, <2>2
<1>3. CASE count' = [count EXCEPT !.asked = @ + 1]
  BY <1>0, <1>3 DEF Counts
<1> QED
  BY <1>1, <1>2, <1>3 DEF PracticeNext, RunReply, Sentence, CommitReturns, ReplyEnds, TailCommits, Recorded, ReplyFails, Written,
     SpeechStart, BargeIn, CancelPending, BargeReturns, QueueUtterance, SttTakes, SttReturns, TypedAnswer,
     ControlStart, ControlPause, ControlResume, ControlRepeat, ControlSkip, ControlBargeIn,
     TtsTakes, TtsReturns, IdleTimeout, IdleEnds, ControlEnd, FinishCommits, FinishEnds, ClientLeaves, ClosePractice

LEMMA PracticeVoice == ASSUME TInv, PracticeNext PROVE VoiceOut'
<1>0. /\ tts \in [queue : Seq(Nat), cur : Speeches] /\ epoch \in Nat /\ NoSpeech \in Speeches
      /\ reply \in [Replies -> ReplyRecord]
  BY DEF TInv, VoiceOut, PInv, NoSpeech, Speeches
<1>1. CASE UNCHANGED tts
  BY <1>0, <1>1 DEF VoiceOut
<1>2. ASSUME NEW e \in Nat, tts' = [tts EXCEPT !.queue = Append(@, e)] PROVE VoiceOut'
  <2>1. Append(tts.queue, e) \in Seq(Nat)
    BY <1>0, <1>2
  <2> QED
    BY <1>0, <1>2, <2>1 DEF VoiceOut
<1>3. ASSUME NEW r \in Replies, Speak(r) PROVE VoiceOut'
  <2>1. reply[r].epoch \in Nat
    BY <1>0 DEF ReplyRecord
  <2> QED
    BY <1>1, <1>2, <1>3, <2>1 DEF Speak
<1>4. CASE ControlRepeat
  <2>1. epoch + 1 \in Nat
    BY <1>0
  <2> QED
    BY <1>1, <1>2, <1>4, <2>1 DEF ControlRepeat
<1>5. CASE TtsTakes
  <2>1. PICK cur \in Speeches : tts.queue # <<>> /\ tts' = [queue |-> Tail(tts.queue), cur |-> cur]
    <3>1. [pc |-> "busy", epoch |-> epoch] \in Speeches
      BY <1>0 DEF Speeches
    <3> QED
      BY <1>0, <1>5, <3>1 DEF TtsTakes
  <2>2. Tail(tts.queue) \in Seq(Nat)
    BY <1>0, <2>1
  <2> QED
    BY <2>1, <2>2 DEF VoiceOut
<1>6. CASE TtsReturns
  <2>1. tts' = [tts EXCEPT !.cur = NoSpeech]
    BY <1>6 DEF TtsReturns
  <2> QED
    BY <1>0, <2>1 DEF VoiceOut
<1> QED
  BY <1>1, <1>3, <1>4, <1>5, <1>6 DEF PracticeNext, RunReply, Sentence, CommitReturns, ReplyEnds, TailCommits, ReplyTail,
     Recorded, ReplyFails, Written,
     SpeechStart, BargeReturns, QueueUtterance, SttTakes, SttReturns, TypedAnswer,
     ControlStart, ControlPause, ControlResume, ControlSkip, ControlBargeIn,
     IdleTimeout, IdleEnds, ControlEnd, FinishCommits, FinishEnds, ClientLeaves, ClosePractice

LEMMA PracticeTyped ==
    /\ PracticeInit => TInv
    /\ TInv /\ [PracticeNext]_pvars => TInv'
    /\ TInv => PracticeTypeOK
<1>1. ASSUME PracticeInit PROVE TInv
  <2>1. PInv /\ pscene \in PracticeScene
    BY <1>1, PracticeStarts, PracticeConstants DEF PracticeInit
  <2>2. said.words = 0 /\ pscene.words \in Nat /\ parts = <<>> /\ stt = [pc |-> "idle", queue |-> <<>>, cur |-> 0]
    BY <1>1, <2>1 DEF PracticeInit, PracticeScene
  <2>3. WordsTyped
    <3>1. Len(stt.queue) <= Queue /\ said.words <= pscene.words /\ 0 \in Utterances
      BY <2>2, PracticeConstants DEF Utterances
    <3> QED
      BY <2>1, <2>2, <3>1 DEF WordsTyped
  <2>4. VoiceOut
    BY <1>1 DEF PracticeInit, VoiceOut, NoSpeech, Speeches
  <2>5. SpokenInBounds
    BY <1>1, PracticeConstants DEF PracticeInit, SpokenInBounds, NoReply
  <2>6. gen \in Tasks /\ count \in Counts /\ room \in RoomRecord
    BY <1>1 DEF PracticeInit, Tasks, NoGen, SocketLoop, Counts, RoomRecord
  <2> QED
    BY <2>1, <2>3, <2>4, <2>5, <2>6 DEF TInv
<1>2. ASSUME TInv, PracticeNext PROVE TInv'
  <2>1. PInv'
    BY <1>2, PracticeStep DEF TInv
  <2>2. SpokenInBounds' /\ gen' \in Tasks
    <3>1. CASE \E r \in Replies : RunReply(r) \/ Sentence(r) \/ CommitReturns(r) \/ ReplyEnds(r) \/ TailCommits(r)
                                  \/ ReplyTail(r) \/ Recorded(r) \/ ReplyFails(r)
      BY <1>2, <2>1, <3>1, ReplySpoken
    <3> QED
      BY <1>2, <2>1, <3>1, OthersSpoken DEF PracticeNext
  <2> QED
    BY <1>2, <2>1, <2>2, PracticeWords, PracticeVoice, PracticeCounts, PracticeRoom DEF TInv, RoomRecord, Tasks, Replies
<1>3. ASSUME TInv, UNCHANGED pvars PROVE TInv'
  <2>1. PInv'
    BY <1>3, PracticeStep DEF TInv
  <2> QED
    BY <1>3, <2>1 DEF TInv, pvars, WordsTyped, VoiceOut, SpokenInBounds
<1>4. ASSUME TInv PROVE PracticeTypeOK
  <2>1. ASSUME NEW r \in Replies PROVE reply[r].spoken \in 0..MaxSentences
    BY <1>4, PracticeConstants DEF TInv, PInv, SpokenInBounds, ReplyRecord
  <2>2. reply \in [Replies -> [pc : {"off", "new", "streaming", "commit", "tail", "answer", "closing", "record", "done"},
                              why : {"opening", "answer", "skip"}, spoken : 0..MaxSentences, epoch : Nat,
                              tag : {"Q", "F", "END"}]]
    BY <1>4, <2>1 DEF TInv, PInv, ReplyRecord
  <2>3. stt.pc \in {"idle", "busy"} /\ Len(stt.queue) <= Queue /\ tts.cur.pc \in {"idle", "busy"}
    BY <1>4 DEF TInv, WordsTyped, VoiceOut, Speeches
  <2> QED
    BY <1>4, <2>2, <2>3 DEF TInv, PInv, WordsTyped, Utterances, Counts, RoomRecord, PracticeTypeOK
<1> QED
  BY <1>1, <1>2, <1>3, <1>4

-----------------------------------------------------------------------------
(* The types of the segmenter *)

\* What VadInv leaves open of the segmenter's types: the bounds of its counts.
\* An utterance begins after the chunks held before it, so not before 0.
SpeechCounted ==
    /\ clock.fed <= MaxChunks /\ clock.ms >= Preroll
    /\ Len(preroll) <= Preroll /\ voiced_run <= StartChunks /\ voiced_run <= clock.fed
    /\ ~speech.on => voiced_run < StartChunks
    /\ speech.start >= 0 /\ speech.voiced <= clock.fed /\ speech.silent < EndSilence

LEMMA NewestShort ==
    ASSUME NEW s \in Seq(Nat), NEW n \in Nat
    PROVE  Len(Newest(s, n)) <= n /\ Len(Newest(s, n)) \in Nat
<1>1. CASE Len(s) <= n
  BY <1>1 DEF Newest
<1>2. CASE ~(Len(s) <= n)
  <2>1. Newest(s, n) = SubSeq(s, Len(s) - n + 1, Len(s)) /\ Len(s) \in Nat /\ Len(s) - n + 1 \in 1..(Len(s) + 1)
    BY <1>2 DEF Newest
  <2>2. Len(Newest(s, n)) = Len(s) - (Len(s) - n + 1) + 1
    BY <2>1
  <2> QED
    BY <2>1, <2>2
<1> QED
  BY <1>1, <1>2

LEMMA JumpCounted == ASSUME VadInv, SpeechCounted, ClockJumps PROVE SpeechCounted'
<1>1. clock.ms \in Nat /\ clock.fed \in Nat /\ clock \in [ms : Nat, fed : Nat] /\ Preroll \in Nat
  BY VadFacts, VadNumbers
<1>2. PICK gap \in 1..MaxGap : clock' = [clock EXCEPT !.ms = clock.fed + Preroll + gap]
  BY DEF ClockJumps
<1>3. clock'.fed = clock.fed /\ clock'.ms = clock.fed + Preroll + gap /\ gap \in Nat
  BY <1>1, <1>2, VadNumbers
<1> QED
  BY <1>1, <1>3 DEF ClockJumps, SpeechCounted

\* An utterance that is closed leaves nothing counted.
LEMMA CloseCounted ==
    ASSUME VadInv, SpeechCounted, speech.on, NEW end \in Nat, NEW chunks, NEW voiced, NEW final \in BOOLEAN,
           CloseUtterance(end, chunks, voiced, final), UNCHANGED preroll,
           clock' \in [ms : Nat, fed : Nat], clock'.fed \in clock.fed..MaxChunks, clock'.ms >= Preroll
    PROVE  SpeechCounted'
<1>1. /\ clock.fed \in Nat /\ voiced_run \in Nat /\ speech \in SpeechState /\ StartChunks \in Nat /\ StartChunks > 0
      /\ EndSilence \in Nat /\ EndSilence > 0 /\ MaxChunks \in Nat
  BY VadFacts, VadNumbers, VadConstants
<1>2. /\ speech'.on = ~final /\ speech'.start \in Nat /\ speech'.voiced = 0 /\ speech'.silent = 0
      /\ voiced_run' = IF final THEN 0 ELSE voiced_run
  BY <1>1 DEF CloseUtterance, Quiet, SpeechState
<1>3. voiced_run' <= StartChunks /\ voiced_run' <= clock.fed /\ (~speech'.on => voiced_run' < StartChunks)
  <2>1. CASE final
    BY <1>1, <1>2, <2>1
  <2>2. CASE ~final
    BY <1>1, <1>2, <2>2 DEF SpeechCounted
  <2> QED
    BY <2>1, <2>2
<1>4. clock'.fed \in Nat /\ clock'.fed <= MaxChunks /\ clock.fed <= clock'.fed /\ voiced_run' \in Nat
  BY <1>1, <1>2
<1> QED
  BY <1>1, <1>2, <1>3, <1>4 DEF SpeechCounted

LEMMA QuietCounted ==
    ASSUME VadInv, SpeechCounted, NEW voiced \in BOOLEAN, StepQuiet(voiced), clock.fed < MaxChunks,
           clock' = [ms |-> clock.ms + 1, fed |-> clock.fed + 1]
    PROVE  SpeechCounted'
<1> DEFINE held == Newest(Append(preroll, clock.fed), Preroll)
           run == IF voiced THEN voiced_run + 1 ELSE 0
<1>1. /\ clock.fed \in Nat /\ clock.ms \in Nat /\ voiced_run \in Nat /\ speech \in SpeechState /\ preroll \in Seq(Nat)
      /\ StartChunks \in Nat /\ StartChunks > 0 /\ EndSilence \in Nat /\ EndSilence > 0 /\ Preroll \in Nat
      /\ MaxChunks \in Nat
  BY VadFacts, VadNumbers, VadConstants
<1>2. Len(held) <= Preroll /\ Len(held) \in Nat
  <2>1. Append(preroll, clock.fed) \in Seq(Nat)
    BY <1>1
  <2> QED
    BY <1>1, <2>1, NewestShort
<1>3. run \in Nat /\ run <= StartChunks /\ run <= clock.fed + 1
  BY <1>1 DEF StepQuiet, SpeechCounted
<1>4. clock'.ms = clock.ms + 1 /\ clock'.fed = clock.fed + 1
  OBVIOUS
<1>5. /\ voiced_run' = run
      /\ IF run < StartChunks THEN preroll' = held /\ UNCHANGED speech
         ELSE preroll' = <<>>
              /\ speech' = [on |-> TRUE, start |-> clock.ms + 1 - Len(held), voiced |-> run, silent |-> 0]
  BY DEF StepQuiet
<1> HIDE DEF held, run
<1>6. CASE run < StartChunks
  BY <1>1, <1>2, <1>3, <1>4, <1>5, <1>6 DEF SpeechCounted, SpeechState
<1>7. CASE ~(run < StartChunks)
  <2>1. speech'.on /\ speech'.start = clock.ms + 1 - Len(held) /\ speech'.voiced = run /\ speech'.silent = 0
    BY <1>5, <1>7
  <2>2. preroll' = <<>> /\ Len(preroll') = 0
    BY <1>5, <1>7
  <2> QED
    BY <1>1, <1>2, <1>3, <1>4, <1>5, <2>1, <2>2 DEF SpeechCounted
<1> QED
  BY <1>6, <1>7

LEMMA SpokenCounted ==
    ASSUME VadInv, SpeechCounted, NEW v \in BOOLEAN, StepSpeech(v), clock.fed < MaxChunks,
           NEW n \in Nat, NEW ms \in Nat, NEW fed \in Nat, Feeds(n, ms, fed)
    PROVE  SpeechCounted'
<1> DEFINE chunks == Append(buf, n)
<1>1. PICK spoken \in {speech.voiced, speech.voiced + 1}, silent \in {0, speech.silent + 1} :
        spoken = (speech.voiced + (IF v THEN 1 ELSE 0)) /\ silent = (IF v THEN 0 ELSE speech.silent + 1)
  BY VadFacts
<1>2. /\ clock.fed \in Nat /\ clock.ms \in Nat /\ voiced_run \in Nat /\ speech \in SpeechState
      /\ StartChunks \in Nat /\ EndSilence \in Nat /\ EndSilence > 0 /\ Preroll \in Nat /\ MaxChunks \in Nat
      /\ speech.voiced \in Nat /\ speech.silent \in Nat /\ speech.start \in Int
  BY VadFacts, VadNumbers, VadConstants
<1>3. ms = clock.ms + 1 /\ clock.fed = n /\ fed = n + 1 /\ clock' = [ms |-> ms, fed |-> fed]
  BY DEF Feeds
<1>4. /\ speech.on /\ UNCHANGED preroll
      /\ \/ silent >= EndSilence /\ CloseUtterance(ms - silent, chunks, spoken, TRUE)
         \/ CloseUtterance(ms, chunks, spoken, FALSE)
         \/ /\ ~(silent >= EndSilence) /\ speech' = [speech EXCEPT !.voiced = spoken, !.silent = silent]
            /\ UNCHANGED voiced_run
  BY <1>1, <1>3 DEF StepSpeech
<1> HIDE DEF chunks
<1>5. spoken \in Nat /\ spoken <= fed /\ silent \in Nat /\ silent <= speech.silent + 1
  BY <1>1, <1>2, <1>3 DEF SpeechCounted
<1>6. clock' \in [ms : Nat, fed : Nat] /\ clock'.fed = fed /\ clock'.ms = ms
  BY <1>3
<1>7. fed \in clock.fed..MaxChunks /\ ms >= Preroll
  BY <1>2, <1>3 DEF SpeechCounted
<1>8. ms - silent \in Nat
  <2>1. speech.start + speech.silent <= clock.ms /\ speech.start >= 0
    BY <1>4 DEF VadInv, InTime, SpeechCounted
  <2> QED
    BY <1>2, <1>3, <1>5, <2>1
<1>9. CASE CloseUtterance(ms - silent, chunks, spoken, TRUE)
  BY <1>4, <1>6, <1>7, <1>8, <1>9, CloseCounted
<1>10. CASE CloseUtterance(ms, chunks, spoken, FALSE)
  BY <1>4, <1>6, <1>7, <1>10, CloseCounted
<1>11. CASE /\ ~(silent >= EndSilence) /\ speech' = [speech EXCEPT !.voiced = spoken, !.silent = silent]
            /\ UNCHANGED voiced_run
  <2>1. speech'.on = speech.on /\ speech'.start = speech.start /\ speech'.voiced = spoken /\ speech'.silent = silent
    BY <1>2, <1>11 DEF SpeechState
  <2>2. silent < EndSilence /\ fed <= MaxChunks /\ n <= fed
    BY <1>2, <1>3, <1>5, <1>7, <1>11
  <2> QED
    BY <1>2, <1>3, <1>4, <1>5, <1>6, <1>7, <1>11, <2>1, <2>2 DEF SpeechCounted
<1> QED
  BY <1>4, <1>9, <1>10, <1>11

LEMMA FlushCounted == ASSUME VadInv, SpeechCounted, Flush PROVE SpeechCounted'
<1>1. /\ CloseUtterance(speech.start + Len(buf), buf, speech.voiced, TRUE) /\ UNCHANGED <<clock, preroll>> /\ speech.on
  BY DEF Flush
<1>2. /\ clock \in [ms : Nat, fed : Nat] /\ clock.fed \in Nat /\ MaxChunks \in Nat /\ Preroll \in Nat
      /\ speech.start \in Int /\ Len(buf) \in Nat
  BY VadFacts, VadNumbers, VadConstants
<1>3. speech.start + Len(buf) \in Nat /\ clock'.fed \in clock.fed..MaxChunks /\ clock'.ms >= Preroll
  BY <1>1, <1>2 DEF SpeechCounted
<1> QED
  BY <1>1, <1>2, <1>3, CloseCounted

LEMMA VadTypes ==
    /\ VadInit => VadInv /\ SpeechCounted
    /\ VadInv /\ SpeechCounted /\ [VadNext]_vadvars => (VadInv /\ SpeechCounted)'
    /\ VadInv /\ SpeechCounted => VadTypeOK
<1>1. ASSUME VadInit PROVE SpeechCounted
  BY <1>1, VadConstants DEF VadInit, SpeechCounted, Quiet
<1>2. ASSUME VadInv, SpeechCounted, Feed PROVE SpeechCounted'
  <2>1. PICK voiced \in BOOLEAN : StepQuiet(voiced) \/ StepSpeech(voiced)
    BY <1>2 DEF Feed
  <2>2. clock.fed < MaxChunks /\ clock' = [ms |-> clock.ms + 1, fed |-> clock.fed + 1]
    BY <1>2 DEF Feed
  <2> QED
    BY <1>2, <2>1, <2>2, QuietCounted, SpokenCounted, VadFacts DEF Feeds
<1>3. ASSUME SpeechCounted, UNCHANGED vadvars PROVE SpeechCounted'
  BY <1>3 DEF SpeechCounted, vadvars
<1>4. ASSUME VadInv, SpeechCounted PROVE VadTypeOK
  <2>1. /\ clock \in [ms : Nat, fed : Nat] /\ clock.fed \in 0..MaxChunks /\ voiced_run \in 0..StartChunks
        /\ speech \in SpeechState /\ speech.start \in Nat /\ speech.voiced \in 0..MaxChunks /\ speech.silent \in 0..EndSilence
    BY <1>4, VadFacts, VadNumbers, VadConstants DEF SpeechCounted
  <2>2. ~speech.on => buf = <<>>
    BY <1>4 DEF VadInv, InTime
  <2> QED
    BY <1>4, <2>1, <2>2 DEF VadTypeOK, SpeechState, SpeechCounted
<1> QED
  BY <1>1, <1>2, <1>3, <1>4, VadStarts, VadStep, JumpCounted, FlushCounted DEF VadNext

-----------------------------------------------------------------------------
(* The types of a copilot socket *)

\* What CInv leaves open of the copilot's types: the models, how the
\* interviewer is heard, and the socket.
ModelStates == {"off", "running", "finished", "cancelled"}
AroundTyped ==
    /\ model \in [Answers -> ModelStates]
    /\ channel \in [kind : {"none", "deepgram", "utterances"}, reopened : BOOLEAN]
    /\ osocket \in [paused : BOOLEAN, pc : {"open", "ended", "closed"}]

\* A model is started, told to stop, or has finished.
LEMMA ModelsTyped ==
    ASSUME CInv, AroundTyped, CopilotNext
    PROVE  model' \in [Answers -> ModelStates]
<1>0. model \in [Answers -> ModelStates]
  BY DEF AroundTyped
<1>1. CASE UNCHANGED model
  BY <1>0, <1>1
<1>2. CASE \E a \in Answers : model' = ModelCut(a) \/ model' = [model EXCEPT ![a] = "finished"]
  BY <1>0, <1>2 DEF ModelCut, ModelStates
<1>3. CASE \E c \in Cards : Starts(c)
  BY <1>0, <1>3 DEF Starts, ModelStates
<1>4. CASE \E c \in Cards \cup {Nothing} : Restarted(c)
  BY <1>0, <1>4 DEF Restarted, ModelStates
<1>5. CASE CloseSocket
  BY <1>0, <1>5 DEF CloseSocket, ModelStates
<1>6. ASSUME ogen # Nothing PROVE ogen \in Answers
  BY <1>6 DEF CInv, AnswersKnow
<1>7. ASSUME NEW t \in Actors, StartAnswer(t) PROVE task[t].card \in Cards
  BY <1>7 DEF CInv, TasksKnow, Known, StartAnswer, AtStep
<1>8. ASSUME NEW state, NEW a, Interrupted(a, state) PROVE model' = ModelCut(a)
  BY <1>8 DEF Interrupted
<1>a. CASE \E t \in Actors : NewCard(t) \/ ShowCard(t) \/ StartAnswer(t) \/ RecordQuestion(t)
  <2>1. PICK t \in Actors : NewCard(t) \/ ShowCard(t) \/ StartAnswer(t) \/ RecordQuestion(t)
    BY <1>a
  <2>2. CASE NewCard(t)
    BY <1>1, <1>2, <1>6, <1>8, <2>2 DEF NewCard
  <2>3. CASE StartAnswer(t)
    BY <1>3, <1>7, <2>3 DEF StartAnswer
  <2> QED
    BY <1>1, <2>1, <2>2, <2>3 DEF ShowCard, RecordQuestion
<1>b. CASE \E a \in Answers : Chunk(a) \/ AnswerEnds(a) \/ AnswerTail(a) \/ AnswerFails(a)
  BY <1>1, <1>2, <1>b DEF Chunk, AnswerEnds, AnswerTail, AnswerFails
<1>c. CASE \E text \in Words : UtteranceEnd(text)
  <2>1. PICK text \in Words : UtteranceEnd(text)
    BY <1>c
  <2>2. CASE UNCHANGED model
    BY <1>1, <2>2
  <2>3. CASE \E c : Restarted(c)
    BY <1>0, <2>3 DEF Restarted, ModelStates
  <2> QED
    BY <2>1, <2>2, <2>3 DEF UtteranceEnd
<1>d. CASE \E c \in Cards : RedoCard(c) \/ DismissCard(c)
  BY <1>1, <1>2, <1>6, <1>8, <1>d DEF RedoCard, DismissCard
<1>e. CASE FinishInterrupts
  BY <1>2, <1>6, <1>8, <1>e DEF FinishInterrupts
<1>f. CASE \/ OpenChannel \/ StreamDrops \/ Consider \/ LlmGate \/ PauseCopilot \/ AnswerNow \/ DismissStored
           \/ StopCopilot
  BY <1>1, <1>f DEF OpenChannel, StreamDrops, Consider, LlmGate, PauseCopilot, AnswerNow, DismissStored, StopCopilot
<1> QED
  BY <1>5, <1>a, <1>b, <1>c, <1>d, <1>e, <1>f DEF CopilotNext, Words

LEMMA HearingTyped ==
    ASSUME AroundTyped, CopilotNext
    PROVE  /\ channel' \in [kind : {"none", "deepgram", "utterances"}, reopened : BOOLEAN]
           /\ osocket' \in [paused : BOOLEAN, pc : {"open", "ended", "closed"}]
<1>0. /\ channel \in [kind : {"none", "deepgram", "utterances"}, reopened : BOOLEAN]
      /\ osocket \in [paused : BOOLEAN, pc : {"open", "ended", "closed"}]
  BY DEF AroundTyped
<1>1. CASE UNCHANGED <<channel, osocket>>
  BY <1>0, <1>1
<1>2. CASE OpenChannel \/ StreamDrops \/ CloseSocket
  BY <1>0, <1>2 DEF OpenChannel, StreamDrops, FellBack, CloseSocket
<1>3. CASE PauseCopilot \/ StopCopilot \/ \E a \in Answers : AnswerFails(a)
  BY <1>0, <1>3 DEF PauseCopilot, StopCopilot, AnswerFails
<1> QED
  BY <1>1, <1>2, <1>3 DEF CopilotNext, NewCard, ShowCard, StartAnswer, RecordQuestion, Chunk, AnswerEnds, AnswerTail,
     Consider, LlmGate, UtteranceEnd, AnswerNow, RedoCard, DismissCard, DismissStored, FinishInterrupts

LEMMA CopilotTyped ==
    /\ CopilotInit => CInv /\ AroundTyped
    /\ CInv /\ AroundTyped /\ [CopilotNext]_ovars => (CInv /\ AroundTyped)'
    /\ CInv /\ AroundTyped => CopilotTypeOK
<1>1. ASSUME CopilotInit PROVE AroundTyped
  BY <1>1 DEF CopilotInit, AroundTyped, ModelStates
<1>2. ASSUME CInv, AroundTyped, CopilotNext PROVE AroundTyped'
  BY <1>2, ModelsTyped, HearingTyped DEF AroundTyped
<1>3. ASSUME AroundTyped, UNCHANGED ovars PROVE AroundTyped'
  BY <1>3 DEF AroundTyped, ovars
<1>4. ASSUME CInv, AroundTyped PROVE CopilotTypeOK
  <2>1. card \in [Cards -> CardRecord] /\ task \in [Actors -> TaskRecord] /\ answer \in [Answers -> AnswerRecord]
    BY <1>4 DEF CInv, Stored, TasksKnow, AnswersKnow
  <2>2. last \in Cards \cup {Nothing} /\ ogen \in Answers \cup {Nothing}
    BY <1>4 DEF CInv, AnswersKnow, Known
  <2> QED
    BY <1>4, <2>1, <2>2 DEF AroundTyped, ModelStates, CardRecord, TaskRecord, AnswerRecord, States, Words, CopilotTypeOK
<1> QED
  BY <1>1, <1>2, <1>3, <1>4, CopilotStarts, CopilotStep

-----------------------------------------------------------------------------
(***************************************************************************)
(* The four together.  They share no state, so a step of the composition is *)
(* a step of one of them and stutters for the others.                       *)
(***************************************************************************)

LEMMA EachTakesItsSteps ==
    ASSUME [VoiceNext]_voicevars
    PROVE  [RoomNext]_vvars /\ [PracticeNext]_pvars /\ [CopilotNext]_ovars /\ [VadNext]_vadvars
<1>1. CASE UNCHANGED voicevars
  BY <1>1 DEF voicevars
<1>2. CASE VoiceNext
  BY <1>2 DEF VoiceNext
<1> QED
  BY <1>1, <1>2

\* What is said is handed out once and in order (vad.py:7), and each question
\* it makes is stored once and before every suggestion for it.
THEOREM SpeechIsHeardOnce == VoiceSpec => []HeardOnce
<1>1. VoiceInit => CopilotInit /\ VadInit
  BY DEF VoiceInit
<1>2. [VoiceNext]_voicevars => [CopilotNext]_ovars /\ [VadNext]_vadvars
  BY EachTakesItsSteps
<1>3. VoiceSpec => CopilotSpec /\ VadSpec
  BY <1>1, <1>2, PTL DEF VoiceSpec, CopilotSpec, VadSpec
<1>4. UtterancesApart /\ QuestionStoredOnceAndFirst => HeardOnce
  BY DEF HeardOnce
<1> QED
  BY <1>3, <1>4, UtterancesStayApart, QuestionsLeadTheirAnswers, PTL

\* The types of the sessions, of what is said on a practice and on a copilot
\* socket, and of the segmenter, for any bounds, sessions, sockets and workers:
\* a full speech-to-text queue drops its oldest (practice_session.py:351), no
\* session has more results than workers (voice_eval.py), and an utterance
\* never begins before the socket did.
THEOREM VoiceIsTyped == VoiceSpec => []VoiceTypesOK
<1> DEFINE Inv == RInv /\ TInv /\ (CInv /\ AroundTyped) /\ (VadInv /\ SpeechCounted)
<1>1. VoiceInit => Inv
  BY RoomTyped, PracticeTyped, CopilotTyped, VadTypes DEF VoiceInit
<1>2. Inv /\ [VoiceNext]_voicevars => Inv'
  BY EachTakesItsSteps, RoomTyped, PracticeTyped, CopilotTyped, VadTypes
<1>3. Inv => VoiceTypesOK
  BY RoomTyped, PracticeTyped, CopilotTyped, VadTypes DEF VoiceTypesOK
<1> QED
  BY <1>1, <1>2, <1>3, PTL DEF VoiceSpec
=============================================================================
