------------------------------ MODULE Practice ------------------------------
(***************************************************************************)
(* One practice interview on one socket (services/practice_session.py, with *)
(* voice_llm.py, voice_speech.py and voice_context.py): the socket's loop,  *)
(* the task of each reply of the interviewer, the speech-to-text and        *)
(* text-to-speech workers.                                                  *)
(*                                                                          *)
(* The tasks share one event loop, so a step runs from one await to the     *)
(* next.  What a thread does for a task (a turn written to the database, a  *)
(* model that streams) goes on when the task is cancelled.                  *)
(***************************************************************************)
EXTENDS Integers, Sequences

CONSTANTS
    MaxReplies,     \* bound: replies of the interviewer
    Questions,         \* main questions the user chose
    MaxWords,       \* bound: utterances of the candidate
    MaxSentences,   \* bound: sentences of a reply
    Queue,          \* utterances the speech-to-text queue holds
    PracticeScenes  \* the situations looked at

\* A situation: what the candidate and the providers do.
PracticeScene == [does : SUBSET {"speech", "text", "pause", "controls", "idle", "limits", "errors", "voice", "leave"},
                  words : 0..MaxWords, replies : 0..MaxReplies]
ASSUME PracticeConstants ==
    /\ PracticeScenes \subseteq PracticeScene
    /\ {MaxReplies, Questions, MaxWords, MaxSentences} \subseteq Nat
    /\ Queue \in Nat \ {0}    \* two at least, practice_session.py:118

VARIABLES
    pscene,     \* the situation, which never changes
    turns,      \* the conversation in memory
    rows,       \* the turns in the database, in the order they were written
    writing,    \* the turn each task last handed to a thread, and whether it is written
    parts,      \* what the candidate has said since the question: answer_parts
    gen,        \* the reply being generated, 0 for none
    epoch,      \* the epoch of the reply whose voice may be heard
    reply,      \* what the task of each reply is doing
    stream,     \* what the thread of each reply's model is doing
    stt,        \* the speech-to-text queue and the utterance being transcribed
    tts,        \* the text-to-speech queue and the sentence being spoken
    count,      \* main_questions, followups and interviewer_turns
    room,       \* the socket: paused, idle_paused, ended, free_only, the loop's place
    said        \* history: utterances so far, and what was heard of replies that were dropped

pvars == <<pscene, turns, rows, writing, parts, gen, epoch, reply, stream, stt, tts, count, room, said>>

Replies == 1..MaxReplies    \* in the order they are started
NoGen == 0
SocketLoop == 0       \* the task of the socket's loop; a reply's task is named by the reply
Tasks == Replies \cup {SocketLoop}
Does(w) == w \in pscene.does
Turn(who, kind, text) == [who |-> who, kind |-> kind, text |-> text]
NoWrite == [turn |-> Turn("nobody", "none", <<>>), done |-> TRUE]
Write(t, turn) == writing' = [writing EXCEPT ![t] = [turn |-> turn, done |-> FALSE]]
NoReply == [pc |-> "off", why |-> "opening", spoken |-> 0, epoch |-> 0, tag |-> "Q"]
Last(s) == s[Len(s)]
NoSpeech == [pc |-> "idle", epoch |-> 0]

PracticeTypeOK ==
    /\ gen \in Tasks /\ epoch \in Nat /\ parts \in Seq(0..MaxWords)
    /\ reply \in [Replies -> [pc : {"off", "new", "streaming", "commit", "tail", "answer", "closing", "record", "done"},
                              why : {"opening", "answer", "skip"}, spoken : 0..MaxSentences, epoch : Nat,
                              tag : {"Q", "F", "END"}]]
    /\ stream \in [Replies -> {"off", "running", "finished", "cancelled"}]
    /\ stt.pc \in {"idle", "busy"} /\ Len(stt.queue) <= Queue
    /\ tts.cur.pc \in {"idle", "busy"}
    /\ count \in [main : Nat, follow : Nat, asked : Nat]
    /\ room \in [paused : BOOLEAN, idle : BOOLEAN, ended : BOOLEAN, free : BOOLEAN,
                 pc : {"loop", "barge", "commit", "finish", "close", "closed"}, task : Tasks]

PracticeInit ==
    /\ pscene \in PracticeScenes
    /\ turns = <<>> /\ rows = <<>> /\ parts = <<>>
    /\ writing = [t \in Tasks |-> NoWrite]
    /\ gen = NoGen /\ epoch = 0
    /\ reply = [r \in Replies |-> NoReply]
    /\ stream = [r \in Replies |-> "off"]
    /\ stt = [pc |-> "idle", queue |-> <<>>, cur |-> 0]
    /\ tts = [queue |-> <<>>, cur |-> NoSpeech]
    /\ count = [main |-> 0, follow |-> 0, asked |-> 0]
    /\ room = [paused |-> FALSE, idle |-> FALSE, ended |-> FALSE, free |-> FALSE, pc |-> "loop", task |-> SocketLoop]
    /\ said = [words |-> 0, stale |-> FALSE]

\* Without a new reply the epoch grows a bounded number of times.
NextEpoch == epoch <= pscene.replies /\ epoch' = epoch + 1

awaiting_answer == turns # <<>> /\ Last(turns).who = "interviewer" /\ Last(turns).kind = "question"
Speaking(r) == r # NoGen /\ reply[r].spoken > 0
\* With no replies to give, a situation is that of another module.
Listening == room.pc = "loop" /\ ~room.ended /\ pscene.replies > 0

(***************************************************************************)
(* Replies                                                                  *)
(***************************************************************************)
Unused == {r \in 1..pscene.replies : reply[r].pc = "off"}
NextReply == CHOOSE r \in Unused : \A q \in Unused : r <= q

\* The model is told to close when the questions are used up; what it says
\* is its own choice.
MustClose(why) == \/ count.asked >= 2 * Questions + 1
                  \/ count.main >= Questions /\ (count.follow >= 1 \/ why = "skip")
Tags(why) == IF why = "opening" THEN {"Q"} ELSE IF MustClose(why) THEN {"END"} ELSE {"Q", "F", "END"}

StartReply(why, rs) ==
    /\ Unused # {}
    /\ epoch' = epoch + 1
    /\ gen' = NextReply
    /\ \E tag \in Tags(why) :
        reply' = [rs EXCEPT ![NextReply] = [pc |-> "new", why |-> why, spoken |-> 0, epoch |-> epoch + 1, tag |-> tag]]

AnswerDone(why, said_parts) ==
    IF gen # NoGen \/ room.ended \/ said_parts = <<>> \/ turns = <<>> THEN UNCHANGED <<gen, epoch, reply>>
    ELSE StartReply(why, reply)

\* The reply's task is cancelled at its next await; the model's thread sees
\* the flag at its next chunk.
Dropped(r) == [reply EXCEPT ![r].pc = "done"]
\* Fault: the model is not told.
StreamCutUnseen(r) == [stream EXCEPT ![r] = stream[r]]
StreamCut(r) == IF stream[r] = "running" THEN [stream EXCEPT ![r] = "cancelled"] ELSE stream

RunReply(r) ==
    /\ reply[r].pc = "new"
    /\ reply' = [reply EXCEPT ![r].pc = "streaming"]
    /\ stream' = [stream EXCEPT ![r] = "running"]
    /\ UNCHANGED <<pscene, turns, rows, writing, parts, gen, epoch, stt, tts, count, room, said>>

\* A sentence is sent and handed to the voice.
Speak(r) ==
    /\ reply' = [reply EXCEPT ![r].pc = "streaming", ![r].spoken = @ + 1]
    /\ tts' = IF Does("voice") THEN [tts EXCEPT !.queue = Append(@, reply[r].epoch)] ELSE tts
    /\ said' = [said EXCEPT !.stale = @ \/ gen # r]

Sentence(r) ==
    /\ reply[r].pc = "streaming" /\ stream[r] = "running" /\ reply[r].spoken < MaxSentences
    /\ IF gen # r THEN reply' = Dropped(r) /\ UNCHANGED <<writing, tts, said>>
       ELSE IF reply[r].spoken = 0 /\ parts # <<>>
            THEN /\ reply' = [reply EXCEPT ![r].pc = "commit"]
                 /\ Write(r, Turn("user", "answer", parts))
                 /\ UNCHANGED <<tts, said>>
            ELSE Speak(r) /\ UNCHANGED writing
    /\ UNCHANGED <<pscene, turns, rows, parts, gen, epoch, stream, stt, count, room>>

\* The thread of add_turn.
Written(t) ==
    /\ ~writing[t].done
    /\ rows' = Append(rows, writing[t].turn)
    /\ writing' = [writing EXCEPT ![t].done = TRUE]
    /\ UNCHANGED <<pscene, turns, parts, gen, epoch, reply, stream, stt, tts, count, room, said>>

\* _commit_answer goes on after its await: what was said meanwhile goes too.
Committed(t) == turns' = Append(turns, writing[t].turn) /\ parts' = <<>>

CommitReturns(r) ==
    /\ reply[r].pc = "commit" /\ writing[r].done
    /\ Committed(r)
    /\ Speak(r)
    /\ UNCHANGED <<pscene, rows, writing, gen, epoch, stream, stt, count, room>>

ReplyEnds(r) ==
    /\ reply[r].pc = "streaming" /\ stream[r] = "running" /\ gen = r
    /\ stream' = [stream EXCEPT ![r] = "finished"]
    /\ gen' = NoGen
    /\ reply' = [reply EXCEPT ![r].pc = IF reply[r].spoken = 0 THEN "done" ELSE "tail"]
    /\ room' \in {[room EXCEPT !.free = @ \/ spent] : spent \in (IF Does("limits") THEN BOOLEAN ELSE {FALSE})}
    /\ UNCHANGED <<pscene, turns, rows, writing, parts, epoch, stt, tts, count, said>>

Kind(r) == IF reply[r].tag = "END" THEN "closing" ELSE "question"
Counted(r) ==
    [main |-> count.main + (IF Kind(r) = "question" /\ ~(reply[r].tag = "F" /\ count.main > 0) THEN 1 ELSE 0),
     follow |-> IF Kind(r) # "question" THEN count.follow
                ELSE IF reply[r].tag = "F" /\ count.main > 0 THEN count.follow + 1 ELSE 0,
     asked |-> count.asked + 1]

\* What was said before the first question is an answer too, to nothing.
TailCommits(r) ==
    /\ \/ /\ reply[r].pc = "tail" /\ parts # <<>>
          /\ Write(r, Turn("user", "answer", parts))
          /\ reply' = [reply EXCEPT ![r].pc = "answer"]
          /\ UNCHANGED <<turns, parts>>
       \/ /\ reply[r].pc = "answer" /\ writing[r].done
          /\ Committed(r)
          /\ reply' = [reply EXCEPT ![r].pc = "tail"]
          /\ UNCHANGED writing
    /\ UNCHANGED <<pscene, rows, gen, epoch, stream, stt, tts, count, room, said>>

\* The turn of the reply is counted and written.
ReplyTail(r) ==
    /\ reply[r].pc = "tail" /\ parts = <<>>
    /\ count' = Counted(r)
    /\ Write(r, Turn("interviewer", Kind(r), <<>>))
    /\ reply' = [reply EXCEPT ![r].pc = "record"]
    /\ UNCHANGED <<pscene, turns, rows, parts, gen, epoch, stream, stt, tts, room, said>>

Recorded(r) ==
    /\ reply[r].pc = "record" /\ writing[r].done
    /\ turns' = Append(turns, Turn("interviewer", Kind(r), <<>>))
    /\ IF Kind(r) = "closing" /\ ~room.ended
       THEN /\ room' = [room EXCEPT !.ended = TRUE, !.pc = "finish", !.task = r]
            /\ reply' = [reply EXCEPT ![r].pc = "closing"]
       ELSE reply' = Dropped(r) /\ UNCHANGED room
    /\ UNCHANGED <<pscene, rows, writing, parts, gen, epoch, stream, stt, tts, count, said>>

\* No model is available, or the one that streams fails.
ReplyFails(r) ==
    /\ Does("errors") /\ reply[r].pc = "streaming" /\ stream[r] = "running"
    /\ stream' = [stream EXCEPT ![r] = "finished"]
    /\ gen' = IF gen = r THEN NoGen ELSE gen
    /\ IF room.free /\ ~room.ended
       THEN /\ room' = [room EXCEPT !.ended = TRUE, !.pc = "finish", !.task = r]
            /\ reply' = [reply EXCEPT ![r].pc = "closing"]
       ELSE reply' = Dropped(r) /\ UNCHANGED room
    /\ UNCHANGED <<pscene, turns, rows, writing, parts, epoch, stt, tts, count, said>>

(***************************************************************************)
(* Listening                                                                *)
(***************************************************************************)
\* Speech begins while the interviewer prepares a reply, or speaks.
CancelPending ==
    /\ gen' = NoGen /\ reply' = Dropped(gen) /\ stream' = StreamCut(gen)
    /\ UNCHANGED <<epoch, writing, room, count>>

BargeIn ==
    IF ~Speaking(gen) THEN NextEpoch /\ UNCHANGED <<gen, reply, stream, writing, room, count>>
    ELSE /\ gen' = NoGen /\ reply' = Dropped(gen) /\ stream' = StreamCut(gen)
         /\ epoch' = epoch + 1
         /\ Write(SocketLoop, Turn("interviewer", "question", <<>>))
         /\ count' = [count EXCEPT !.asked = @ + 1]
         /\ room' = [room EXCEPT !.pc = "barge"]

SpeechStart ==
    /\ Does("speech") /\ Listening /\ ~room.paused /\ gen # NoGen
    /\ IF Speaking(gen) THEN BargeIn ELSE CancelPending
    /\ UNCHANGED <<pscene, turns, rows, parts, stt, tts, said>>

BargeReturns ==
    /\ room.pc = "barge" /\ writing[SocketLoop].done
    /\ turns' = Append(turns, Turn("interviewer", "question", <<>>))
    /\ room' = [room EXCEPT !.pc = "loop"]
    /\ UNCHANGED <<pscene, rows, writing, parts, gen, epoch, reply, stream, stt, tts, count, said>>

\* An utterance is cut and queued; a full queue drops its oldest.
Queued(u) == Append(IF Len(stt.queue) < Queue THEN stt.queue ELSE Tail(stt.queue), u)

QueueUtterance ==
    /\ Does("speech") /\ Listening /\ ~room.paused /\ said.words < pscene.words
    /\ said' = [said EXCEPT !.words = @ + 1]
    /\ stt' = [stt EXCEPT !.queue = Queued(said.words + 1)]
    /\ UNCHANGED <<pscene, turns, rows, writing, parts, gen, epoch, reply, stream, tts, count, room>>

SttTakes ==
    /\ room.pc # "closed" /\ stt.pc = "idle" /\ stt.queue # <<>>
    /\ stt' = [pc |-> "busy", queue |-> Tail(stt.queue), cur |-> Head(stt.queue)]
    /\ UNCHANGED <<pscene, turns, rows, writing, parts, gen, epoch, reply, stream, tts, count, room, said>>

\* The text of the utterance, none when every model failed or nothing was
\* understood; what was said when nothing was asked is not an answer.
SttReturns ==
    /\ stt.pc = "busy" /\ room.pc # "closed"
    /\ stt' = [stt EXCEPT !.pc = "idle", !.cur = 0]
    /\ \/ ~awaiting_answer /\ turns # <<>> /\ UNCHANGED <<parts, gen, epoch, reply>>
       \/ Does("errors") /\ UNCHANGED <<parts, gen, epoch, reply>>
       \/ /\ awaiting_answer \/ turns = <<>>
          /\ parts' = Append(parts, stt.cur)
          /\ \/ stt.queue = <<>> /\ AnswerDone("answer", parts')
             \/ UNCHANGED <<gen, epoch, reply>>      \* more is being said
    /\ UNCHANGED <<pscene, turns, rows, writing, stream, tts, count, room, said>>

\* A typed answer; one typed before the question is finished waits for it.
TypedAnswer ==
    /\ Does("text") /\ Listening /\ ~room.paused /\ awaiting_answer /\ said.words < pscene.words
    /\ said' = [said EXCEPT !.words = @ + 1]
    /\ parts' = Append(parts, said.words + 1)
    /\ IF gen # NoGen /\ ~Speaking(gen)
       THEN /\ stream' = StreamCut(gen)
            /\ StartReply("answer", Dropped(gen))
       ELSE AnswerDone("answer", parts') /\ UNCHANGED stream
    /\ UNCHANGED <<pscene, turns, rows, writing, stt, tts, count, room>>

(***************************************************************************)
(* Controls                                                                 *)
(***************************************************************************)
ControlStart ==
    /\ Listening /\ turns = <<>> /\ gen = NoGen
    /\ StartReply("opening", reply)
    /\ UNCHANGED <<pscene, turns, rows, writing, parts, stream, stt, tts, count, room, said>>

ControlPause ==
    /\ Does("pause") /\ Listening /\ ~room.paused
    /\ room' = [room EXCEPT !.paused = TRUE]
    /\ IF Does("speech") /\ said.words < pscene.words
       THEN /\ said' = [said EXCEPT !.words = @ + 1]
            /\ stt' = [stt EXCEPT !.queue = Queued(said.words + 1)]
       ELSE UNCHANGED <<said, stt>>
    /\ UNCHANGED <<pscene, turns, rows, writing, parts, gen, epoch, reply, stream, tts, count>>

ControlResume ==
    /\ Does("pause") /\ Listening /\ room.paused
    /\ room' = [room EXCEPT !.paused = FALSE, !.idle = FALSE]
    /\ UNCHANGED <<pscene, turns, rows, writing, parts, gen, epoch, reply, stream, stt, tts, count, said>>

\* The last question is said once more.
ControlRepeat ==
    /\ Does("controls") /\ Listening /\ turns # <<>> /\ gen = NoGen /\ NextEpoch
    /\ tts' = IF Does("voice") THEN [tts EXCEPT !.queue = Append(@, epoch + 1)] ELSE tts
    /\ UNCHANGED <<pscene, turns, rows, writing, parts, gen, reply, stream, stt, count, room, said>>

ControlSkip ==
    /\ Does("controls") /\ Listening /\ awaiting_answer /\ gen = NoGen
    /\ parts' = <<0>>
    /\ AnswerDone("skip", parts')
    /\ UNCHANGED <<pscene, turns, rows, writing, stream, stt, tts, count, room, said>>

ControlBargeIn ==
    /\ Does("controls") /\ Listening
    /\ BargeIn
    /\ UNCHANGED <<pscene, turns, rows, parts, stt, tts, said>>

(***************************************************************************)
(* Voice out                                                                *)
(***************************************************************************)
TtsTakes ==
    /\ room.pc # "closed" /\ tts.cur.pc = "idle" /\ tts.queue # <<>>
    /\ tts' = [queue |-> Tail(tts.queue),
               cur |-> IF Head(tts.queue) = epoch THEN [pc |-> "busy", epoch |-> epoch] ELSE NoSpeech]
    /\ UNCHANGED <<pscene, turns, rows, writing, parts, gen, epoch, reply, stream, stt, count, room, said>>

Heard(e) == e = epoch
TtsReturns ==
    /\ room.pc # "closed" /\ tts.cur.pc = "busy"
    /\ tts' = [tts EXCEPT !.cur = NoSpeech]
    /\ said' = [said EXCEPT !.stale = @ \/ (Heard(tts.cur.epoch) /\ tts.cur.epoch # epoch)]
    /\ UNCHANGED <<pscene, turns, rows, writing, parts, gen, epoch, reply, stream, stt, count, room>>

(***************************************************************************)
(* The end                                                                  *)
(***************************************************************************)
\* The first silence of VOICE_IDLE_PAUSE_SECONDS pauses, the second ends.
IdleTimeout ==
    /\ Does("idle") /\ Listening
    /\ room' = IF room.idle THEN [room EXCEPT !.ended = TRUE, !.pc = "finish", !.task = SocketLoop]
               ELSE [room EXCEPT !.idle = TRUE, !.paused = TRUE]
    /\ UNCHANGED <<pscene, turns, rows, writing, parts, gen, epoch, reply, stream, stt, tts, count, said>>

\* Any message of the client ends the idle pause.
IdleEnds ==
    /\ Listening /\ room.idle
    /\ room' = [room EXCEPT !.idle = FALSE, !.paused = FALSE]
    /\ UNCHANGED <<pscene, turns, rows, writing, parts, gen, epoch, reply, stream, stt, tts, count, said>>

\* The user ends the interview, or its time is over.
ControlEnd ==
    /\ Listening
    /\ room' = [room EXCEPT !.ended = TRUE, !.pc = "finish", !.task = SocketLoop]
    /\ UNCHANGED <<pscene, turns, rows, writing, parts, gen, epoch, reply, stream, stt, tts, count, said>>

FinishCommits ==
    /\ room.pc = "finish"
    /\ gen' = NoGen
    /\ reply' = IF gen # NoGen THEN Dropped(gen) ELSE reply
    /\ stream' = IF gen # NoGen THEN StreamCut(gen) ELSE stream
    /\ IF parts = <<>> THEN room' = [room EXCEPT !.pc = "close"] /\ UNCHANGED writing
       ELSE room' = [room EXCEPT !.pc = "commit"] /\ Write(room.task, Turn("user", "answer", parts))
    /\ UNCHANGED <<pscene, turns, rows, parts, epoch, stt, tts, count, said>>

FinishEnds ==
    /\ room.pc = "commit" /\ writing[room.task].done
    /\ Committed(room.task)
    /\ room' = [room EXCEPT !.pc = "close"]
    /\ UNCHANGED <<pscene, rows, writing, gen, epoch, reply, stream, stt, tts, count, said>>

\* The client goes away: the loop leaves, whatever the tasks are doing.
ClientLeaves ==
    /\ Does("leave") /\ room.pc \in {"loop"} \cup (IF room.task # SocketLoop THEN {"finish", "commit"} ELSE {})
    /\ room' = [room EXCEPT !.pc = "close"]
    /\ UNCHANGED <<pscene, turns, rows, writing, parts, gen, epoch, reply, stream, stt, tts, count, said>>

\* close cancels every task; a reply that was streaming cancels its model
\* on its way out.
ClosedStream(r) == IF stream[r] = "running" /\ (r = gen \/ reply[r].pc # "done") THEN "cancelled" ELSE stream[r]
ClosePractice ==
    /\ room.pc = "close"
    /\ room' = [room EXCEPT !.pc = "closed"]
    /\ stream' = [r \in Replies |-> ClosedStream(r)]
    /\ reply' = [r \in Replies |-> IF reply[r].pc = "off" THEN reply[r] ELSE [reply[r] EXCEPT !.pc = "done"]]
    /\ UNCHANGED <<pscene, turns, rows, writing, parts, gen, epoch, stt, tts, count, said>>

PracticeNext ==
    \/ \E r \in Replies : RunReply(r) \/ Sentence(r) \/ CommitReturns(r) \/ ReplyEnds(r) \/ TailCommits(r) \/ ReplyTail(r)
                          \/ Recorded(r) \/ ReplyFails(r)
    \/ \E t \in Tasks : Written(t)
    \/ SpeechStart \/ BargeReturns \/ QueueUtterance \/ SttTakes \/ SttReturns \/ TypedAnswer
    \/ ControlStart \/ ControlPause \/ ControlResume \/ ControlRepeat \/ ControlSkip \/ ControlBargeIn
    \/ TtsTakes \/ TtsReturns \/ IdleTimeout \/ IdleEnds \/ ControlEnd \/ FinishCommits \/ FinishEnds \/ ClientLeaves \/ ClosePractice

PracticeSpec == PracticeInit /\ [][PracticeNext]_pvars

(***************************************************************************)
(* Properties                                                               *)
(***************************************************************************)
\* A reply the candidate talks over, and every reply of a socket that is
\* closed, falls silent and lets go of its model (practice_session.py:7):
\* whichever await its task was at, no provider stream is left running and
\* nothing of it is heard.
CutRepliesStop ==
    /\ \A r \in Replies : reply[r].pc = "done" => stream[r] # "running"
    /\ ~said.stale

\* What the candidate said is one answer of the transcript
\* (practice_session.py:32): no utterance is stored in two of them.
AnswersStoredOnce ==
    \A i, j \in 1..Len(rows) : i # j /\ rows[i].who = "user" /\ rows[j].who = "user"
        => \A a \in 1..Len(rows[i].text), b \in 1..Len(rows[j].text) :
            rows[i].text[a] = 0 \/ rows[i].text[a] # rows[j].text[b]
=============================================================================
