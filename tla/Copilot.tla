------------------------------ MODULE Copilot ------------------------------
(***************************************************************************)
(* One Live Copilot socket (services/copilot_session.py, question_gate.py,  *)
(* providers/voice/deepgram.py): what the interviewer says becomes question *)
(* cards, and the suggested answer of the latest card streams in.           *)
(*                                                                          *)
(* Three tasks make cards: the loop of the socket (controls, screenshots),  *)
(* the reader of the interviewer's channel, and the gate that asks a model  *)
(* about words the rules are unsure of.  A step runs to the next await.     *)
(***************************************************************************)
EXTENDS Integers, Sequences

CONSTANTS
    MaxCards,       \* bound: question cards
    MaxAnswers,     \* bound: answers that are started
    MaxHeard,       \* bound: utterances of the interviewer
    CopilotScenes   \* the situations looked at

Cards == 1..MaxCards
Answers == 1..MaxAnswers
Nothing == 0

\* A situation: who acts and how the channel hears, with the bounds that
\* leave it small.
CopilotScene == [does : SUBSET {"now", "gate", "redo", "dismiss", "screenshot", "pause", "errors", "stop", "deepgram"},
                 words : SUBSET {"question", "statement", "addressed", "followup", "chat", "longer"},
                 heard : 0..MaxHeard, answers : 0..MaxAnswers]
ASSUME CopilotConstants ==
    /\ CopilotScenes \subseteq CopilotScene
    /\ {MaxCards, MaxAnswers, MaxHeard} \subseteq Nat

VARIABLES
    oscene,     \* the situation, which never changes
    card,       \* the cards: text (what of the question is known), persisted, state
    last,       \* last_card and the utterance it was made for
    ogen,       \* the answer shown as it streams, 0 for none
    answer,     \* what the task of each answer is doing
    model,      \* what the thread of each answer's model is doing
    task,       \* what each of the three tasks is doing with which card
    log,        \* rows of cards handed to the database, in the order of their seq (what is heard is a row of its own)
    channel,    \* how the interviewer's channel hears: Deepgram's connection or utterances
    heard,      \* utterances of the interviewer so far
    osocket     \* paused, ended, closed

ovars == <<oscene, card, last, ogen, answer, model, task, log, channel, heard, osocket>>

Actors == {"loop", "reader", "gate"}
Acts(w) == w \in oscene.does
BlankCard == [made |-> FALSE, long |-> FALSE, persisted |-> FALSE, state |-> "shown", utt |-> 0, parent |-> Nothing]
NoTask == [pc |-> "idle", card |-> Nothing, text |-> "question", utt |-> 0]
NoAnswer == [pc |-> "off", card |-> Nothing, parts |-> FALSE]
Row(kind, c, state) == [kind |-> kind, card |-> c, state |-> state]

CopilotTypeOK ==
    /\ card \in [Cards -> [made : BOOLEAN, long : BOOLEAN, persisted : BOOLEAN, utt : Nat, parent : Cards \cup {Nothing},
                           state : {"shown", "interrupted", "dismissed"}]]
    /\ last \in Cards \cup {Nothing} /\ ogen \in Answers \cup {Nothing}
    /\ answer \in [Answers -> [pc : {"off", "streaming", "tail", "done"}, card : Cards \cup {Nothing}, parts : BOOLEAN]]
    /\ model \in [Answers -> {"off", "running", "finished", "cancelled"}]
    /\ task \in [Actors -> [pc : {"idle", "new", "show", "start", "record", "asking", "drop"}, card : Cards \cup {Nothing},
                            text : {"question", "statement", "addressed", "followup", "chat", "longer"},
                            utt : Nat]]
    /\ channel \in [kind : {"none", "deepgram", "utterances"}, reopened : BOOLEAN]
    /\ osocket \in [paused : BOOLEAN, pc : {"open", "ended", "closed"}]

CopilotInit ==
    /\ oscene \in CopilotScenes
    /\ card = [c \in Cards |-> BlankCard]
    /\ last = Nothing /\ ogen = Nothing /\ heard = 0 /\ log = <<>>
    /\ answer = [a \in Answers |-> NoAnswer]
    /\ model = [a \in Answers |-> "off"]
    /\ task = [t \in Actors |-> NoTask]
    /\ channel = [kind |-> "none", reopened |-> FALSE]
    /\ osocket = [paused |-> FALSE, pc |-> "open"]

\* A frame of the interviewer's channel goes on to it, and what the channel makes
\* of it to the cards, unless the session is paused or has ended.
FrameTaken == osocket.pc = "open" /\ ~osocket.paused /\ oscene.answers > 0
Hears == FrameTaken /\ channel.kind # "none"
FreeCards == {c \in Cards : ~card[c].made}
NextCard == CHOOSE c \in FreeCards : \A d \in FreeCards : c <= d
FreeAnswers == {a \in 1..oscene.answers : answer[a].pc = "off"}
NextAnswer == CHOOSE a \in FreeAnswers : \A b \in FreeAnswers : a <= b

(***************************************************************************)
(* The question gate                                                        *)
(***************************************************************************)
\* classify: small talk is never a question, a cue of a question makes one,
\* words that only follow up a recent card need that card, and a statement
\* addressed to the candidate is left to a model.
Classify(text, recent) ==
    CASE text = "chat" -> "no"
      [] text \in {"question", "longer"} -> "yes"
      [] text = "followup" -> IF recent THEN "yes" ELSE "no"
      [] text = "addressed" -> "unsure"
      [] text = "statement" -> "no"
Recent == last # Nothing
IsFollowup(text) == text = "followup" /\ Recent
\* Small talk and finished questions end; a short piece may go on.
Unfinished(c) == ~card[c].long

(***************************************************************************)
(* Cards and answers                                                        *)
(***************************************************************************)
AtStep(t, pc) == task[t].pc = pc
TaskGoes(t, pc) == task' = [task EXCEPT ![t].pc = pc]
TaskEnds(t) == task' = [task EXCEPT ![t] = NoTask]

\* _stop_gen: the model sees the flag, the answer's task is cancelled.
AnswerCut(a) == [answer EXCEPT ![a].pc = "done", ![a].parts = FALSE]
ModelCut(a) == IF model[a] = "running" THEN [model EXCEPT ![a] = "cancelled"] ELSE model

\* _persist_question: the card is marked before the write is awaited.
QuestionRow(c) == IF card[c].persisted THEN <<>> ELSE <<Row("question", c, "shown")>>
\* Fault: it is not marked.
MarkedNever(c, cards) == [cards EXCEPT ![c].persisted = cards[c].persisted]
Marked(c, cards) == [cards EXCEPT ![c].persisted = TRUE]

\* _interrupt: what was shown of the answer is stored under its question.
Interrupted(a, state) ==
    /\ ogen' = Nothing /\ answer' = AnswerCut(a) /\ model' = ModelCut(a)
    /\ LET c == answer[a].card
           cards == [card EXCEPT ![c].state = state]
       IN  IF answer[a].parts
           THEN /\ card' = Marked(c, cards)
                /\ log' = log \o QuestionRow(c) \o <<Row("suggestion", c, state)>>
           ELSE card' = cards /\ UNCHANGED log

\* A task has a question to show: the answer before it is interrupted.
NewCard(t) ==
    /\ AtStep(t, "new") /\ FreeCards # {} /\ TaskGoes(t, "show")
    /\ IF ogen # Nothing THEN Interrupted(ogen, "interrupted") ELSE UNCHANGED <<card, ogen, answer, model, log>>
    /\ UNCHANGED <<oscene, last, channel, heard, osocket>>

ShowCard(t) ==
    /\ AtStep(t, "show") /\ FreeCards # {}
    /\ LET c == NextCard
           parent == IF ~IsFollowup(task[t].text) THEN Nothing
                     ELSE IF card[last].parent # Nothing THEN card[last].parent ELSE last
       IN  /\ card' = [card EXCEPT ![c] = [BlankCard EXCEPT !.made = TRUE, !.long = task[t].text = "longer",
                                                      !.utt = task[t].utt, !.parent = parent]]
           /\ last' = c
           /\ task' = [task EXCEPT ![t].pc = "start", ![t].card = c]
    /\ UNCHANGED <<oscene, ogen, answer, model, log, channel, heard, osocket>>

\* _start_answer.
Starts(c) ==
    /\ FreeAnswers # {}
    /\ ogen' = NextAnswer
    /\ answer' = [answer EXCEPT ![NextAnswer] = [pc |-> "streaming", card |-> c, parts |-> FALSE]]
    /\ model' = [model EXCEPT ![NextAnswer] = "running"]

StartAnswer(t) ==
    /\ AtStep(t, "start") /\ TaskGoes(t, "record") /\ Starts(task[t].card)
    /\ UNCHANGED <<oscene, card, last, log, channel, heard, osocket>>

RecordQuestion(t) ==
    /\ AtStep(t, "record")
    /\ LET c == task[t].card IN card' = Marked(c, card) /\ log' = log \o QuestionRow(c)
    /\ TaskEnds(t)
    /\ UNCHANGED <<oscene, last, ogen, answer, model, channel, heard, osocket>>

\* A chunk of the answer; an answer that is not the current one gives up.
Chunk(a) ==
    /\ answer[a].pc = "streaming" /\ model[a] = "running"
    /\ answer' = IF ogen = a THEN [answer EXCEPT ![a].parts = TRUE] ELSE AnswerCut(a)
    /\ answer' # answer
    /\ UNCHANGED <<oscene, card, last, ogen, model, task, log, channel, heard, osocket>>

AnswerEnds(a) ==
    /\ answer[a].pc = "streaming" /\ model[a] = "running"
    /\ model' = [model EXCEPT ![a] = "finished"]
    /\ IF ogen = a THEN /\ ogen' = Nothing
                        /\ answer' = [answer EXCEPT ![a].pc = "tail"]
                        /\ card' = [card EXCEPT ![answer[a].card].state = "shown"]
       ELSE answer' = AnswerCut(a) /\ UNCHANGED <<ogen, card>>
    /\ UNCHANGED <<oscene, last, task, log, channel, heard, osocket>>

\* answer.done is sent and the suggestion stored.
AnswerTail(a) ==
    /\ answer[a].pc = "tail" /\ answer' = AnswerCut(a)
    /\ LET c == answer[a].card IN
       /\ card' = Marked(c, card)
       /\ log' = log \o QuestionRow(c) \o <<Row("suggestion", c, "shown")>>
    /\ UNCHANGED <<oscene, last, ogen, model, task, channel, heard, osocket>>

\* No model, or it stops: within the cost limit the session goes on.
AnswerFails(a) ==
    /\ Acts("errors") /\ answer[a].pc = "streaming" /\ model[a] = "running"
    /\ model' = [model EXCEPT ![a] = "finished"]
    /\ answer' = AnswerCut(a)
    /\ ogen' = IF ogen = a THEN Nothing ELSE ogen
    /\ osocket' \in {osocket, [osocket EXCEPT !.pc = IF @ = "open" THEN "ended" ELSE @]}
    /\ UNCHANGED <<oscene, card, last, task, log, channel, heard>>

(***************************************************************************)
(* What the interviewer says                                                *)
(***************************************************************************)
\* The channel opens with the first frame: Deepgram, or utterances when it
\* cannot be reached.
OpenChannel ==
    /\ FrameTaken /\ channel.kind = "none"
    /\ \E kind \in (IF Acts("deepgram") THEN {"deepgram", "utterances"} ELSE {"utterances"}) :
        channel' = [channel EXCEPT !.kind = kind]
    /\ UNCHANGED <<oscene, card, last, ogen, answer, model, task, log, heard, osocket>>

\* A frame on a dropped connection reopens it once; the second time the
\* channel falls back to utterances.
FellBack == [channel EXCEPT !.kind = "utterances"]
StreamDrops ==
    /\ channel.kind = "deepgram" /\ FrameTaken
    /\ channel' = IF channel.reopened THEN FellBack
                  ELSE [channel EXCEPT !.reopened = TRUE]
    /\ UNCHANGED <<oscene, card, last, ogen, answer, model, task, log, heard, osocket>>

CardOfUtterance == LET c == IF ogen # Nothing THEN answer[ogen].card ELSE last
                   IN  IF c # Nothing /\ card[c].utt = heard THEN c ELSE Nothing

\* With partials a question that looks complete is answered at once.
Consider ==
    /\ channel.kind = "deepgram" /\ Hears /\ AtStep("reader", "idle") /\ heard < oscene.heard
    /\ "question" \in oscene.words /\ CardOfUtterance = Nothing
    /\ task' = [task EXCEPT !["reader"] = [NoTask EXCEPT !.pc = "new", !.utt = heard]]
    /\ UNCHANGED <<oscene, card, last, ogen, answer, model, log, channel, heard, osocket>>

\* _restart: the speaker goes on, the answer starts again with all of it.
Restarted(c) ==
    /\ FreeAnswers # {}
    /\ LET stopped == IF ogen # Nothing /\ answer[ogen].card = c THEN ogen ELSE Nothing IN
       /\ ogen' = NextAnswer
       /\ answer' = [a \in Answers |-> IF a = stopped THEN [answer[a] EXCEPT !.pc = "done", !.parts = FALSE]
                                       ELSE IF a = NextAnswer THEN [pc |-> "streaming", card |-> c, parts |-> FALSE]
                                       ELSE answer[a]]
       /\ model' = [a \in Answers |-> IF a = stopped /\ model[a] = "running" THEN "cancelled"
                                      ELSE IF a = NextAnswer THEN "running" ELSE model[a]]

\* The end of an utterance: it belongs to a card already made for it, goes
\* on with an unfinished question, is a question of its own, or is recorded.
UtteranceEnd(text) ==
    /\ Hears /\ AtStep("reader", "idle") /\ heard < oscene.heard
    /\ text \in oscene.words
    /\ heard' = heard + 1
    /\ LET c == CardOfUtterance
           joins == c = Nothing /\ channel.kind = "utterances" /\ last # Nothing /\ card[last].utt + 1 = heard /\ Unfinished(last)
           hit == IF c # Nothing THEN c ELSE last
       IN  \/ /\ c # Nothing \/ joins
              /\ IF text = "longer" \/ joins
                 THEN Restarted(hit) /\ card' = [card EXCEPT ![hit].long = TRUE, ![hit].utt = heard, ![hit].persisted = TRUE]
                 ELSE UNCHANGED <<ogen, answer, model>> /\ card' = Marked(hit, card)
              /\ log' = log \o QuestionRow(hit)
              /\ UNCHANGED task
           \/ /\ c = Nothing /\ Classify(text, Recent) = "yes"
              /\ task' = [task EXCEPT !["reader"] = [NoTask EXCEPT !.pc = "new", !.text = text, !.utt = heard]]
              /\ UNCHANGED <<card, ogen, answer, model, log>>
           \/ /\ c = Nothing /\ Classify(text, Recent) # "yes"
              /\ task' = IF Classify(text, Recent) = "unsure" /\ Acts("gate") /\ AtStep("gate", "idle")
                         THEN [task EXCEPT !["gate"] = [NoTask EXCEPT !.pc = "asking", !.utt = heard]] ELSE task
              /\ UNCHANGED <<card, ogen, answer, model, log>>
    /\ UNCHANGED <<oscene, last, channel, osocket>>

\* The model's answer comes in time and nothing was said since, or not.
LlmGate ==
    /\ AtStep("gate", "asking")
    /\ \/ heard = task["gate"].utt + 1 /\ osocket.pc = "open" /\ TaskGoes("gate", "new")
       \/ TaskEnds("gate")
    /\ UNCHANGED <<oscene, card, last, ogen, answer, model, log, channel, heard, osocket>>

(***************************************************************************)
(* Controls                                                                 *)
(***************************************************************************)
LoopFree == osocket.pc = "open" /\ AtStep("loop", "idle")

PauseCopilot ==
    /\ Acts("pause") /\ LoopFree
    /\ osocket' = [osocket EXCEPT !.paused = ~@]
    /\ UNCHANGED <<oscene, card, last, ogen, answer, model, task, log, channel, heard>>

\* Answer what was said in the last 20 seconds, or the screenshot.
AnswerNow ==
    /\ LoopFree /\ FreeCards # {}
    /\ \/ Acts("now") /\ heard > 0
       \/ Acts("screenshot")
    /\ task' = [task EXCEPT !["loop"] = [NoTask EXCEPT !.pc = "new", !.utt = heard]]
    /\ UNCHANGED <<oscene, card, last, ogen, answer, model, log, channel, heard, osocket>>

\* Expand, shorter, regenerate.
RedoCard(c) ==
    /\ Acts("redo") /\ LoopFree /\ card[c].made /\ FreeAnswers # {}
    /\ task' = [task EXCEPT !["loop"] = [NoTask EXCEPT !.pc = "start", !.card = c]]
    /\ IF ogen = Nothing THEN UNCHANGED <<card, ogen, answer, model, log>>
       ELSE IF answer[ogen].card # c THEN Interrupted(ogen, "interrupted")
       ELSE ogen' = Nothing /\ answer' = AnswerCut(ogen) /\ model' = ModelCut(ogen) /\ UNCHANGED <<card, log>>
    /\ UNCHANGED <<oscene, last, channel, heard, osocket>>

\* DismissCard and that_was_me.
DismissCard(c) ==
    /\ Acts("dismiss") /\ LoopFree /\ card[c].made /\ card[c].state # "dismissed"
    /\ IF ogen # Nothing /\ answer[ogen].card = c THEN Interrupted(ogen, "dismissed")
       ELSE card' = [card EXCEPT ![c].state = "dismissed"] /\ UNCHANGED <<ogen, answer, model, log>>
    /\ task' = [task EXCEPT !["loop"] = [NoTask EXCEPT !.pc = "drop", !.card = c]]
    /\ UNCHANGED <<oscene, last, channel, heard, osocket>>

DismissStored ==
    /\ AtStep("loop", "drop") /\ TaskEnds("loop")
    /\ LET c == task["loop"].card IN
       /\ card' = Marked(c, card)
       /\ log' = log \o QuestionRow(c) \o <<Row("suggestion", c, "dismissed")>>
    /\ UNCHANGED <<oscene, last, ogen, answer, model, channel, heard, osocket>>

(***************************************************************************)
(* The end                                                                  *)
(***************************************************************************)
StopCopilot ==
    /\ Acts("stop") /\ LoopFree
    /\ osocket' = [osocket EXCEPT !.pc = "ended"]
    /\ UNCHANGED <<oscene, card, last, ogen, answer, model, task, log, channel, heard>>

\* finish: the answer that streams is stored as far as it came, the
\* channels are closed.
FinishInterrupts ==
    /\ osocket.pc = "ended" /\ ogen # Nothing
    /\ Interrupted(ogen, "interrupted")
    /\ UNCHANGED <<oscene, last, task, channel, heard, osocket>>

\* Every task is cancelled; an answer's task that has to stop cancels its
\* model on the way out.
CloseSocket ==
    /\ \/ osocket.pc = "ended"
       \/ Acts("stop") /\ osocket.pc = "open"
    /\ osocket' = [osocket EXCEPT !.pc = "closed"]
    /\ channel' = [channel EXCEPT !.kind = "none"]
    /\ task' = [t \in Actors |-> NoTask]
    /\ model' = [a \in Answers |-> IF model[a] = "running" /\ (ogen = a \/ answer[a].pc = "streaming") THEN "cancelled"
                                   ELSE model[a]]
    /\ answer' = [a \in Answers |-> IF answer[a].pc = "off" THEN answer[a] ELSE [answer[a] EXCEPT !.pc = "done", !.parts = FALSE]]
    /\ UNCHANGED <<oscene, card, last, ogen, log, heard>>

CopilotNext ==
    \/ \E t \in Actors : NewCard(t) \/ ShowCard(t) \/ StartAnswer(t) \/ RecordQuestion(t)
    \/ \E a \in Answers : Chunk(a) \/ AnswerEnds(a) \/ AnswerTail(a) \/ AnswerFails(a)
    \/ OpenChannel \/ StreamDrops \/ Consider \/ LlmGate
    \/ \E text \in {"question", "statement", "addressed", "followup", "chat", "longer"} : UtteranceEnd(text)
    \/ PauseCopilot \/ AnswerNow \/ (\E c \in Cards : RedoCard(c) \/ DismissCard(c)) \/ DismissStored
    \/ StopCopilot \/ FinishInterrupts \/ CloseSocket

CopilotSpec == CopilotInit /\ [][CopilotNext]_ovars

(***************************************************************************)
(* Properties                                                               *)
(***************************************************************************)
\* The debrief is made of the stored turns (voice_eval.copilot_cards): a
\* question is stored once, before every suggestion shown for it, whichever
\* of the three tasks and the answer's own got there first.
QuestionStoredOnceAndFirst ==
    \A i \in 1..Len(log) :
        /\ log[i].kind = "question" => \A j \in 1..(i - 1) : log[j].kind # "question" \/ log[j].card # log[i].card
        /\ log[i].kind = "suggestion" => \E j \in 1..(i - 1) : log[j].kind = "question" /\ log[j].card = log[i].card

\* A new question interrupts the answer that streams (copilot_session.py:31):
\* no provider stream goes on for an answer that is not shown.
OneStream == \A a \in Answers : answer[a].pc = "done" => model[a] # "running"
=============================================================================
