-------------------------------- MODULE Vad --------------------------------
(***************************************************************************)
(* The segmenter that cuts what is heard into utterances                    *)
(* (providers/voice/vad.py).  Time is counted in chunks of 20 ms; whether a *)
(* chunk is speech is the detector's choice.                                *)
(***************************************************************************)
EXTENDS Integers, Sequences

CONSTANTS
    StartChunks,    \* START_CHUNKS
    Preroll,        \* PREROLL_MS
    EndSilence,     \* end_silence_ms
    MinSpeech,      \* min_speech_ms
    MaxUtterance,   \* max_utterance_ms
    MaxGap,         \* bound: how far the client's clock jumps between two frames
    MaxChunks,      \* bound: chunks of a session
    VadScenes       \* whether anything is said at all

ASSUME VadConstants ==
    /\ {StartChunks, Preroll, EndSilence, MinSpeech, MaxUtterance} \subseteq Nat \ {0}
    /\ {MaxGap, MaxChunks} \subseteq Nat
    /\ StartChunks <= Preroll
    /\ VadScenes \subseteq BOOLEAN

VARIABLES
    hearing,        \* the situation: chunks come in
    clock,          \* _clock_ms, and how many chunks were fed
    preroll,        \* _preroll: the last chunks before speech
    voiced_run,     \* _voiced_run
    speech,         \* in_speech, and _start_ms, _speech_ms, _silence_ms
    buf,            \* _buf: the chunks of the utterance
    cut             \* the utterances handed out

vadvars == <<hearing, clock, preroll, voiced_run, speech, buf, cut>>

Quiet == [on |-> FALSE, start |-> 0, voiced |-> 0, silent |-> 0]

VadTypeOK ==
    /\ clock \in [ms : Nat, fed : 0..MaxChunks]
    /\ Len(preroll) <= Preroll /\ voiced_run \in 0..StartChunks
    /\ speech \in [on : BOOLEAN, start : Nat, voiced : 0..MaxChunks, silent : 0..EndSilence]
    /\ ~speech.on => buf = <<>>

VadInit ==
    /\ hearing \in VadScenes
    /\ clock = [ms |-> Preroll, fed |-> 0]
    /\ preroll = <<>> /\ voiced_run = 0 /\ speech = Quiet /\ buf = <<>> /\ cut = <<>>

\* Before a frame that starts a chunk the clock is the client's, which runs
\* on while nothing is sent.
ClockJumps ==
    /\ hearing /\ clock.fed < MaxChunks /\ MaxGap > 0
    /\ \E gap \in 1..MaxGap : clock' = [clock EXCEPT !.ms = clock.fed + Preroll + gap]
    /\ clock'.ms > clock.ms
    /\ UNCHANGED <<hearing, preroll, voiced_run, speech, buf, cut>>

\* Fault: what came before speech is never dropped.
AllOf(s, n) == IF n > 0 THEN s ELSE <<>>
\* The last n.
Newest(s, n) == IF Len(s) <= n THEN s ELSE SubSeq(s, Len(s) - n + 1, Len(s))

\* Fault: a long utterance that goes on keeps what was handed out of it.
HeldOfAll(chunks, final) == IF final THEN <<>> ELSE chunks
\* What is held of an utterance once it is closed.
HeldOf(chunks, final) == <<>>

\* _close: the utterance is handed out unless too little of it was speech;
\* a long one that goes on starts its next piece where this one ends.
CloseUtterance(end, chunks, voiced, final) ==
    /\ speech' = IF final THEN Quiet ELSE [speech EXCEPT !.start = end, !.voiced = 0, !.silent = 0]
    /\ voiced_run' = IF final THEN 0 ELSE voiced_run
    /\ buf' = HeldOf(chunks, final)
    /\ cut' = IF voiced >= MinSpeech
              THEN Append(cut, [from |-> speech.start, to |-> end, final |-> final,
                                pcm |-> SubSeq(chunks, 1, IF end - speech.start < Len(chunks) THEN end - speech.start
                                                          ELSE Len(chunks))])
              ELSE cut

StepQuiet(voiced) ==
    /\ ~speech.on
    /\ LET heard_now == Newest(Append(preroll, clock.fed), Preroll)
           run == IF voiced THEN voiced_run + 1 ELSE 0
       IN  /\ voiced_run' = run
           /\ IF run < StartChunks THEN preroll' = heard_now /\ UNCHANGED <<speech, buf>>
              ELSE /\ preroll' = <<>> /\ buf' = heard_now
                   /\ speech' = [on |-> TRUE, start |-> clock.ms + 1 - Len(heard_now), voiced |-> run, silent |-> 0]
    /\ UNCHANGED cut

StepSpeech(voiced) ==
    /\ speech.on
    /\ LET chunks == Append(buf, clock.fed)
           spoken == speech.voiced + (IF voiced THEN 1 ELSE 0)
           silent == IF voiced THEN 0 ELSE speech.silent + 1
           end == clock.ms + 1
       IN  IF silent >= EndSilence THEN CloseUtterance(end - silent, chunks, spoken, TRUE)
           ELSE IF end - speech.start >= MaxUtterance THEN CloseUtterance(end, chunks, spoken, FALSE)
           ELSE /\ speech' = [speech EXCEPT !.voiced = spoken, !.silent = silent]
                /\ buf' = chunks
                /\ UNCHANGED <<voiced_run, cut>>
    /\ UNCHANGED preroll

Feed ==
    /\ hearing /\ clock.fed < MaxChunks
    /\ \E voiced \in BOOLEAN : StepQuiet(voiced) \/ StepSpeech(voiced)
    /\ clock' = [ms |-> clock.ms + 1, fed |-> clock.fed + 1]
    /\ UNCHANGED hearing

\* flush, at a pause, a typed answer or the end.
Flush ==
    /\ hearing /\ speech.on
    /\ CloseUtterance(speech.start + Len(buf), buf, speech.voiced, TRUE)
    /\ UNCHANGED <<hearing, clock, preroll>>

VadNext == ClockJumps \/ Feed \/ Flush

VadSpec == VadInit /\ [][VadNext]_vadvars

(***************************************************************************)
(* Properties                                                               *)
(***************************************************************************)
\* What is heard is transcribed once and in order (vad.py:7): however speech
\* is cut, by silence, by its length or by a pause, and however the client's
\* clock jumps, an utterance holds some sound, comes after the one before
\* it, and no chunk is part of two.
UtterancesApart ==
    /\ \A i \in 1..Len(cut) : cut[i].from < cut[i].to /\ cut[i].pcm # <<>>
    /\ \A i, j \in 1..Len(cut) : i < j =>
        /\ cut[i].to <= cut[j].from
        /\ cut[i].pcm[Len(cut[i].pcm)] < cut[j].pcm[1]
=============================================================================
