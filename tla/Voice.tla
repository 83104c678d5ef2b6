-------------------------------- MODULE Voice --------------------------------
(***************************************************************************)
(* The voice features of one user: the rooms and their sockets, what is     *)
(* said on a practice socket and on a copilot socket, and how speech is cut *)
(* into utterances.  The four share no state; a step is of one of them.     *)
(***************************************************************************)
EXTENDS VoiceRoom, Practice, Copilot, Vad

voicevars == <<vvars, pvars, ovars, vadvars>>

VoiceInit == RoomInit /\ PracticeInit /\ CopilotInit /\ VadInit

VoiceNext ==
    \/ RoomNext /\ UNCHANGED <<pvars, ovars, vadvars>>
    \/ PracticeNext /\ UNCHANGED <<vvars, ovars, vadvars>>
    \/ CopilotNext /\ UNCHANGED <<vvars, pvars, vadvars>>
    \/ VadNext /\ UNCHANGED <<vvars, pvars, ovars>>

VoiceSpec == VoiceInit /\ [][VoiceNext]_voicevars

(***************************************************************************)
(* Properties                                                               *)
(***************************************************************************)
\* Sessions, replies, cards and utterances are in states the code knows.
VoiceTypesOK == RoomTypeOK /\ PracticeTypeOK /\ CopilotTypeOK /\ VadTypeOK

\* What is heard is cut into utterances once and in order (vad.py:7), and the
\* question it makes is stored once and before its answer (copilot_session.py).
HeardOnce == UtterancesApart /\ QuestionStoredOnceAndFirst
=============================================================================
