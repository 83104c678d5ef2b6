------------------------------- MODULE MCVoice -------------------------------
(* The voice rooms of a user, what is said on one practice socket, on one   *)
(* copilot socket, and how speech is cut, each in situations of its own.    *)
EXTENDS Voice

CONSTANTS v1, v2, c1, c2, w1

Rm(modes, ids, sockets, events, tries) ==
    [modes |-> modes, ids |-> ids, sockets |-> sockets, workers |-> {w1}, events |-> events, asks |-> tries]
Pr(does, words, replies) == [does |-> does, words |-> words, replies |-> replies]
Co(does, words, n, answers) == [does |-> does, words |-> words, heard |-> n, answers |-> answers]

NoRoom == Rm({}, {}, {}, {}, 0)
NoPractice == Pr({}, 0, 0)
NoCopilot == Co({}, {}, 0, 0)

Rooms == {Rm({"mock"}, {v1, v2}, {c1, c2}, {}, 0),
          Rm({"mock"}, {v1}, {c1, c2}, {"two", "self"}, 1),
          Rm({"mock", "copilot"}, {v1}, {c1}, {"settings", "oversized", "control"}, 2),
          Rm({"mock", "copilot"}, {v1}, {c1}, {"bug", "busy", "delete"}, 1)}
Interviews == {Pr({"speech", "errors", "leave"}, 1, 2), Pr({"speech", "voice"}, 1, 2), Pr({"speech"}, 2, 2),
               Pr({"speech", "limits", "errors"}, 1, 2), Pr({"text", "voice", "controls"}, 1, 2),
               Pr({"speech", "idle", "pause"}, 1, 2), Pr({"text", "errors", "limits", "leave"}, 1, 3)}
Meetings == {Co({"now", "gate", "stop"}, {"addressed"}, 1, 3),
             Co({"redo", "dismiss"}, {"question", "longer"}, 2, 2),
             Co({"deepgram", "errors", "pause", "stop"}, {"question", "longer"}, 2, 3),
             Co({"gate"}, {"statement", "chat", "addressed", "followup"}, 3, 2),
             Co({"screenshot", "stop"}, {"question"}, 1, 2)}

MCScenes == {<<r, NoPractice, NoCopilot, FALSE>> : r \in Rooms}
            \cup {<<NoRoom, p, NoCopilot, FALSE>> : p \in Interviews}
            \cup {<<NoRoom, NoPractice, o, FALSE>> : o \in Meetings}
            \cup {<<NoRoom, NoPractice, NoCopilot, TRUE>>}
MCRoomScenes == {s[1] : s \in MCScenes}
MCPracticeScenes == {s[2] : s \in MCScenes}
MCCopilotScenes == {s[3] : s \in MCScenes}
MCVadScenes == {s[4] : s \in MCScenes}

MCInit == VoiceInit /\ <<vscene, pscene, oscene, hearing>> \in MCScenes
MCSpec == MCInit /\ [][VoiceNext]_voicevars /\ RoomFairness
=============================================================================
