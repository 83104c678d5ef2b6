SPECIFICATION MCSpec
CONSTANTS
    v1 = v1
    v2 = v2
    c1 = c1
    c2 = c2
    w1 = w1
    Sessions = {v1, v2}
    Sockets = {c1, c2}
    Workers = {w1}
    Retries = 1
    MaxAsks = 2
    RoomScenes <- MCRoomScenes
    MaxReplies = 3
    Questions = 1
    MaxWords = 2
    MaxSentences = 1
    Queue = 2
    PracticeScenes <- MCPracticeScenes
    MaxCards = 3
    MaxAnswers = 3
    MaxHeard = 3
    CopilotScenes <- MCCopilotScenes
    StartChunks = 2
    Preroll = 3
    EndSilence = 2
    MinSpeech = 3
    MaxUtterance = 5
    MaxGap = 2
    MaxChunks = 9
    VadScenes <- MCVadScenes
INVARIANT VoiceTypesOK
INVARIANT OneLive
 
INVARIANT HeardOnce
 
CHECK_DEADLOCK FALSE
