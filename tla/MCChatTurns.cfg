\* Two messages, a /new and a /stop in one chat, and one process restart.
SPECIFICATION FairSpec
CONSTANTS
    t1 = t1
    t2 = t2
    t3 = t3
    r1 = r1
    r2 = r2
    s1 = s1
    chatA = chatA
    None = None
    Turns = {t1, t2}
    Resets = {r1}
    Stops = {s1}
    Chats = {chatA}
    ChatOf <- OneChat
    MaxConv = 3
    MaxRestarts = 1
INVARIANTS LockExclusive TranscriptSerial ContextCurrent HandleLive ReplyRecorded
PROPERTIES FreshConversation EveryTurnEnds ImplementsTranscript
CHECK_DEADLOCK FALSE
