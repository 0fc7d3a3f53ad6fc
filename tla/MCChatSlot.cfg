\* Three messages and a /stop in one chat.
SPECIFICATION Spec
CONSTANTS
    t1 = t1
    t2 = t2
    t3 = t3
    r1 = r1
    r2 = r2
    s1 = s1
    chatA = chatA
    None = None
    Turns = {t1, t2, t3}
    Resets = {}
    Stops = {s1}
    Chats = {chatA}
    ChatOf <- OneChat
    MaxConv = 3
    MaxRestarts = 0
INVARIANT SlotIsRunningTurn
CHECK_DEADLOCK FALSE
