\* Three turns that share an image, a /new in the chat of two of them, one crash.
SPECIFICATION Spec
CONSTANTS
    t1 = t1
    t2 = t2
    t3 = t3
    r1 = r1
    r2 = r2
    chatA = chatA
    chatB = chatB
    cat = cat
    dog = dog
    None = None
    Turns = {t1, t2, t3}
    Resets = {r1}
    Chats = {chatA, chatB}
    ChatOf <- TwoChats
    Digests = {cat, dog}
    ImagesOf <- Shared
    MaxCrashes = 1
INVARIANTS SerialSafe SerialReclaim
CHECK_DEADLOCK FALSE
