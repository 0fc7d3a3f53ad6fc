\* A turn reuses a blob that a /new of another chat, or the compensation of another turn, is about to delete.
SPECIFICATION Spec
CONSTANTS
    t1 = t1
    t2 = t2
    t3 = t3
    r1 = r1
    r2 = r2
    chatA = chatA
    chatB = chatB
    cat = cat
    dog = dog
    None = None
    Turns = {t1, t2, t3}
    Resets = {r1, r2}
    Chats = {chatA, chatB}
    ChatOf <- TwoChats
    Digests = {cat, dog}
    ImagesOf <- Shared
    MaxCrashes = 1
INVARIANT SharedBlobKept
CHECK_DEADLOCK FALSE
