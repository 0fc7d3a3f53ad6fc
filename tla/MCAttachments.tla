--------------------------- MODULE MCAttachments ---------------------------
(* Two chats: two turns in the first, one in the second, sharing an image.   *)
EXTENDS Attachments

CONSTANTS t1, t2, t3, r1, r2, chatA, chatB, cat, dog

TwoChats == [t \in Tasks |-> IF t \in {t3, r2} THEN chatB ELSE chatA]
Shared   == [t \in Turns |-> IF t = t1 THEN {cat, dog} ELSE {cat}]
=============================================================================
