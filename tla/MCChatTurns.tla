---------------------------- MODULE MCChatTurns ----------------------------
(* Small instances of ChatTurns: model values are given in the .cfg files. *)
EXTENDS ChatTurns

CONSTANTS t1, t2, t3, r1, r2, s1, chatA

\* Every task in one chat.
OneChat == [t \in Tasks |-> chatA]
=============================================================================
