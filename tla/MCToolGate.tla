----------------------------- MODULE MCToolGate -----------------------------
(* One tool, two users in the chat, calls owned by the first.               *)
EXTENDS ToolGate

CONSTANTS exec, alice, bob

AliceOwns   == [r \in Requests |-> alice]
AllRequests == 1 .. MaxCalls
=============================================================================
