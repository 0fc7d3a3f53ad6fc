-------------------------- MODULE MCApprovalBroker --------------------------
(* Two requests of one user, in a chat with a second user.                  *)
EXTENDS ApprovalBroker

CONSTANTS q1, q2, alice, bob

AliceOwns == [r \in Requests |-> alice]
=============================================================================
