---------------------------- MODULE Transcript ----------------------------
(***************************************************************************)
(* What a conversation promises its reader, with no task, lock or await in *)
(* sight: a transcript made of exchanges.  A question may be followed by   *)
(* the answer to that question and by nothing else; at most one question   *)
(* of a conversation is open; a dropped conversation is empty for good.    *)
(***************************************************************************)
EXTENDS Naturals, Sequences

CONSTANTS Turns, ConvIds, None

VARIABLES
    status,   \* "unused", "live" or "dropped", per conversation id
    log,      \* the transcript
    open      \* the turn whose question is last and may still be answered, or None

vars == <<status, log, open>>

Init ==
    /\ status = [c \in ConvIds |-> "unused"]
    /\ log = [c \in ConvIds |-> <<>>]
    /\ open = [c \in ConvIds |-> None]

Create(c) ==
    /\ status[c] = "unused"
    /\ status' = [status EXCEPT ![c] = "live"]
    /\ UNCHANGED <<log, open>>

Drop(c) ==
    /\ status[c] = "live"
    /\ status' = [status EXCEPT ![c] = "dropped"]
    /\ log' = [log EXCEPT ![c] = <<>>]
    /\ UNCHANGED open

Ask(c, t) ==
    /\ status[c] = "live"
    /\ open[c] = None
    /\ log' = [log EXCEPT ![c] = Append(@, [role |-> "user", turn |-> t])]
    /\ open' = [open EXCEPT ![c] = t]
    /\ UNCHANGED status

Answer(c, t) ==
    /\ status[c] = "live"
    /\ open[c] = t
    /\ log' = [log EXCEPT ![c] = Append(@, [role |-> "assistant", turn |-> t])]
    /\ open' = [open EXCEPT ![c] = None]
    /\ UNCHANGED status

\* The question stays, and will have no answer: a failure, a /stop, a restart.
Abandon(C) ==
    /\ open' = [c \in ConvIds |-> IF c \in C THEN None ELSE open[c]]
    /\ UNCHANGED <<status, log>>

Next ==
    \/ \E c \in ConvIds : Create(c) \/ Drop(c)
    \/ \E c \in ConvIds, t \in Turns : Ask(c, t) \/ Answer(c, t)
    \/ \E C \in SUBSET ConvIds : Abandon(C)

Spec == Init /\ [][Next]_vars
=============================================================================
