--------------------------- MODULE ApprovalBroker ---------------------------
(***************************************************************************)
(* TelegramApprovalBroker: one-time human approvals.  A caller (the tool   *)
(* loop) waits in request_approval for a future that button clicks, the    *)
(* deadline, a shutdown, a failed send or the caller's own cancellation    *)
(* settle, each in a task of its own.                                      *)
(*                                                                         *)
(* A click carries the request id of the card it was made on; the card is  *)
(* in the bound chat, so only the user can differ from the binding.  The   *)
(* deadline is a flag that time raises: the wall clock that a click is     *)
(* compared with and the event loop's timer pass it together.              *)
(***************************************************************************)
EXTENDS Naturals

CONSTANTS
    Requests,  \* approval requests (request ids are never reused)
    Users,     \* members of the chat the card is sent to
    Owner,     \* the user each request is bound to
    Nobody     \* "no click yet"

Choices == {"approved", "denied"}
Clicks  == [user : Users, choice : Choices, late : BOOLEAN]

ASSUME OwnerAssumption ==
    /\ Owner \in [Requests -> Users]
    /\ Nobody \notin Clicks

VARIABLES
    wait,      \* where each request_approval call is
    pending,   \* _pending: the requests a click can still resolve
    future,    \* the future each call waits for
    lapsed,    \* the requests past expires_at
    shown,     \* the requests whose card is in the chat with its buttons
    decision,  \* what request_approval returns
    first,     \* history: the first click on each card
    down       \* shutdown() has run

brokerVars == <<wait, pending, future, lapsed, shown, decision, first, down>>

Outside == {"new", "done", "cancelled"}   \* not inside request_approval
Settled == {"approved", "denied", "expired", "cancelled"}

Move(r, from, to) ==
    /\ wait[r] = from
    /\ wait' = [wait EXCEPT ![r] = to]

Return(r, from, answer) ==
    /\ Move(r, from, "done")
    /\ decision' = [decision EXCEPT ![r] = answer]

\* set_result, or cancel, unless the future is done.
SetFuture(r, value) ==
    future' = [future EXCEPT ![r] = IF @ = "open" THEN value ELSE @]

-----------------------------------------------------------------------------
BrokerInit ==
    /\ wait = [r \in Requests |-> "new"]
    /\ pending = {}
    /\ future = [r \in Requests |-> "none"]
    /\ lapsed = {}
    /\ shown = {}
    /\ decision = [r \in Requests |-> "none"]
    /\ first = [r \in Requests |-> Nobody]
    /\ down = FALSE

\* No application bound, or the conversation is unknown or unreadable.
RefuseToAsk(r) ==
    /\ Return(r, "new", "denied")
    /\ UNCHANGED <<pending, future, lapsed, shown, first, down>>

\* The entry is in _pending before the card is sent.
Register(r) ==
    /\ Move(r, "new", "send")
    /\ pending' = pending \cup {r}
    /\ future' = [future EXCEPT ![r] = "open"]
    /\ UNCHANGED <<lapsed, shown, decision, first, down>>

\* Telegram shows the card before, or without, the send call returning.
Deliver(r) ==
    /\ wait[r] = "send"
    /\ r \notin shown
    /\ shown' = shown \cup {r}
    /\ UNCHANGED <<wait, pending, future, lapsed, decision, first, down>>

SendReturns(r) ==
    /\ r \in shown
    /\ Move(r, "send", "wait")
    /\ UNCHANGED <<pending, future, lapsed, shown, decision, first, down>>

SendFails(r) ==
    /\ Return(r, "send", "denied")
    /\ pending' = pending \ {r}
    /\ SetFuture(r, "denied")
    /\ UNCHANGED <<lapsed, shown, first, down>>

\* The deadline passes (nobody compares with it once the call has returned).
Lapse(r) ==
    /\ wait[r] \notin {"new", "done"}
    /\ r \notin lapsed
    /\ lapsed' = lapsed \cup {r}
    /\ UNCHANGED <<wait, pending, future, shown, decision, first, down>>

-----------------------------------------------------------------------------
(* handle_callback -> _resolve                                              *)

NoteClick(r, user, choice) ==
    first' = IF first[r] = Nobody
             THEN [first EXCEPT ![r] = [user |-> user, choice |-> choice, late |-> r \in lapsed]]
             ELSE first

\* Mutant: the principal is not compared.
ValidFromAnyone(r, user) == r \in pending /\ r \notin lapsed

Valid(r, user) == r \in pending /\ user = Owner[r] /\ r \notin lapsed

\* Mutant: a foreign click is refused but does not void the request.
IgnoreInvalidClick(r, user, choice) ==
    /\ r \in shown
    /\ ~Valid(r, user)
    /\ NoteClick(r, user, choice)
    /\ UNCHANGED <<wait, pending, future, lapsed, shown, decision, down>>

\* Mutant: voiding drops the request and does not wake the caller.
VoidWithoutWaking(r, user, choice) ==
    /\ r \in shown
    /\ ~Valid(r, user)
    /\ NoteClick(r, user, choice)
    /\ pending' = pending \ {r}
    /\ UNCHANGED <<wait, future, lapsed, shown, decision, down>>

\* A foreign or late click voids the request; an unknown one changes nothing.
InvalidClick(r, user, choice) ==
    /\ r \in shown
    /\ ~Valid(r, user)
    /\ NoteClick(r, user, choice)
    /\ IF r \in pending THEN SetFuture(r, "expired") ELSE UNCHANGED future
    /\ pending' = pending \ {r}
    /\ UNCHANGED <<wait, lapsed, shown, decision, down>>

ValidClick(r, user, choice) ==
    /\ r \in shown
    /\ Valid(r, user)
    /\ NoteClick(r, user, choice)
    /\ SetFuture(r, choice)
    /\ pending' = pending \ {r}
    /\ UNCHANGED <<wait, lapsed, shown, decision, down>>

Click(r) ==
    \E user \in Users, choice \in Choices :
        ValidClick(r, user, choice) \/ InvalidClick(r, user, choice)

-----------------------------------------------------------------------------
(* The end of request_approval                                              *)

\* Mutant: the caller resumes before anybody has decided.
WakeUpEarly(r) ==
    /\ Move(r, "wait", "close")
    /\ decision' = [decision EXCEPT ![r] = future[r]]
    /\ pending' = pending \ {r}
    /\ UNCHANGED <<future, lapsed, shown, first, down>>

WakeUp(r) ==
    /\ Move(r, "wait", "close")
    /\ future[r] # "open"
    /\ decision' = [decision EXCEPT ![r] = future[r]]
    /\ pending' = pending \ {r}
    /\ UNCHANGED <<future, lapsed, shown, first, down>>

\* Mutant: the finally that pops the entry is missing.
TimeOutKeepsPending(r) ==
    /\ Move(r, "wait", "close")
    /\ r \in lapsed
    /\ future[r] = "open"
    /\ decision' = [decision EXCEPT ![r] = "expired"]
    /\ UNCHANGED <<pending, future, lapsed, shown, first, down>>

\* Mutant: the time left is computed the wrong way round, and is over at once.
TimeOutAtOnce(r) ==
    /\ Move(r, "wait", "close")
    /\ SetFuture(r, "cancelled")
    /\ decision' = [decision EXCEPT ![r] = "expired"]
    /\ pending' = pending \ {r}
    /\ UNCHANGED <<lapsed, shown, first, down>>

\* Mutant: no timer; expires_at is looked at only when a click arrives.
TimeOutOnClick(r) ==
    /\ Move(r, "wait", "close")
    /\ r \in lapsed
    /\ first[r] # Nobody
    /\ SetFuture(r, "cancelled")
    /\ decision' = [decision EXCEPT ![r] = "expired"]
    /\ pending' = pending \ {r}
    /\ UNCHANGED <<lapsed, shown, first, down>>

\* wait_for cancels the future it gives up on.  The timer cancels the task, so it
\* wins over a click that has set the future when the task has yet to resume.
TimeOut(r) ==
    /\ Move(r, "wait", "close")
    /\ r \in lapsed
    /\ SetFuture(r, "cancelled")
    /\ decision' = [decision EXCEPT ![r] = "expired"]
    /\ pending' = pending \ {r}
    /\ UNCHANGED <<lapsed, shown, first, down>>

\* _finalize_message edits the card, best effort, and the call returns.
CloseCard(r) ==
    /\ Move(r, "close", "done")
    /\ shown' \in {shown, shown \ {r}}
    /\ UNCHANGED <<pending, future, lapsed, decision, first, down>>

\* The caller is cancelled: the finally around wait_for pops the entry, while
\* the except around the send catches Exception only and leaves it there.
Cancel(r) ==
    /\ wait[r] \notin Outside
    /\ wait' = [wait EXCEPT ![r] = "cancelled"]
    /\ pending' = IF wait[r] = "send" THEN pending ELSE pending \ {r}
    /\ IF wait[r] = "wait" THEN SetFuture(r, "cancelled") ELSE UNCHANGED future
    /\ UNCHANGED <<lapsed, shown, decision, first, down>>

Shutdown ==
    /\ ~down
    /\ down' = TRUE
    /\ future' = [r \in Requests |->
                    IF r \in pending /\ future[r] = "open" THEN "expired" ELSE future[r]]
    /\ pending' = {}
    /\ UNCHANGED <<wait, lapsed, shown, decision, first>>

-----------------------------------------------------------------------------
Ask(r)     == RefuseToAsk(r) \/ Register(r)
Proceed(r) == SendReturns(r) \/ SendFails(r) \/ WakeUp(r) \/ TimeOut(r) \/ CloseCard(r)
Outer(r)   == Deliver(r) \/ Lapse(r) \/ Click(r)

BrokerNext ==
    \/ \E r \in Requests : Ask(r) \/ Proceed(r) \/ Outer(r) \/ Cancel(r)
    \/ Shutdown

\* Bot API calls have timeouts, clocks advance, ready tasks run.
BrokerFairness ==
    \A r \in Requests : WF_brokerVars(Proceed(r)) /\ WF_brokerVars(Lapse(r))

BrokerSpec     == BrokerInit /\ [][BrokerNext]_brokerVars
BrokerFairSpec == BrokerSpec /\ BrokerFairness

-----------------------------------------------------------------------------
(* Properties                                                               *)

\* Types of the broker's state.
BrokerTypeOK ==
    /\ wait \in [Requests -> Outside \cup {"send", "wait", "close"}]
    /\ pending \in SUBSET Requests
    /\ future \in [Requests -> Settled \cup {"none", "open"}]
    /\ lapsed \in SUBSET Requests
    /\ shown \in SUBSET Requests
    /\ decision \in [Requests -> {"none", "approved", "denied", "expired"}]
    /\ first \in [Requests -> Clicks \cup {Nobody}]
    /\ down \in BOOLEAN

\* The first click that reached the broker is the bound user's, and in time.
Said(r, choice) ==
    first[r] = [user |-> Owner[r], choice |-> choice, late |-> FALSE]

Consented(r) == Said(r, "approved")

ClickedByOther(r) == first[r] # Nobody /\ first[r].user # Owner[r]

\* "Any other user can never approve", "a repeat click never executes" and "a
\* foreign click voids it" (approval.py:17-24, 368-380): request_approval
\* answers approved only if the very first click was the bound user's approval
\* before the deadline, so no later click can repair a void or a denied request.
ApprovedByOwner ==
    \A r \in Requests : decision[r] = "approved" => Consented(r)

\* A caller that still waits can still be woken: its entry is in _pending, where
\* clicks and shutdown find it, until its future is settled.
WaiterReachable ==
    \A r \in Requests : wait[r] = "wait" /\ future[r] = "open" => r \in pending

\* "a request is consumed on the first valid decision" (approval.py:21): what a
\* call takes from its wait is what its owner said first, and it is refused for
\* want of an answer only if its time is over, a stranger clicked on its own card,
\* or the broker was shut down; never for what became of another request, of a
\* repeated click or of the order of the two.
AnsweredForCause ==
    \A r \in Requests : wait[r] = "close" =>
        \/ decision[r] \in Choices /\ Said(r, decision[r])
        \/ decision[r] = "expired" /\ (r \in lapsed \/ ClickedByOther(r) \/ down)

\* A request that is not pending never becomes pending again, and once its call
\* has returned no click has anything to resolve.
ReturnedIsConsumed ==
    \A r \in Requests : wait[r] \in {"close", "done"} => r \notin pending

\* "Bounded wait": every request_approval ends, whoever clicks or does not.
EveryRequestEnds ==
    \A r \in Requests : wait[r] = "send" ~> wait[r] \in {"done", "cancelled"}

-----------------------------------------------------------------------------
\* approval.py:323-324: "The request is over (decided, expired, or cancelled):
\* it is consumed and can never be resolved again": a cancelled call too leaves
\* nothing in _pending.
CancelledIsConsumed ==
    \A r \in Requests : wait[r] = "cancelled" => r \notin pending
=============================================================================
