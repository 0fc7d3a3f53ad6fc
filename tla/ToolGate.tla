------------------------------ MODULE ToolGate ------------------------------
(***************************************************************************)
(* run_tool_loop and its gate: the model asks for batches of tool calls    *)
(* and every call passes registration, policy, schema, audit and, for an   *)
(* "ask" tool, the human approval of ApprovalBroker, before it runs under  *)
(* a timeout.  The calls of a turn are numbered in the order the model     *)
(* asks for them; the number is also the approval request's id.            *)
(*                                                                         *)
(* Each audit write is an await of its own that may fail; the operator may *)
(* edit the permissions file, the user may click or stop the turn, and the *)
(* broker may be shut down between any two of the loop's steps.            *)
(***************************************************************************)
EXTENDS ApprovalBroker, Sequences, FiniteSets

CONSTANTS
    MaxCalls,       \* bound: tool calls the model asks for in the turn
    MaxBatch,       \* bound: tool calls in one answer of the model
    MaxIterations,  \* max_iterations of the loop
    Tools,          \* registered tools
    Unknown,        \* a name that is not registered
    MaxUpsets       \* bound: edits of the permissions file and failed audit writes

Calls == 1 .. MaxCalls

ASSUME GateAssumption ==
    /\ Requests = Calls
    /\ MaxCalls \in Nat
    /\ MaxBatch \in Nat
    /\ MaxUpsets \in Nat
    /\ MaxIterations \in Nat \ {0}
    /\ Unknown \notin Tools

VARIABLES
    loop,       \* where the loop is
    iteration,  \* completions asked for so far
    asked,      \* calls the model has asked for
    at,         \* the call in the gate
    answered,   \* calls whose result is in the working context
    tool,       \* the tool each call names
    granted,    \* the permission the gate resolved for each call
    outcome,    \* the result code fed back for each call
    trail,      \* the audit table: the events stored for each call, in order
    missing,    \* history: the events of the calls that could not be stored
    ran,        \* executions of each call
    policy,     \* the permissions in force
    reloads

gateVars == <<loop, iteration, asked, at, answered, tool, granted, outcome,
              trail, missing, ran, policy, reloads>>
vars     == <<brokerVars, gateVars>>

Permissions == {"allow", "ask", "deny"}
Ended       == {"final", "failed", "limit", "stopped"}
Inside      == {"gate", "ask", "approval", "start", "run", "tell"}

\* The terminal audit event of each outcome the gate reports.
EventOf == [unknown_tool |-> "denied", tool_denied |-> "denied",
            invalid_arguments |-> "validation_failed",
            approval_denied |-> "approval_denied",
            approval_expired |-> "approval_expired",
            tool_timeout |-> "timed_out", tool_execution_failed |-> "failed",
            ok |-> "completed"]
Outcomes == DOMAIN EventOf \cup {"none", "audit_unavailable"}
Events   == {EventOf[o] : o \in DOMAIN EventOf}
              \cup {"requested", "approval_requested", "approval_approved", "started"}

Stored(c, event) == \E i \in DOMAIN trail[c] : trail[c][i] = event

\* add_tool_audit_event: one row, or an error that is logged.
AddRow(c, event) ==
    /\ trail' = [trail EXCEPT ![c] = Append(@, event)]
    /\ UNCHANGED missing

LoseRow(c, event) ==
    /\ reloads + Cardinality(missing) < MaxUpsets
    /\ missing' = missing \cup {<<c, event>>}
    /\ UNCHANGED trail

NoneMissing(c) == \A event \in Events : <<c, event>> \notin missing

\* Auditor.record: nobody looks at whether the write succeeded.
Record(c, event) == AddRow(c, event) \/ LoseRow(c, event)

\* Auditor.record_pre: TRUE only when the row was written (a session that cannot
\* be closed after its commit reports a row that is there as lost).
RecordPre(c, event, ok) == AddRow(c, event) \/ (~ok /\ LoseRow(c, event))

\* Mutant: the result of a call also ends its batch.
FeedBackDropsBatch(c, code) ==
    /\ outcome' = [outcome EXCEPT ![c] = code]
    /\ answered' = c
    /\ loop' = "model"
    /\ UNCHANGED at

\* The call's result goes into the working context; on to the next call, or
\* back to the model.
FeedBack(c, code) ==
    /\ outcome' = [outcome EXCEPT ![c] = code]
    /\ answered' = c
    /\ IF c < asked
       THEN at' = c + 1 /\ loop' = "gate"
       ELSE loop' = "model" /\ UNCHANGED at

-----------------------------------------------------------------------------
Init ==
    /\ BrokerInit
    /\ loop = "begin"
    /\ iteration = 0
    /\ asked = 0
    /\ at = 0
    /\ answered = 0
    /\ tool = [c \in Calls |-> Unknown]
    /\ granted = [c \in Calls |-> "none"]
    /\ outcome = [c \in Calls |-> "none"]
    /\ trail = [c \in Calls |-> <<>>]
    /\ missing = {}
    /\ ran = [c \in Calls |-> 0]
    /\ policy \in [Tools -> Permissions]
    /\ reloads = 0

-----------------------------------------------------------------------------
(* The loop                                                                 *)

\* No tool the policy lets the model see: one completion, without tools.
BeginWithoutTools ==
    /\ loop = "begin"
    /\ \A x \in Tools : policy[x] = "deny"
    /\ loop' \in {"final", "failed"}
    /\ UNCHANGED <<brokerVars, iteration, asked, at, answered, tool, granted,
                   outcome, trail, missing, ran, policy, reloads>>

Begin ==
    /\ loop = "begin"
    /\ \E x \in Tools : policy[x] # "deny"
    /\ loop' = "model"
    /\ UNCHANGED <<brokerVars, iteration, asked, at, answered, tool, granted,
                   outcome, trail, missing, ran, policy, reloads>>

\* A message without tool calls is the answer; the LLM client may also raise.
ModelAnswers ==
    /\ loop = "model"
    /\ iteration' = iteration + 1
    /\ loop' \in {"final", "failed"}
    /\ UNCHANGED <<brokerVars, asked, at, answered, tool, granted, outcome,
                   trail, missing, ran, policy, reloads>>

\* Mutant: the limit is looked at only when the loop is entered again.
ModelCallsToolsLateLimit ==
    /\ loop = "model"
    /\ iteration' = iteration + 1
    /\ \E k \in 1 .. MaxBatch :
          /\ asked + k <= MaxCalls
          /\ asked' = asked + k
    /\ IF iteration = MaxIterations
       THEN loop' = "limit" /\ UNCHANGED at
       ELSE loop' = "gate" /\ at' = asked + 1
    /\ UNCHANGED <<brokerVars, answered, tool, granted, outcome, trail, missing, ran,
                   policy, reloads>>

\* A batch of calls; in the last iteration none of them is run.
ModelCallsTools ==
    /\ loop = "model"
    /\ iteration' = iteration + 1
    /\ \E k \in 1 .. MaxBatch :
          /\ asked + k <= MaxCalls
          /\ asked' = asked + k
    /\ IF iteration' = MaxIterations
       THEN loop' = "limit" /\ UNCHANGED at
       ELSE loop' = "gate" /\ at' = asked + 1
    /\ UNCHANGED <<brokerVars, answered, tool, granted, outcome, trail, missing, ran,
                   policy, reloads>>

-----------------------------------------------------------------------------
(* The gate                                                                 *)

\* Refused before the audit gate: requested is recorded best effort.
Refuse(c, x, permission, code) ==
    /\ tool' = [tool EXCEPT ![c] = x]
    /\ granted' = [granted EXCEPT ![c] = permission]
    /\ outcome' = [outcome EXCEPT ![c] = code]
    /\ Record(c, "requested")
    /\ loop' = "tell"
    /\ UNCHANGED <<brokerVars, iteration, asked, at, answered, ran, policy, reloads>>

RefuseUnknown == loop = "gate" /\ Refuse(at, Unknown, "none", "unknown_tool")

RefuseDenied ==
    /\ loop = "gate"
    /\ \E x \in Tools : policy[x] = "deny" /\ Refuse(at, x, "deny", "tool_denied")

RefuseInvalid ==
    /\ loop = "gate"
    /\ \E x \in Tools :
          policy[x] # "deny" /\ Refuse(at, x, policy[x], "invalid_arguments")

\* Mutant: the audit gate does not fail closed.
GateOpenWithoutAudit ==
    /\ loop = "gate"
    /\ \E x \in Tools :
          /\ policy[x] # "deny"
          /\ tool' = [tool EXCEPT ![at] = x]
          /\ granted' = [granted EXCEPT ![at] = policy[x]]
          /\ loop' = IF policy[x] = "ask" THEN "ask" ELSE "start"
    /\ RecordPre(at, "requested", FALSE)
    /\ UNCHANGED <<brokerVars, iteration, asked, at, answered, outcome, ran, policy, reloads>>

\* record_pre: without the requested event the call is not executed.
PassGate ==
    /\ loop = "gate"
    /\ \E x \in Tools :
          /\ policy[x] # "deny"
          /\ tool' = [tool EXCEPT ![at] = x]
          /\ granted' = [granted EXCEPT ![at] = policy[x]]
          /\ loop' = IF policy[x] = "ask" THEN "ask" ELSE "start"
    /\ RecordPre(at, "requested", TRUE)
    /\ UNCHANGED <<brokerVars, iteration, asked, at, answered, outcome, ran, policy, reloads>>

GateUnaudited ==
    /\ loop = "gate"
    /\ \E x \in Tools :
          /\ policy[x] # "deny"
          /\ tool' = [tool EXCEPT ![at] = x]
          /\ granted' = [granted EXCEPT ![at] = policy[x]]
    /\ RecordPre(at, "requested", FALSE)
    /\ FeedBack(at, "audit_unavailable")
    /\ UNCHANGED <<brokerVars, iteration, asked, ran, policy, reloads>>

AskHuman ==
    /\ loop = "ask"
    /\ Record(at, "approval_requested")
    /\ loop' = "approval"
    /\ UNCHANGED <<brokerVars, iteration, asked, at, answered, tool, granted,
                   outcome, ran, policy, reloads>>

\* request_approval runs in the loop's own task ...
ApprovalStep ==
    /\ loop = "approval"
    /\ Ask(at) \/ Proceed(at)
    /\ UNCHANGED gateVars

\* Mutant: everything that is not a denial goes on.
HeedExceptDenied ==
    /\ loop = "approval"
    /\ wait[at] = "done" /\ decision[at] # "denied"
    /\ RecordPre(at, "approval_approved", TRUE)
    /\ loop' = "start"
    /\ UNCHANGED <<brokerVars, iteration, asked, at, answered, tool, granted,
                   outcome, ran, policy, reloads>>

\* ... and its answer is part of the fail-closed gate.
HeedApproved ==
    /\ loop = "approval"
    /\ wait[at] = "done" /\ decision[at] = "approved"
    /\ RecordPre(at, "approval_approved", TRUE)
    /\ loop' = "start"
    /\ UNCHANGED <<brokerVars, iteration, asked, at, answered, tool, granted,
                   outcome, ran, policy, reloads>>

HeedUnaudited ==
    /\ loop = "approval"
    /\ wait[at] = "done" /\ decision[at] = "approved"
    /\ RecordPre(at, "approval_approved", FALSE)
    /\ FeedBack(at, "audit_unavailable")
    /\ UNCHANGED <<brokerVars, iteration, asked, tool, granted, ran, policy, reloads>>

HeedRefused ==
    /\ loop = "approval"
    /\ wait[at] = "done" /\ decision[at] # "approved"
    /\ outcome' = [outcome EXCEPT ![at] =
                     IF decision[at] = "denied" THEN "approval_denied" ELSE "approval_expired"]
    /\ loop' = "tell"
    /\ UNCHANGED <<brokerVars, iteration, asked, at, answered, tool, granted,
                   trail, missing, ran, policy, reloads>>

StartTool ==
    /\ loop = "start"
    /\ Record(at, "started")
    /\ ran' = [ran EXCEPT ![at] = @ + 1]
    /\ loop' = "run"
    /\ UNCHANGED <<brokerVars, iteration, asked, at, answered, tool, granted,
                   outcome, policy, reloads>>

\* Mutant: the timeout returns without its audit event.
ToolEndsUntold ==
    /\ loop = "run"
    /\ FeedBack(at, "tool_timeout")
    /\ UNCHANGED <<brokerVars, iteration, asked, tool, granted, trail, missing,
                   ran, policy, reloads>>

\* It returns, raises, or is cancelled by the timeout.
ToolEnds ==
    /\ loop = "run"
    /\ \E code \in {"ok", "tool_execution_failed", "tool_timeout"} :
          outcome' = [outcome EXCEPT ![at] = code]
    /\ loop' = "tell"
    /\ UNCHANGED <<brokerVars, iteration, asked, at, answered, tool, granted,
                   trail, missing, ran, policy, reloads>>

\* Mutant: a terminal event that cannot be written makes the call run again.
TellRetries ==
    /\ loop = "tell"
    /\ Record(at, EventOf[outcome[at]])
    /\ IF missing' = missing \/ ran[at] # 1
       THEN FeedBack(at, outcome[at])
       ELSE loop' = "start" /\ UNCHANGED <<outcome, answered, at>>
    /\ UNCHANGED <<brokerVars, iteration, asked, tool, granted, ran, policy, reloads>>

\* The terminal event, best effort; the result does not depend on it.
Tell ==
    /\ loop = "tell"
    /\ Record(at, EventOf[outcome[at]])
    /\ FeedBack(at, outcome[at])
    /\ UNCHANGED <<brokerVars, iteration, asked, tool, granted, ran, policy, reloads>>

-----------------------------------------------------------------------------
(* The environment                                                          *)

\* The event whose write the loop is waiting for.
Writing(event) ==
    \/ loop = "gate" /\ event = "requested"
    \/ loop = "ask" /\ event = "approval_requested"
    \/ loop = "approval" /\ wait[at] = "done" /\ decision[at] = "approved"
         /\ event = "approval_approved"
    \/ loop = "start" /\ event = "started"
    \/ loop = "tell" /\ event = EventOf[outcome[at]]

\* The turn's task is cancelled wherever it waits; so is its request_approval,
\* and a write under way may reach the table or not.
Stop ==
    /\ loop \notin Ended
    /\ loop' = "stopped"
    /\ IF loop = "approval" /\ wait[at] \notin Outside
       THEN Cancel(at)
       ELSE UNCHANGED brokerVars
    /\ IF \E event \in Events : Writing(event)
       THEN \E event \in Events : Writing(event) /\ Record(at, event)
       ELSE UNCHANGED <<trail, missing>>
    /\ UNCHANGED <<iteration, asked, at, answered, tool, granted, outcome, ran, policy,
                   reloads>>

\* FileBackedToolPolicy picks up an edit of the file on the next call.
ReloadPolicy ==
    /\ reloads + Cardinality(missing) < MaxUpsets
    /\ reloads' = reloads + 1
    /\ policy' \in [Tools -> Permissions]
    /\ UNCHANGED <<brokerVars, loop, iteration, asked, at, answered, tool,
                   granted, outcome, trail, missing, ran>>

Outsiders ==
    /\ Shutdown \/ \E r \in Requests : Outer(r)
    /\ UNCHANGED gateVars

LoopStep ==
    \/ BeginWithoutTools \/ Begin \/ ModelAnswers \/ ModelCallsTools
    \/ RefuseUnknown \/ RefuseDenied \/ RefuseInvalid \/ PassGate \/ GateUnaudited
    \/ AskHuman \/ ApprovalStep \/ HeedApproved \/ HeedUnaudited \/ HeedRefused
    \/ StartTool \/ ToolEnds \/ Tell

Next == LoopStep \/ Stop \/ ReloadPolicy \/ Outsiders

\* Time passes: the deadline of a request.
DeadlinePasses ==
    /\ \E r \in Requests : Lapse(r)
    /\ UNCHANGED gateVars

\* The event loop does not idle while the loop's task is ready or a deadline is
\* due; LLM calls, tools and the approval have timeouts.
Fairness == WF_vars(LoopStep \/ DeadlinePasses)

Spec     == Init /\ [][Next]_vars
FairSpec == Spec /\ Fairness

-----------------------------------------------------------------------------
(* Properties                                                               *)

\* Types of the loop's state.
TypeOK ==
    /\ BrokerTypeOK
    /\ loop \in {"begin", "model"} \cup Inside \cup Ended
    /\ iteration \in 0 .. MaxIterations
    /\ asked \in 0 .. MaxCalls
    /\ at \in 0 .. asked
    /\ answered \in 0 .. asked
    /\ tool \in [Calls -> Tools \cup {Unknown}]
    /\ granted \in [Calls -> Permissions \cup {"none"}]
    /\ outcome \in [Calls -> Outcomes]
    /\ trail \in [Calls -> Seq(Events)]
    /\ missing \subseteq Calls \X Events
    /\ ran \in [Calls -> Nat]
    /\ policy \in [Tools -> Permissions]
    /\ reloads \in Nat

\* A call is cleared when its request is in the audit table, the policy that
\* was in force let it run, and, for an "ask" tool, the bound user's approval
\* was the first click on its card and is in the audit table too.
Cleared(c) ==
    /\ Stored(c, "requested")
    /\ tool[c] \in Tools
    /\ granted[c] \in {"allow", "ask"}
    /\ granted[c] = "ask" =>
          /\ Consented(c)
          /\ Stored(c, "approval_approved")

\* The security gate (tool_loop.py:309-413): whatever fails, expires, is
\* clicked, stopped or reloaded, a tool only ever runs for a cleared call.
RunsOnlyCleared == \A c \in Calls : ran[c] > 0 => Cleared(c)

\* "must never cause a re-execution": a call runs at most once, and a call that
\* ran is reported as such whatever became of its audit events.
RunsOnce ==
    \A c \in Calls :
        /\ ran[c] <= 1
        /\ c <= answered =>
              (ran[c] = 1 <=> outcome[c] \in {"ok", "tool_execution_failed", "tool_timeout"})

\* The event sequences of one call, as tools/audit.py orders them.
Refusals == {<<"requested", "denied">>, <<"requested", "validation_failed">>}
Openings == {<<"requested">>,
             <<"requested", "approval_requested", "approval_approved">>}
FullTrails ==
    Refusals
      \cup {<<"requested", "approval_requested", e>> : e \in {"approval_denied", "approval_expired"}}
      \cup {o \o <<"started", e>> : o \in Openings, e \in {"completed", "failed", "timed_out"}}

\* What is left of them when events that need not be stored are missing: a tool
\* was requested, and approved if it had to be, before any other event can follow.
Maybe(events) == {<<>>} \cup {<<e>> : e \in events}

PartialOpenings ==
    {<<"requested">>}
      \cup {<<"requested">> \o a \o <<"approval_approved">> : a \in Maybe({"approval_requested"})}

PartialTrails ==
    {r \o d : r \in Maybe({"requested"}), d \in Maybe({"denied", "validation_failed"})}
      \cup {<<"requested">> \o a \o d :
               a \in Maybe({"approval_requested"}), d \in Maybe({"approval_denied", "approval_expired"})}
      \cup {o \o s \o e : o \in PartialOpenings, s \in Maybe({"started"}),
                           e \in Maybe({"completed", "failed", "timed_out"})}

LastEvents == {EventOf[o] : o \in DOMAIN EventOf}

\* The audit table can be read, whatever could not be written and wherever the
\* turn was stopped (tool_loop.py:332-453): the rows of a call are a legal history
\* of it in order, of which only events that gate nothing may be missing; the end
\* that it shows is the result the model is given; and once the model has the
\* result, the history is whole unless a write failed.
TrailLegal ==
    \A c \in Calls :
        /\ trail[c] \in PartialTrails
        /\ \A e \in LastEvents :
              Stored(c, e) => outcome[c] \in DOMAIN EventOf /\ e = EventOf[outcome[c]]
        /\ c <= answered /\ outcome[c] # "audit_unavailable" /\ NoneMissing(c) =>
              trail[c] \in FullTrails

\* The model is asked again only with a result for every call it made, and a
\* loop that ends without an answer has run nothing it could not feed back.
EveryCallAnswered ==
    /\ loop = "model" => answered = asked
    /\ loop = "limit" => \A c \in Calls : ran[c] > 0 => c <= answered

\* The loop ends: with an answer, an error, the limit, or because it is stopped.
LoopEnds == <>(loop \in Ended)

-----------------------------------------------------------------------------
\* tool_loop.py:435-436: "propagate so the caller can unwind, but record a
\* terminal event first on a best-effort basis": when the loop is stopped, the
\* table says how a call that ran has ended, unless a write failed.
StopRecorded ==
    \A c \in Calls :
        loop = "stopped" /\ ran[c] > 0 /\ NoneMissing(c) =>
            \E e \in LastEvents : Stored(c, e)
=============================================================================
