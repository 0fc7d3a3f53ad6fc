--------------------------- MODULE ToolGateProofs ---------------------------
(***************************************************************************)
(* Proofs about ApprovalBroker, for any requests, users and owners, and    *)
(* about ToolGate, which extends it: for any tools, policy, users, number  *)
(* of calls, iterations, reloads and audit writes that fail, a tool runs   *)
(* only for a cleared call, and once, and the audit table tells of it.     *)
(***************************************************************************)
EXTENDS ToolGate, SequenceTheorems, TLAPS

-----------------------------------------------------------------------------
(* The broker                                                               *)

\* An entry of _pending is unclicked and its future is open; a request that was
\* not asked yet has neither card nor click nor future.
PendingUnclicked ==
    /\ \A r \in pending : first[r] = Nobody /\ future[r] = "open" /\ wait[r] # "new"
    /\ \A r \in Requests :
          wait[r] = "new" => r \notin shown /\ first[r] = Nobody /\ future[r] = "none"

\* Approval only ever comes from consent, in the future and in the answer.
ApprovalIsConsent ==
    \A r \in Requests :
        (future[r] = "approved" => Consented(r)) /\ (decision[r] = "approved" => Consented(r))

\* Only a caller that has stopped waiting cancels its future.
CancelledIsLeft ==
    \A r \in Requests : future[r] = "cancelled" => wait[r] \notin {"new", "send", "wait"}

\* A call that is being presented or waits stays resolvable until it is settled.
OpenIsPending ==
    \A r \in Requests :
        wait[r] \in {"send", "wait"} /\ future[r] = "open" => r \in pending

\* What a future holds while its call is inside has a cause; so, then, has the
\* answer the call takes from it.
RefusedForCause(r) == r \in lapsed \/ ClickedByOther(r) \/ down

SettledForCause ==
    \A r \in Requests : wait[r] \in {"send", "wait"} =>
        /\ future[r] # "none"
        /\ future[r] \in Choices => Said(r, future[r])
        /\ future[r] = "expired" => RefusedForCause(r)

BrokerInv ==
    /\ BrokerTypeOK
    /\ PendingUnclicked
    /\ ApprovalIsConsent
    /\ CancelledIsLeft
    /\ OpenIsPending
    /\ ReturnedIsConsumed
    /\ SettledForCause
    /\ AnsweredForCause

-----------------------------------------------------------------------------
LEMMA InitBrokerInv == BrokerInit => BrokerInv
BY DEF BrokerInit, BrokerInv, BrokerTypeOK, PendingUnclicked, ApprovalIsConsent,
       CancelledIsLeft, OpenIsPending, ReturnedIsConsumed, SettledForCause,
       AnsweredForCause, Consented, Outside, Settled

\* The first click on a card is remembered for good.
LEMMA NoteClickType ==
    ASSUME BrokerTypeOK, NEW r \in Requests, NEW user \in Users, NEW choice \in Choices,
           NoteClick(r, user, choice)
    PROVE  /\ first' \in [Requests -> Clicks \cup {Nobody}]
           /\ \A q \in Requests : q # r => first'[q] = first[q]
           /\ first[r] # Nobody => first'[r] = first[r]
           /\ first[r] = Nobody =>
                 first'[r] = [user |-> user, choice |-> choice, late |-> r \in lapsed]
<1>1. [user |-> user, choice |-> choice, late |-> r \in lapsed] \in Clicks
  BY DEF Clicks
<1> QED
  BY <1>1 DEF NoteClick, BrokerTypeOK

\* What the first click said is never changed by a later one.
LEMMA SaidStable ==
    ASSUME BrokerTypeOK, NEW r \in Requests, NEW q \in Requests, NEW user \in Users,
           NEW choice \in Choices, NoteClick(r, user, choice), first[q] # Nobody
    PROVE  first'[q] = first[q]
BY NoteClickType

LEMMA SaidIsClick ==
    ASSUME NEW q \in Requests, NEW choice \in Choices, Said(q, choice)
    PROVE  first[q] # Nobody
<1>1. first[q] \in Clicks
  BY OwnerAssumption DEF Said, Clicks
<1> QED
  BY <1>1, OwnerAssumption

LEMMA ConsentStable ==
    ASSUME BrokerTypeOK, NEW r \in Requests, NEW q \in Requests, NEW user \in Users,
           NEW choice \in Choices, NoteClick(r, user, choice), Consented(q)
    PROVE  Consented(q)'
<1>1. first[q] # Nobody
  BY SaidIsClick DEF Consented, Choices
<1> QED
  BY <1>1, SaidStable DEF Consented, Said

\* The causes of an answer stay what they are, whoever clicks next.
LEMMA CausesStable ==
    ASSUME BrokerTypeOK, NEW r \in Requests, NEW q \in Requests, NEW user \in Users,
           NEW choice \in Choices, NoteClick(r, user, choice), UNCHANGED <<lapsed, down>>
    PROVE  /\ \A c \in Choices : Said(q, c) => Said(q, c)'
           /\ RefusedForCause(q) => RefusedForCause(q)'
<1>1. ASSUME NEW c \in Choices, Said(q, c) PROVE Said(q, c)'
  <2>1. first'[q] = first[q]
    BY <1>1, SaidIsClick, SaidStable
  <2> QED
    BY <1>1, <2>1 DEF Said
<1>2. ClickedByOther(q) => ClickedByOther(q)'
  BY SaidStable DEF ClickedByOther
<1> QED
  BY <1>1, <1>2 DEF RefusedForCause

\* A click leaves the answers that were already taken, and their causes.
LEMMA AnswersKeepCause ==
    ASSUME BrokerTypeOK, AnsweredForCause, NEW r \in Requests, NEW user \in Users,
           NEW choice \in Choices, NoteClick(r, user, choice),
           UNCHANGED <<wait, lapsed, decision, down>>
    PROVE  AnsweredForCause'
<1> SUFFICES ASSUME NEW q \in Requests, wait'[q] = "close"
             PROVE  \/ decision'[q] \in Choices /\ Said(q, decision[q])'
                    \/ decision'[q] = "expired" /\ RefusedForCause(q)'
  BY DEF AnsweredForCause, RefusedForCause
<1>1. \/ decision[q] \in Choices /\ Said(q, decision[q])
      \/ decision[q] = "expired" /\ RefusedForCause(q)
  BY DEF AnsweredForCause, RefusedForCause
<1>2. \A c \in Choices : Said(q, c) => Said(q, c)'
  BY CausesStable
<1>3. RefusedForCause(q) => RefusedForCause(q)'
  BY CausesStable
<1> QED
  BY <1>1, <1>2, <1>3 DEF Said

LEMMA ClickBrokerInv ==
    ASSUME BrokerInv, NEW r \in Requests, Click(r)
    PROVE  BrokerInv'
<1> PICK user \in Users, choice \in Choices :
           ValidClick(r, user, choice) \/ InvalidClick(r, user, choice)
  BY DEF Click
<1> USE DEF BrokerInv
<1>1. CASE ValidClick(r, user, choice)
  <2>1. /\ NoteClick(r, user, choice)
        /\ r \in pending /\ user = Owner[r] /\ r \notin lapsed /\ r \in shown
        /\ future' = [future EXCEPT ![r] = IF @ = "open" THEN choice ELSE @]
        /\ pending' = pending \ {r}
        /\ UNCHANGED <<wait, lapsed, shown, decision, down>>
    BY <1>1 DEF ValidClick, Valid, SetFuture
  <2>2. BrokerTypeOK'
    BY <2>1, NoteClickType DEF BrokerTypeOK, Settled, Choices
  <2>3. PendingUnclicked'
    <3>1. \A q \in Requests : q # r => first'[q] = first[q]
      BY <2>1, NoteClickType
    <3> QED
      BY <2>1, <3>1 DEF PendingUnclicked, BrokerTypeOK
  <2>4. Said(r, choice)'
    <3>1. first[r] = Nobody
      BY <2>1 DEF PendingUnclicked
    <3>2. first'[r] = [user |-> user, choice |-> choice, late |-> r \in lapsed]
      BY <2>1, <3>1, NoteClickType
    <3>3. (r \in lapsed) = FALSE
      BY <2>1
    <3> QED
      BY <2>1, <3>2, <3>3 DEF Said
  <2>5. ApprovalIsConsent'
    BY <2>1, <2>4, ConsentStable DEF ApprovalIsConsent, BrokerTypeOK, Consented
  <2>6. CancelledIsLeft' /\ OpenIsPending' /\ ReturnedIsConsumed'
    BY <2>1 DEF CancelledIsLeft, OpenIsPending, ReturnedIsConsumed, BrokerTypeOK, Choices
  <2>7. future'[r] = choice /\ \A q \in Requests : q # r => future'[q] = future[q]
    BY <2>1 DEF BrokerTypeOK, PendingUnclicked
  <2>8. SettledForCause'
    <3> SUFFICES ASSUME NEW q \in Requests, wait'[q] \in {"send", "wait"}
                 PROVE  /\ future'[q] # "none"
                        /\ future'[q] \in Choices => Said(q, future[q])'
                        /\ future'[q] = "expired" => RefusedForCause(q)'
      BY DEF SettledForCause
    <3>1. CASE q = r
      BY <3>1, <2>4, <2>7 DEF Choices, Said
    <3>2. CASE q # r
      <4>1. future'[q] = future[q] /\ wait'[q] = wait[q]
        BY <3>2, <2>1, <2>7
      <4>2. \A c \in Choices : Said(q, c) => Said(q, c)'
        BY <2>1, CausesStable
      <4>3. RefusedForCause(q) => RefusedForCause(q)'
        BY <2>1, CausesStable
      <4> QED
        BY <4>1, <4>2, <4>3 DEF SettledForCause, Said
    <3> QED
      BY <3>1, <3>2
  <2>9. AnsweredForCause'
    BY <2>1, AnswersKeepCause
  <2> QED
    BY <2>2, <2>3, <2>5, <2>6, <2>8, <2>9
<1>2. CASE InvalidClick(r, user, choice)
  <2>1. /\ NoteClick(r, user, choice)
        /\ r \in shown
        /\ \/ future' = [future EXCEPT ![r] = IF @ = "open" THEN "expired" ELSE @]
           \/ future' = future
        /\ pending' = pending \ {r}
        /\ UNCHANGED <<wait, lapsed, shown, decision, down>>
    BY <1>2 DEF InvalidClick, SetFuture
  <2>2. BrokerTypeOK'
    BY <2>1, NoteClickType DEF BrokerTypeOK, Settled
  <2>3. PendingUnclicked'
    <3>1. \A q \in Requests : q # r => first'[q] = first[q]
      BY <2>1, NoteClickType
    <3> QED
      BY <2>1, <3>1 DEF PendingUnclicked, BrokerTypeOK
  <2>4. ApprovalIsConsent'
    BY <2>1, ConsentStable DEF ApprovalIsConsent, BrokerTypeOK
  <2>5. CancelledIsLeft' /\ OpenIsPending' /\ ReturnedIsConsumed'
    <3>1. future'[r] # "open" \/ r \notin pending
      BY <1>2, <2>1 DEF InvalidClick, SetFuture, BrokerTypeOK
    <3> QED
      BY <2>1, <3>1 DEF CancelledIsLeft, OpenIsPending, ReturnedIsConsumed, BrokerTypeOK
  <2>6. \/ r \in pending /\ future'[r] = "expired" /\ RefusedForCause(r)'
        \/ future'[r] = future[r]
    <3>1. CASE r \in pending
      <4>1. first[r] = Nobody /\ future[r] = "open"
        BY <3>1 DEF PendingUnclicked
      <4>2. user # Owner[r] \/ r \in lapsed
        BY <1>2, <3>1 DEF InvalidClick, Valid
      <4>3. first'[r] = [user |-> user, choice |-> choice, late |-> r \in lapsed]
        BY <2>1, <4>1, NoteClickType
      <4>4. first'[r] # Nobody
        <5>1. first'[r] \in Clicks
          BY <4>3 DEF Clicks
        <5> QED
          BY <5>1, OwnerAssumption
      <4>5. RefusedForCause(r)'
        BY <2>1, <4>2, <4>3, <4>4 DEF RefusedForCause, ClickedByOther
      <4>6. future'[r] = "expired"
        BY <1>2, <3>1, <4>1 DEF InvalidClick, SetFuture, BrokerTypeOK
      <4> QED
        BY <3>1, <4>5, <4>6
    <3>2. CASE r \notin pending
      BY <1>2, <3>2 DEF InvalidClick
    <3> QED
      BY <3>1, <3>2
  <2>7. \A q \in Requests : q # r => future'[q] = future[q]
    BY <2>1 DEF BrokerTypeOK
  <2>8. SettledForCause'
    <3> SUFFICES ASSUME NEW q \in Requests, wait'[q] \in {"send", "wait"}
                 PROVE  /\ future'[q] # "none"
                        /\ future'[q] \in Choices => Said(q, future[q])'
                        /\ future'[q] = "expired" => RefusedForCause(q)'
      BY DEF SettledForCause
    <3>1. CASE q = r /\ future'[q] = "expired" /\ RefusedForCause(q)'
      BY <3>1 DEF Choices
    <3>2. CASE future'[q] = future[q]
      <4>1. wait'[q] = wait[q]
        BY <2>1
      <4>2. \A c \in Choices : Said(q, c) => Said(q, c)'
        BY <2>1, CausesStable
      <4>3. RefusedForCause(q) => RefusedForCause(q)'
        BY <2>1, CausesStable
      <4> QED
        BY <3>2, <4>1, <4>2, <4>3 DEF SettledForCause, Said
    <3> QED
      BY <3>1, <3>2, <2>6, <2>7
  <2>9. AnsweredForCause'
    BY <2>1, AnswersKeepCause
  <2> QED
    BY <2>2, <2>3, <2>4, <2>5, <2>8, <2>9
<1> QED
  BY <1>1, <1>2

\* Without a click, no future becomes approved and no answer is invented.
LEMMA QuietBrokerInv ==
    ASSUME BrokerInv, NEW r \in Requests,
           Ask(r) \/ Proceed(r) \/ Deliver(r) \/ Lapse(r) \/ Cancel(r)
    PROVE  BrokerInv'
<1> USE DEF BrokerInv, BrokerTypeOK, PendingUnclicked, ApprovalIsConsent,
        CancelledIsLeft, OpenIsPending, ReturnedIsConsumed, SettledForCause,
        AnsweredForCause, RefusedForCause, ClickedByOther, Said, Consented, Choices,
        Outside, Settled, Move, Return, SetFuture
<1>1. CASE RefuseToAsk(r)
  BY <1>1 DEF RefuseToAsk
<1>2. CASE Register(r)
  BY <1>2 DEF Register
<1>3. CASE SendReturns(r)
  BY <1>3 DEF SendReturns
<1>4. CASE SendFails(r)
  BY <1>4 DEF SendFails
<1>5. CASE WakeUp(r)
  BY <1>5 DEF WakeUp
<1>6. CASE TimeOut(r)
  BY <1>6 DEF TimeOut
<1>7. CASE CloseCard(r)
  BY <1>7 DEF CloseCard
<1>8. CASE Deliver(r)
  BY <1>8 DEF Deliver
<1>9. CASE Lapse(r)
  BY <1>9 DEF Lapse
<1>10. CASE Cancel(r)
  BY <1>10 DEF Cancel
<1> QED
  BY <1>1, <1>2, <1>3, <1>4, <1>5, <1>6, <1>7, <1>8, <1>9, <1>10 DEF Ask, Proceed

LEMMA NextBrokerInv == BrokerInv /\ [BrokerNext]_brokerVars => BrokerInv'
<1> SUFFICES ASSUME BrokerInv, [BrokerNext]_brokerVars PROVE BrokerInv'
  OBVIOUS
<1>1. CASE Shutdown
  BY <1>1 DEF Shutdown, BrokerInv, BrokerTypeOK, PendingUnclicked,
              ApprovalIsConsent, CancelledIsLeft, OpenIsPending, ReturnedIsConsumed,
              SettledForCause, AnsweredForCause, RefusedForCause, ClickedByOther,
              Said, Consented, Choices, Settled
<1>2. CASE UNCHANGED brokerVars
  BY <1>2 DEF brokerVars, BrokerInv, BrokerTypeOK, PendingUnclicked,
              ApprovalIsConsent, CancelledIsLeft, OpenIsPending, ReturnedIsConsumed,
              SettledForCause, AnsweredForCause, RefusedForCause, ClickedByOther,
              Said, Consented
<1> QED
  BY <1>1, <1>2, QuietBrokerInv, ClickBrokerInv DEF BrokerNext, Outer

\* An approval means that the first click on the card was the bound user's,
\* before the deadline: no later, foreign or repeated click ever approves.
THEOREM OwnerApproved == BrokerSpec => []ApprovedByOwner
<1>1. BrokerInv => ApprovedByOwner
  BY DEF BrokerInv, ApprovalIsConsent, ApprovedByOwner
<1> QED
  BY <1>1, InitBrokerInv, NextBrokerInv, PTL DEF BrokerSpec

\* A caller that waits for an open future can always still be woken by a click
\* or a shutdown: nothing takes its entry out of _pending without settling it.
THEOREM Reachable == BrokerSpec => []WaiterReachable
<1>1. BrokerInv => WaiterReachable
  BY DEF BrokerInv, OpenIsPending, WaiterReachable
<1> QED
  BY <1>1, InitBrokerInv, NextBrokerInv, PTL DEF BrokerSpec

\* A request whose call has returned, or is closing its card, is not in _pending.
THEOREM NothingLeftOver == BrokerSpec => []ReturnedIsConsumed
BY InitBrokerInv, NextBrokerInv, PTL DEF BrokerSpec, BrokerInv

\* What a call takes from its wait was said by its owner, or has a reason of its
\* own: its time is over, a stranger clicked on its card, or the broker is down.
THEOREM CauseOfAnswers == BrokerSpec => []AnsweredForCause
BY InitBrokerInv, NextBrokerInv, PTL DEF BrokerSpec, BrokerInv

-----------------------------------------------------------------------------
(* The gate                                                                 *)

Refused == {"unknown_tool", "tool_denied", "invalid_arguments",
            "approval_denied", "approval_expired"}
Executed == {"ok", "tool_execution_failed", "tool_timeout"}

\* The call in the gate is the first one without a result.
AtNext ==
    /\ loop \in Inside => at = answered + 1
    /\ loop \in Inside \cup {"model"} => iteration < MaxIterations
    /\ loop = "model" => at = answered /\ answered = asked
    /\ loop = "begin" => at = 0 /\ asked = 0 /\ answered = 0 /\ iteration = 0
    /\ loop = "tell" => outcome[at] \in Refused \cup Executed

\* What the gate has established about the call it is working on.
Progress ==
    /\ loop \in {"ask", "approval"} =>
          /\ Stored(at, "requested")
          /\ tool[at] \in Tools
          /\ granted[at] = "ask"
    /\ loop \in {"start", "run"} => Cleared(at)

\* A call that has not reached the tool, or lies ahead, has not run.
NotYetRun ==
    /\ \A c \in Calls : ran[c] > 0 => c <= at
    /\ loop \in {"gate", "ask", "approval", "start"} => ran[at] = 0
    /\ loop = "run" => ran[at] = 1
    /\ loop = "tell" => (ran[at] = 1 <=> outcome[at] \in Executed)

TypeInv == TypeOK /\ BrokerInv /\ AtNext
GateInv == TypeInv /\ Progress /\ NotYetRun /\ RunsOnlyCleared /\ RunsOnce

-----------------------------------------------------------------------------
\* Every step of the loop and of its environment is a step of the broker, or
\* leaves it alone.
LEMMA BrokerSteps == TypeOK /\ AtNext /\ [Next]_vars => [BrokerNext]_brokerVars
<1> SUFFICES ASSUME TypeOK, AtNext, Next, ~UNCHANGED brokerVars PROVE BrokerNext
  BY DEF vars
<1>1. CASE LoopStep
  <2>1. ApprovalStep
    BY <1>1 DEF LoopStep, BeginWithoutTools, Begin, ModelAnswers, ModelCallsTools,
                RefuseUnknown, RefuseDenied, RefuseInvalid, Refuse, PassGate,
                GateUnaudited, AskHuman, HeedApproved, HeedUnaudited, HeedRefused,
                StartTool, ToolEnds, Tell
  <2>2. at \in Requests
    BY <2>1, GateAssumption DEF ApprovalStep, AtNext, TypeOK, Inside, Calls
  <2> QED
    BY <2>1, <2>2 DEF ApprovalStep, BrokerNext
<1>2. CASE Stop
  <2>1. loop = "approval" /\ Cancel(at)
    BY <1>2 DEF Stop
  <2>2. at \in Requests
    BY <2>1, GateAssumption DEF AtNext, TypeOK, Inside, Calls
  <2> QED
    BY <2>1, <2>2 DEF BrokerNext
<1>3. CASE ReloadPolicy
  BY <1>3 DEF ReloadPolicy
<1>4. CASE Outsiders
  BY <1>4 DEF Outsiders, BrokerNext
<1> QED
  BY <1>1, <1>2, <1>3, <1>4 DEF Next

-----------------------------------------------------------------------------
(* Type correctness                                                         *)

LEMMA InitTypeInv == Init => TypeInv
<1> SUFFICES ASSUME Init PROVE TypeInv
  OBVIOUS
<1>1. BrokerInv
  BY InitBrokerInv DEF Init
<1>2. trail \in [Calls -> Seq(Events)]
  <2>1. <<>> \in Seq(Events)
    BY EmptySeq
  <2> QED
    BY <2>1 DEF Init
<1>3. TypeOK
  BY <1>1, <1>2, GateAssumption DEF Init, TypeOK, BrokerInv, Outcomes
<1>4. AtNext
  BY GateAssumption DEF Init, AtNext, Inside
<1> QED
  BY <1>1, <1>3, <1>4 DEF TypeInv

\* What a write does to the table: a row behind the others of its call, or a row
\* that is missing.
LEMMA RecordType ==
    ASSUME TypeOK, NEW c \in Calls, NEW event \in Events, Record(c, event)
    PROVE  /\ trail' \in [Calls -> Seq(Events)]
           /\ missing' \subseteq Calls \X Events
           /\ \A d \in Calls : d # c => trail'[d] = trail[d]
           /\ missing \subseteq missing'
           /\ \/ trail'[c] = Append(trail[c], event)
              \/ trail'[c] = trail[c] /\ <<c, event>> \in missing'
<1>1. CASE AddRow(c, event)
  BY <1>1 DEF AddRow, TypeOK
<1>2. CASE LoseRow(c, event)
  BY <1>2 DEF LoseRow, TypeOK
<1> QED
  BY <1>1, <1>2 DEF Record

\* A write that the gate waits for is a write.
LEMMA RecordPreIsRecord ==
    ASSUME NEW c, NEW event, NEW ok, RecordPre(c, event, ok)
    PROVE  Record(c, event)
BY DEF RecordPre, Record

\* Rows are only ever added: what is stored stays stored.
LEMMA RecordStored ==
    ASSUME TypeOK, NEW c \in Calls, NEW event \in Events, Record(c, event), NEW d \in Calls
    PROVE  /\ \A e \in Events : Stored(d, e) => Stored(d, e)'
           /\ \A e \in Events : Stored(d, e)' => Stored(d, e) \/ (d = c /\ e = event)
           /\ AddRow(c, event) => Stored(c, event)'
<1>1. trail[d] \in Seq(Events) /\ trail[c] \in Seq(Events)
  BY DEF TypeOK
<1>2. AddRow(c, event) => Stored(c, event)'
  <2> SUFFICES ASSUME AddRow(c, event) PROVE Stored(c, event)'
    OBVIOUS
  <2> DEFINE new == Append(trail[c], event)
             n   == Len(trail[c])
  <2>1. trail'[c] = new
    BY DEF AddRow, TypeOK
  <2>2. new \in Seq(Events) /\ Len(new) = n + 1 /\ n \in Nat /\ new[n + 1] = event
    BY <1>1, AppendProperties, LenProperties
  <2>3. n + 1 \in DOMAIN new
    BY <2>2, LenProperties
  <2> HIDE DEF new, n
  <2> QED
    BY <2>1, <2>2, <2>3 DEF Stored
<1>3. CASE trail'[d] = trail[d]
  BY <1>1, <1>2, <1>3 DEF Stored
<1>4. CASE d = c /\ trail'[c] = Append(trail[c], event)
  <2> DEFINE new == Append(trail[c], event)
             n   == Len(trail[c])
  <2>1. /\ new \in Seq(Events) /\ Len(new) = n + 1 /\ n \in Nat
        /\ \A i \in 1 .. n : new[i] = trail[c][i]
        /\ new[n + 1] = event
    BY <1>1, AppendProperties, LenProperties
  <2>2. DOMAIN new = 1 .. n + 1 /\ DOMAIN trail[c] = 1 .. n
    BY <1>1, <2>1, LenProperties
  <2>3. trail'[d] = new
    BY <1>4
  <2> HIDE DEF new, n
  <2>4. \A e \in Events : Stored(d, e)' <=> \E i \in 1 .. n + 1 : new[i] = e
    BY <2>2, <2>3 DEF Stored
  <2>5. \A e \in Events : Stored(d, e) <=> \E i \in 1 .. n : trail[c][i] = e
    BY <1>4, <2>2 DEF Stored
  <2>6. \A i \in 1 .. n + 1 : i \in 1 .. n \/ i = n + 1
    BY <2>1
  <2> QED
    BY <1>2, <1>4, <2>1, <2>4, <2>5, <2>6
<1> QED
  BY <1>2, <1>3, <1>4, RecordType

\* The state the loop counts with: everything of TypeOK and AtNext that a call's
\* result changes.
FedBack ==
    /\ outcome' \in [Calls -> Outcomes]
    /\ answered' \in 0 .. asked
    /\ at' \in 0 .. asked
    /\ loop' \in {"gate", "model"}
    /\ loop' = "gate" => at' = answered' + 1
    /\ loop' = "model" => at' = answered' /\ answered' = asked

LEMMA InGate == TypeInv /\ loop \in Inside => at \in Calls /\ at = answered + 1
BY GateAssumption DEF TypeInv, TypeOK, AtNext, Calls

LEMMA FeedBackType ==
    ASSUME TypeInv, loop \in Inside, NEW code \in Outcomes, FeedBack(at, code)
    PROVE  FedBack
<1>1. at \in Calls
  BY InGate
<1>2. outcome' \in [Calls -> Outcomes]
  BY <1>1 DEF TypeInv, TypeOK, FeedBack
<1>3. at \in Nat /\ asked \in Nat /\ at <= asked
  BY GateAssumption DEF TypeInv, TypeOK
<1>4. CASE at < asked
  BY <1>2, <1>3, <1>4 DEF FeedBack, FedBack
<1>5. CASE ~(at < asked)
  BY <1>2, <1>3, <1>5 DEF FeedBack, FedBack
<1> QED
  BY <1>4, <1>5

\* The loop's own steps, outside the gate.
LEMMA LoopTypeOK ==
    TypeInv /\ BrokerTypeOK' /\ (BeginWithoutTools \/ Begin \/ ModelAnswers \/ ModelCallsTools)
      => TypeOK' /\ AtNext'
<1> SUFFICES ASSUME TypeInv, BrokerTypeOK',
                    BeginWithoutTools \/ Begin \/ ModelAnswers \/ ModelCallsTools
             PROVE  TypeOK' /\ AtNext'
  OBVIOUS
<1> USE GateAssumption DEF TypeInv, TypeOK, AtNext, Inside, Ended
<1>1. CASE BeginWithoutTools
  BY <1>1 DEF BeginWithoutTools
<1>2. CASE Begin
  BY <1>2 DEF Begin
<1>3. CASE ModelAnswers
  BY <1>3 DEF ModelAnswers
<1>4. CASE ModelCallsTools
  <2>1. PICK k \in 1 .. MaxBatch : asked + k <= MaxCalls /\ asked' = asked + k
    BY <1>4 DEF ModelCallsTools
  <2>2. k \in Nat /\ k >= 1 /\ asked \in Nat
    BY <2>1
  <2> QED
    BY <1>4, <2>1, <2>2 DEF ModelCallsTools
<1> QED
  BY <1>1, <1>2, <1>3, <1>4

\* What the gate resolves for a registered tool the policy lets run.
LEMMA Resolved ==
    ASSUME TypeOK, NEW x \in Tools
    PROVE  /\ policy[x] \in Permissions
           /\ tool' = [tool EXCEPT ![at] = x] => tool' \in [Calls -> Tools \cup {Unknown}]
           /\ granted' = [granted EXCEPT ![at] = policy[x]] =>
                 granted' \in [Calls -> Permissions \cup {"none"}]
BY DEF TypeOK

LEMMA RefuseTypeOK ==
    TypeInv /\ BrokerTypeOK' /\ (RefuseUnknown \/ RefuseDenied \/ RefuseInvalid)
      => TypeOK' /\ AtNext'
<1> SUFFICES ASSUME TypeInv, BrokerTypeOK', RefuseUnknown \/ RefuseDenied \/ RefuseInvalid
             PROVE  TypeOK' /\ AtNext'
  OBVIOUS
<1>1. PICK x \in Tools \cup {Unknown}, permission \in Permissions \cup {"none"},
           code \in {"unknown_tool", "tool_denied", "invalid_arguments"} :
         loop = "gate" /\ Refuse(at, x, permission, code)
  <2>1. CASE RefuseUnknown
    BY <2>1 DEF RefuseUnknown
  <2>2. CASE RefuseDenied
    BY <2>2 DEF RefuseDenied, Permissions
  <2>3. CASE RefuseInvalid
    BY <2>3 DEF RefuseInvalid, TypeInv, TypeOK
  <2> QED
    BY <2>1, <2>2, <2>3
<1>2. at \in Calls
  BY <1>1, InGate DEF Inside
<1>3. "requested" \in Events
  BY DEF Events
<1>4. trail' \in [Calls -> Seq(Events)] /\ missing' \subseteq Calls \X Events
  BY <1>1, <1>2, <1>3, RecordType DEF Refuse, TypeInv
<1>5. code \in Outcomes /\ code \in Refused
  BY DEF Outcomes, EventOf, Refused
<1>6. /\ tool' \in [Calls -> Tools \cup {Unknown}]
      /\ granted' \in [Calls -> Permissions \cup {"none"}]
      /\ outcome' \in [Calls -> Outcomes] /\ outcome'[at] \in Refused
  BY <1>1, <1>2, <1>5 DEF Refuse, TypeInv, TypeOK
<1>7. TypeOK'
  BY <1>1, <1>4, <1>6 DEF Refuse, TypeInv, TypeOK, Inside
<1>8. AtNext'
  BY <1>1, <1>6 DEF Refuse, TypeInv, AtNext, Inside
<1> QED
  BY <1>7, <1>8

LEMMA AuditTypeOK ==
    TypeInv /\ BrokerTypeOK' /\ (PassGate \/ GateUnaudited \/ HeedApproved \/ HeedUnaudited)
      => TypeOK' /\ AtNext'
<1> SUFFICES ASSUME TypeInv, BrokerTypeOK',
                    PassGate \/ GateUnaudited \/ HeedApproved \/ HeedUnaudited
             PROVE  TypeOK' /\ AtNext'
  OBVIOUS
<1>1. at \in Calls /\ loop \in Inside
  BY InGate DEF PassGate, GateUnaudited, HeedApproved, HeedUnaudited, Inside
<1>2. PICK event \in Events : Record(at, event)
  <2>1. "requested" \in Events /\ "approval_approved" \in Events
    BY DEF Events
  <2> QED
    BY <2>1, RecordPreIsRecord DEF PassGate, GateUnaudited, HeedApproved, HeedUnaudited
<1>3. trail' \in [Calls -> Seq(Events)] /\ missing' \subseteq Calls \X Events
  BY <1>1, <1>2, RecordType DEF TypeInv
<1>4. /\ tool' \in [Calls -> Tools \cup {Unknown}]
      /\ granted' \in [Calls -> Permissions \cup {"none"}]
  BY Resolved DEF PassGate, GateUnaudited, HeedApproved, HeedUnaudited, TypeInv, TypeOK
<1>5. CASE PassGate
  <2>1. loop' \in {"ask", "start"}
    BY <1>5 DEF PassGate
  <2>2. TypeOK'
    BY <1>3, <1>4, <1>5, <2>1 DEF PassGate, TypeInv, TypeOK, Inside
  <2>3. AtNext'
    BY <1>1, <1>5, <2>1 DEF PassGate, TypeInv, AtNext, Inside
  <2> QED
    BY <2>2, <2>3
<1>6. CASE HeedApproved
  <2>1. TypeOK'
    BY <1>3, <1>4, <1>6 DEF HeedApproved, TypeInv, TypeOK, Inside
  <2>2. AtNext'
    BY <1>1, <1>6 DEF HeedApproved, TypeInv, AtNext, Inside
  <2> QED
    BY <2>1, <2>2
<1>7. CASE GateUnaudited \/ HeedUnaudited
  <2>1. FeedBack(at, "audit_unavailable")
    BY <1>7 DEF GateUnaudited, HeedUnaudited
  <2>2. FedBack
    BY <1>1, <2>1, FeedBackType DEF Outcomes
  <2>3. UNCHANGED <<iteration, asked, ran, policy, reloads>>
    BY <1>7 DEF GateUnaudited, HeedUnaudited
  <2>4. TypeOK'
    BY <1>3, <1>4, <2>2, <2>3 DEF FedBack, TypeInv, TypeOK, Inside
  <2>5. AtNext'
    BY <1>1, <2>2, <2>3 DEF FedBack, TypeInv, AtNext, Inside
  <2> QED
    BY <2>4, <2>5
<1> QED
  BY <1>5, <1>6, <1>7

LEMMA ToolTypeOK ==
    TypeInv /\ BrokerTypeOK' /\ (AskHuman \/ HeedRefused \/ StartTool \/ ToolEnds \/ Tell)
      => TypeOK' /\ AtNext'
<1> SUFFICES ASSUME TypeInv, BrokerTypeOK',
                    AskHuman \/ HeedRefused \/ StartTool \/ ToolEnds \/ Tell
             PROVE  TypeOK' /\ AtNext'
  OBVIOUS
<1>1. at \in Calls /\ loop \in Inside
  BY InGate DEF AskHuman, HeedRefused, StartTool, ToolEnds, Tell, Inside
<1>2. CASE AskHuman \/ StartTool
  <2>1. "approval_requested" \in Events /\ "started" \in Events
    BY DEF Events
  <2>2. trail' \in [Calls -> Seq(Events)] /\ missing' \subseteq Calls \X Events
    BY <1>1, <1>2, <2>1, RecordType DEF AskHuman, StartTool, TypeInv
  <2>3. ran' \in [Calls -> Nat]
    BY <1>1, <1>2 DEF AskHuman, StartTool, TypeInv, TypeOK
  <2>4. TypeOK'
    BY <1>2, <2>2, <2>3 DEF AskHuman, StartTool, TypeInv, TypeOK, Inside
  <2>5. AtNext'
    BY <1>1, <1>2 DEF AskHuman, StartTool, TypeInv, AtNext, Inside
  <2> QED
    BY <2>4, <2>5
<1>3. CASE HeedRefused \/ ToolEnds
  <2>1. PICK code \in Refused \cup Executed : outcome' = [outcome EXCEPT ![at] = code]
    BY <1>3 DEF HeedRefused, ToolEnds, Refused, Executed
  <2>2. code \in Outcomes
    BY DEF Refused, Executed, Outcomes, EventOf
  <2>3. outcome' \in [Calls -> Outcomes] /\ outcome'[at] \in Refused \cup Executed
    BY <1>1, <2>1, <2>2 DEF TypeInv, TypeOK
  <2>4. TypeOK'
    BY <1>3, <2>3 DEF HeedRefused, ToolEnds, TypeInv, TypeOK, Inside
  <2>5. AtNext'
    BY <1>1, <1>3, <2>3 DEF HeedRefused, ToolEnds, TypeInv, AtNext, Inside
  <2> QED
    BY <2>4, <2>5
<1>4. CASE Tell
  <2>1. outcome[at] \in DOMAIN EventOf
    BY <1>4 DEF Tell, TypeInv, AtNext, Refused, Executed, EventOf
  <2>2. EventOf[outcome[at]] \in Events /\ outcome[at] \in Outcomes
    BY <2>1 DEF Events, Outcomes
  <2>3. trail' \in [Calls -> Seq(Events)] /\ missing' \subseteq Calls \X Events
    BY <1>1, <1>4, <2>2, RecordType DEF Tell, TypeInv
  <2>4. FedBack
    BY <1>1, <1>4, <2>2, FeedBackType DEF Tell
  <2>5. TypeOK'
    BY <1>4, <2>3, <2>4 DEF Tell, FedBack, TypeInv, TypeOK, Inside
  <2>6. AtNext'
    BY <1>1, <1>4, <2>4 DEF Tell, FedBack, TypeInv, AtNext, Inside
  <2> QED
    BY <2>5, <2>6
<1> QED
  BY <1>2, <1>3, <1>4

LEMMA OutsideTypeOK ==
    TypeInv /\ BrokerTypeOK' /\ (ApprovalStep \/ Stop \/ ReloadPolicy \/ Outsiders \/ UNCHANGED vars)
      => TypeOK' /\ AtNext'
<1> SUFFICES ASSUME TypeInv, BrokerTypeOK',
                    ApprovalStep \/ Stop \/ ReloadPolicy \/ Outsiders \/ UNCHANGED vars
             PROVE  TypeOK' /\ AtNext'
  OBVIOUS
<1>1. CASE UNCHANGED gateVars
  BY <1>1 DEF gateVars, TypeInv, TypeOK, AtNext
<1>2. CASE Stop
  <2>1. trail' \in [Calls -> Seq(Events)] /\ missing' \subseteq Calls \X Events
    <3>1. CASE UNCHANGED <<trail, missing>>
      BY <3>1 DEF TypeInv, TypeOK
    <3>2. CASE \E event \in Events : Writing(event) /\ Record(at, event)
      <4>1. at \in Calls
        BY <3>2, InGate DEF Writing, Inside
      <4> QED
        BY <3>2, <4>1, RecordType DEF TypeInv
    <3> QED
      BY <1>2, <3>1, <3>2 DEF Stop
  <2> QED
    BY <1>2, <2>1 DEF Stop, TypeInv, TypeOK, AtNext, Inside, Ended
<1>3. CASE ReloadPolicy
  BY <1>3, GateAssumption DEF ReloadPolicy, TypeInv, TypeOK, AtNext
<1> QED
  BY <1>1, <1>2, <1>3 DEF ApprovalStep, Outsiders, vars

LEMMA NextTypeInv == TypeInv /\ [Next]_vars => TypeInv'
<1> SUFFICES ASSUME TypeInv, [Next]_vars PROVE TypeInv'
  OBVIOUS
<1>1. BrokerInv'
  BY BrokerSteps, NextBrokerInv DEF TypeInv
<1>2. BrokerTypeOK'
  BY <1>1 DEF BrokerInv
<1>3. TypeOK' /\ AtNext'
  BY <1>2, LoopTypeOK, RefuseTypeOK, AuditTypeOK, ToolTypeOK, OutsideTypeOK
     DEF Next, LoopStep
<1> QED
  BY <1>1, <1>3 DEF TypeInv

LEMMA TypeInvariant == Spec => []TypeInv
BY InitTypeInv, NextTypeInv, PTL DEF Spec

\* The loop's and the broker's state keep their types, and the loop works on
\* the calls in order, one at a time.
THEOREM GateTypeCorrect == Spec => []TypeOK
<1>1. TypeInv => TypeOK
  BY DEF TypeInv
<1> QED
  BY <1>1, TypeInvariant, PTL

\* The gate uses the broker as its clients must: seen through the broker's
\* variables, every run of the loop is a run of ApprovalBroker, so everything
\* proved of the broker holds of the approvals the gate relies on.
THEOREM GateUsesBroker == Spec => BrokerSpec
<1>1. Init => BrokerInit
  BY DEF Init
<1>2. TypeInv /\ [Next]_vars => [BrokerNext]_brokerVars
  BY BrokerSteps DEF TypeInv
<1> QED
  BY <1>1, <1>2, TypeInvariant, PTL DEF Spec, BrokerSpec

-----------------------------------------------------------------------------
(* What is cleared stays cleared                                            *)

LEMMA ConsentKept ==
    ASSUME TypeInv, [Next]_vars, NEW c \in Calls, Consented(c)
    PROVE  Consented(c)'
<1>1. BrokerTypeOK /\ [BrokerNext]_brokerVars /\ c \in Requests
  BY BrokerSteps, GateAssumption DEF TypeInv, TypeOK
<1>2. CASE first' = first
  BY <1>2 DEF Consented, Said
<1>3. CASE first' # first
  <2>1. PICK r \in Requests, user \in Users, choice \in Choices : NoteClick(r, user, choice)
    BY <1>1, <1>3 DEF BrokerNext, brokerVars, Ask, Proceed, Outer, Click, ValidClick,
          InvalidClick, RefuseToAsk, Register, Deliver, SendReturns, SendFails, Lapse,
          WakeUp, TimeOut, CloseCard, Cancel, Shutdown
  <2> QED
    BY <1>1, <2>1, ConsentStable
<1> QED
  BY <1>2, <1>3

\* No step but the call's own way through the gate touches what cleared it.
LEMMA Untouched ==
    ASSUME TypeInv, [Next]_vars, NEW c \in Calls, loop = "gate" => c # at
    PROVE  tool'[c] = tool[c] /\ granted'[c] = granted[c]
<1>1. CASE PassGate \/ GateUnaudited
  BY <1>1 DEF PassGate, GateUnaudited, TypeInv, TypeOK
<1>2. CASE RefuseUnknown \/ RefuseDenied \/ RefuseInvalid
  BY <1>2 DEF RefuseUnknown, RefuseDenied, RefuseInvalid, Refuse, TypeInv, TypeOK
<1>3. CASE UNCHANGED <<tool, granted>>
  BY <1>3
<1> QED
  BY <1>1, <1>2, <1>3
     DEF Next, LoopStep, BeginWithoutTools, Begin, ModelAnswers, ModelCallsTools, AskHuman,
         ApprovalStep, HeedApproved, HeedUnaudited, HeedRefused, StartTool, ToolEnds, Tell,
         Stop, ReloadPolicy, Outsiders, vars, gateVars

\* A step writes at most one event, of the call in the gate.
LEMMA Writes ==
    ASSUME TypeInv, [Next]_vars
    PROVE  \/ UNCHANGED <<trail, missing>>
           \/ /\ loop \in Inside /\ at \in Calls
              /\ \E event \in Events : Writing(event) /\ Record(at, event)
<1> TypeOK /\ AtNext
  BY DEF TypeInv
<1>e. {"requested", "approval_requested", "approval_approved", "started"} \subseteq Events
  BY DEF Events
<1>1. CASE RefuseUnknown \/ RefuseDenied \/ RefuseInvalid
  BY <1>1, <1>e, InGate
     DEF RefuseUnknown, RefuseDenied, RefuseInvalid, Refuse, Writing, Inside
<1>2. CASE PassGate \/ GateUnaudited
  BY <1>2, <1>e, InGate, RecordPreIsRecord DEF PassGate, GateUnaudited, Writing, Inside
<1>3. CASE HeedApproved \/ HeedUnaudited
  BY <1>3, <1>e, InGate, RecordPreIsRecord DEF HeedApproved, HeedUnaudited, Writing, Inside
<1>4. CASE AskHuman \/ StartTool
  BY <1>4, <1>e, InGate DEF AskHuman, StartTool, Writing, Inside
<1>5. CASE Tell
  <2>1. outcome[at] \in DOMAIN EventOf
    BY <1>5 DEF Tell, AtNext, Refused, Executed, EventOf
  <2>2. EventOf[outcome[at]] \in Events
    BY <2>1 DEF Events
  <2> QED
    BY <1>5, <2>2, InGate DEF Tell, Writing, Inside
<1>6. CASE Stop
  BY <1>6, InGate DEF Stop, Writing, Inside
<1>7. CASE UNCHANGED <<trail, missing>>
  BY <1>7
<1> QED
  BY <1>1, <1>2, <1>3, <1>4, <1>5, <1>6, <1>7
     DEF Next, LoopStep, BeginWithoutTools, Begin, ModelAnswers, ModelCallsTools,
         ApprovalStep, HeedRefused, ToolEnds, ReloadPolicy, Outsiders, vars, gateVars

LEMMA StoredKept ==
    ASSUME TypeInv, [Next]_vars, NEW c \in Calls, NEW e \in Events, Stored(c, e)
    PROVE  Stored(c, e)'
<1>1. CASE UNCHANGED trail
  BY <1>1 DEF Stored
<1>2. CASE at \in Calls /\ \E event \in Events : Record(at, event)
  BY <1>2, RecordStored DEF TypeInv
<1> QED
  BY <1>1, <1>2, Writes

LEMMA ClearedKept ==
    ASSUME TypeInv, [Next]_vars, NEW c \in Calls, loop = "gate" => c # at, Cleared(c)
    PROVE  Cleared(c)'
<1>1. "requested" \in Events /\ "approval_approved" \in Events
  BY DEF Events
<1> QED
  BY <1>1, Untouched, ConsentKept, StoredKept DEF Cleared

\* Only StartTool runs a tool, and only results change outcomes.
LEMMA RunsAt ==
    ASSUME TypeInv, [Next]_vars
    PROVE  /\ StartTool \/ ran' = ran
           /\ loop \in Inside \/ outcome' = outcome
           /\ \A c \in Calls : c # at => outcome'[c] = outcome[c] /\ ran'[c] = ran[c]
BY DEF TypeInv, TypeOK, Next, LoopStep, BeginWithoutTools, Begin, ModelAnswers, ModelCallsTools,
       RefuseUnknown, RefuseDenied, RefuseInvalid, Refuse, PassGate, GateUnaudited, AskHuman,
       ApprovalStep, HeedApproved, HeedUnaudited, HeedRefused, StartTool, ToolEnds, Tell,
       FeedBack, Stop, ReloadPolicy, Outsiders, vars, gateVars, Inside

-----------------------------------------------------------------------------
(* The gate                                                                 *)

\* The tool starts only for a call the gate has cleared.
LEMMA NextCleared == GateInv /\ [Next]_vars => Progress' /\ RunsOnlyCleared'
<1> SUFFICES ASSUME GateInv, [Next]_vars PROVE Progress' /\ RunsOnlyCleared'
  OBVIOUS
<1> TypeInv /\ TypeOK
  BY DEF GateInv, TypeInv
<1>1. RunsOnlyCleared'
  <2> SUFFICES ASSUME NEW c \in Calls, ran'[c] > 0 PROVE Cleared(c)'
    BY DEF RunsOnlyCleared
  <2>1. CASE ran' = ran
    <3>1. loop = "gate" => c # at
      BY <2>1, InGate DEF GateInv, NotYetRun
    <3>2. Cleared(c)
      BY <2>1 DEF GateInv, RunsOnlyCleared
    <3> QED
      BY <3>1, <3>2, ClearedKept
  <2>2. CASE StartTool
    <3>1. loop # "gate"
      BY <2>2 DEF StartTool
    <3>2. Cleared(c)
      <4>1. CASE c = at
        BY <2>2, <4>1 DEF StartTool, GateInv, Progress
      <4>2. CASE c # at
        BY <2>2, <4>2, RunsAt DEF GateInv, RunsOnlyCleared
      <4> QED
        BY <4>1, <4>2
    <3> QED
      BY <3>1, <3>2, ClearedKept
  <2> QED
    BY <2>1, <2>2, RunsAt
<1>2. CASE PassGate
  <2>1. PICK x \in Tools :
          /\ policy[x] # "deny"
          /\ tool' = [tool EXCEPT ![at] = x]
          /\ granted' = [granted EXCEPT ![at] = policy[x]]
          /\ loop' = IF policy[x] = "ask" THEN "ask" ELSE "start"
    BY <1>2 DEF PassGate
  <2>2. at' = at /\ at \in Calls
    BY <1>2, InGate DEF PassGate, Inside
  <2>3. Stored(at, "requested")'
    <3>1. AddRow(at, "requested") /\ Record(at, "requested")
      BY <1>2 DEF PassGate, RecordPre, Record
    <3>2. "requested" \in Events
      BY DEF Events
    <3> QED
      BY <2>2, <3>1, <3>2, RecordStored DEF Stored
  <2>4. tool'[at] = x /\ granted'[at] = policy[x] /\ policy[x] \in {"allow", "ask"}
    BY <2>1, <2>2 DEF TypeOK, Permissions
  <2> QED
    BY <1>1, <2>1, <2>2, <2>3, <2>4 DEF Progress, Cleared, Stored
<1>3. CASE HeedApproved
  <2>1. at' = at /\ at \in Calls /\ loop = "approval" /\ loop' = "start"
    BY <1>3, InGate DEF HeedApproved, Inside
  <2>2. /\ Stored(at, "requested")' /\ Stored(at, "approval_approved")'
        /\ tool'[at] \in Tools /\ granted'[at] = "ask"
    <3>1. AddRow(at, "approval_approved") /\ Record(at, "approval_approved")
      BY <1>3 DEF HeedApproved, RecordPre, Record
    <3>2. "requested" \in Events /\ "approval_approved" \in Events
      BY DEF Events
    <3>3. Stored(at, "approval_approved")' /\ (Stored(at, "requested") => Stored(at, "requested")')
      BY <2>1, <3>1, <3>2, RecordStored DEF Stored
    <3> QED
      BY <1>3, <2>1, <3>3 DEF HeedApproved, GateInv, Progress
  <2>3. Consented(at)'
    BY <1>3, <2>1, ConsentKept, GateAssumption
       DEF HeedApproved, TypeInv, BrokerInv, ApprovalIsConsent
  <2> QED
    BY <1>1, <2>1, <2>2, <2>3 DEF Progress, Cleared, Stored, Consented, Said
<1>4. CASE AskHuman
  <2>1. loop = "ask" /\ loop' = "approval" /\ at \in Calls
        /\ UNCHANGED <<at, tool, granted>>
    BY <1>4, InGate DEF AskHuman, Inside
  <2>2. Stored(at, "requested")'
    <3>1. "requested" \in Events
      BY DEF Events
    <3> QED
      BY <2>1, <3>1, StoredKept DEF GateInv, Progress
  <2> QED
    BY <1>1, <2>1, <2>2 DEF GateInv, Progress, Stored
<1>5. CASE loop' = loop /\ at' = at /\ loop # "gate"
  <2>1. CASE loop \in Inside
    <3>1. at \in Calls
      BY <2>1, InGate
    <3>2. loop \in {"ask", "approval"} => /\ Stored(at, "requested")'
                                        /\ tool'[at] \in Tools /\ granted'[at] = "ask"
      <4>1. "requested" \in Events
        BY DEF Events
      <4> QED
        BY <1>5, <3>1, <4>1, Untouched, StoredKept DEF GateInv, Progress
    <3>3. loop \in {"start", "run"} => Cleared(at)'
      BY <1>5, <3>1, ClearedKept DEF GateInv, Progress
    <3> QED
      BY <1>1, <1>5, <3>2, <3>3 DEF Progress, Cleared, Stored
  <2>2. CASE loop \notin Inside
    BY <1>1, <1>5, <2>2 DEF Progress, Inside
  <2> QED
    BY <2>1, <2>2
<1>6. CASE StartTool
  <2>1. at' = at /\ at \in Calls /\ loop = "start" /\ loop' = "run"
    BY <1>6, InGate DEF StartTool, Inside
  <2>2. Cleared(at)'
    BY <2>1, ClearedKept DEF GateInv, Progress
  <2> QED
    BY <1>1, <2>1, <2>2 DEF Progress, Cleared
<1>7. CASE loop' \notin {"ask", "approval", "start", "run"}
  BY <1>1, <1>7 DEF Progress
<1> QED
  BY <1>2, <1>3, <1>4, <1>5, <1>6, <1>7
     DEF Next, LoopStep, BeginWithoutTools, Begin, ModelAnswers, ModelCallsTools, RefuseUnknown,
         RefuseDenied, RefuseInvalid, Refuse, GateUnaudited, FeedBack, ApprovalStep,
         HeedUnaudited, HeedRefused, ToolEnds, Tell, Stop, Ended, ReloadPolicy, Outsiders,
         vars, gateVars

LEMMA NextInGate == TypeInv /\ [Next]_vars /\ loop' \in Inside => at' \in Calls
<1> SUFFICES ASSUME TypeInv, [Next]_vars, loop' \in Inside PROVE at' \in Calls
  OBVIOUS
<1>1. TypeInv'
  BY NextTypeInv
<1>2. (TypeInv /\ loop \in Inside => at \in Calls /\ at = answered + 1)'
  BY InGate, PTL
<1> QED
  BY <1>1, <1>2

\* A call runs when it reaches the tool, and is not asked for again.
LEMMA NextOnce == GateInv /\ [Next]_vars => NotYetRun' /\ RunsOnce'
<1> SUFFICES ASSUME GateInv, [Next]_vars PROVE NotYetRun' /\ RunsOnce'
  OBVIOUS
<1> TypeInv /\ TypeOK
  BY DEF GateInv, TypeInv
<1>1. at \in Nat /\ answered \in Nat /\ asked \in Nat
  BY DEF TypeOK
<1>2. CASE StartTool
  <2>1. at \in Calls /\ at = answered + 1
    BY <1>2, InGate DEF StartTool, Inside
  <2> QED
    BY <1>1, <1>2, <2>1 DEF StartTool, GateInv, NotYetRun, RunsOnce, TypeOK
<1>3. CASE ModelCallsTools
  <2>1. at = answered /\ answered = asked
    BY <1>3 DEF ModelCallsTools, TypeInv, AtNext
  <2>2. \/ loop' = "limit" /\ at' = at
        \/ loop' = "gate" /\ at' = at + 1
    BY <1>3, <2>1 DEF ModelCallsTools
  <2>3. UNCHANGED <<ran, outcome, answered>>
    BY <1>3 DEF ModelCallsTools
  <2>4. ASSUME at + 1 \in Calls PROVE ran[at + 1] = 0
    <3>1. ran[at + 1] \in Nat /\ ~(at + 1 <= at)
      BY <1>1, <2>4 DEF TypeOK
    <3> QED
      BY <2>4, <3>1 DEF GateInv, NotYetRun
  <2>5. loop' = "gate" => at' \in Calls
    BY NextInGate DEF Inside
  <2> QED
    BY <1>1, <2>2, <2>3, <2>4, <2>5, GateAssumption DEF GateInv, NotYetRun, RunsOnce, Calls
<1>4. CASE loop \in Inside /\ ran' = ran /\ \E code \in Outcomes : FeedBack(at, code)
             /\ (ran[at] = 1 <=> code \in Executed)
  <2>1. PICK code \in Outcomes : FeedBack(at, code) /\ (ran[at] = 1 <=> code \in Executed)
    BY <1>4
  <2>2. at \in Calls /\ at = answered + 1
    BY <1>4, InGate
  <2>3. /\ answered' = at /\ outcome' = [outcome EXCEPT ![at] = code] /\ ran' = ran
        /\ \/ loop' = "gate" /\ at' = at + 1 /\ at < asked
           \/ loop' = "model" /\ at' = at
    BY <1>4, <2>1 DEF FeedBack
  <2>4. loop' = "gate" => at' \in Calls /\ ran[at'] = 0
    BY <1>1, <2>2, <2>3, GateAssumption DEF GateInv, NotYetRun, TypeOK, Calls
  <2>5. NotYetRun'
    BY <1>1, <2>3, <2>4, GateAssumption DEF GateInv, NotYetRun, Calls
  <2>6. RunsOnce'
    BY <1>1, <2>1, <2>2, <2>3 DEF GateInv, RunsOnce, TypeOK, Executed
  <2> QED
    BY <2>5, <2>6
<1>5. CASE ran' = ran /\ answered' = answered /\ at' = at /\ loop \in Inside
             /\ outcome' = [outcome EXCEPT ![at] = outcome'[at]]
             /\ \/ loop' \in {"gate", "ask", "approval", "start"} /\ ran[at] = 0
                \/ loop' = "tell" /\ (ran[at] = 1 <=> outcome'[at] \in Executed)
  <2>1. at \in Calls /\ at = answered + 1
    BY <1>5, InGate
  <2>2. NotYetRun'
    BY <1>5, <2>1 DEF GateInv, NotYetRun
  <2>3. \A c \in Calls : c <= answered => outcome'[c] = outcome[c]
    BY <1>1, <1>5, <2>1 DEF TypeOK
  <2> QED
    BY <1>5, <2>2, <2>3 DEF GateInv, RunsOnce
<1>6. CASE ran' = ran /\ answered' = answered /\ outcome' = outcome /\ at' = at
             /\ (loop' = loop \/ loop' \in Ended \cup {"model"})
  BY <1>6 DEF GateInv, NotYetRun, RunsOnce, Ended
<1>7. CASE RefuseUnknown \/ RefuseDenied \/ RefuseInvalid
  <2>1. PICK code \in {"unknown_tool", "tool_denied", "invalid_arguments"} :
          outcome' = [outcome EXCEPT ![at] = code]
    BY <1>7 DEF RefuseUnknown, RefuseDenied, RefuseInvalid, Refuse
  <2>2. loop = "gate" /\ loop' = "tell" /\ ran[at] = 0 /\ at \in Calls
        /\ UNCHANGED <<ran, answered, at>>
    BY <1>7, InGate
       DEF RefuseUnknown, RefuseDenied, RefuseInvalid, Refuse, GateInv, NotYetRun, Inside
  <2>3. outcome'[at] = code /\ code \notin Executed
    BY <2>1, <2>2 DEF TypeOK, Executed
  <2> QED
    <3>1. outcome' = [outcome EXCEPT ![at] = outcome'[at]]
      BY <2>1, <2>3
    <3> QED
      BY <1>5, <2>2, <2>3, <3>1 DEF Inside, Executed
<1>8. CASE PassGate \/ AskHuman \/ HeedApproved
  <2>1. /\ loop \in Inside /\ loop' \in {"ask", "approval", "start"} /\ ran[at] = 0
        /\ UNCHANGED <<ran, answered, at, outcome>>
    BY <1>8 DEF PassGate, AskHuman, HeedApproved, GateInv, NotYetRun, Inside
  <2>2. outcome' = [outcome EXCEPT ![at] = outcome'[at]]
    BY <2>1 DEF TypeOK
  <2> QED
    BY <1>5, <2>1, <2>2
<1>9. CASE HeedRefused \/ ToolEnds
  <2>1. PICK code \in Refused \cup Executed :
          /\ outcome' = [outcome EXCEPT ![at] = code]
          /\ loop = "run" <=> code \in Executed
    BY <1>9 DEF HeedRefused, ToolEnds, Refused, Executed
  <2>2. /\ loop \in {"approval", "run"} /\ loop' = "tell"
        /\ UNCHANGED <<ran, answered, at>> /\ at \in Calls
    BY <1>9, InGate DEF HeedRefused, ToolEnds, Inside
  <2>3. ran[at] = 1 <=> loop = "run"
    BY <2>2 DEF GateInv, NotYetRun
  <2>4. outcome'[at] = code
    BY <2>1, <2>2 DEF TypeOK
  <2> QED
    BY <1>5, <2>1, <2>2, <2>3, <2>4 DEF Inside
<1>10. CASE GateUnaudited \/ HeedUnaudited
  <2>1. /\ loop \in {"gate", "approval"} /\ ran' = ran /\ ran[at] = 0
        /\ FeedBack(at, "audit_unavailable")
    BY <1>10 DEF GateUnaudited, HeedUnaudited, GateInv, NotYetRun
  <2>2. "audit_unavailable" \in Outcomes /\ "audit_unavailable" \notin Executed
    BY DEF Outcomes, Executed
  <2> QED
    BY <1>4, <2>1, <2>2 DEF Inside
<1>11. CASE Tell
  <2>1. loop = "tell" /\ ran' = ran /\ FeedBack(at, outcome[at]) /\ at \in Calls
    BY <1>11, InGate DEF Tell, Inside
  <2>2. outcome[at] \in Outcomes /\ (ran[at] = 1 <=> outcome[at] \in Executed)
    BY <2>1 DEF GateInv, NotYetRun, TypeOK
  <2> QED
    BY <1>4, <2>1, <2>2 DEF Inside
<1>12. CASE BeginWithoutTools \/ Begin \/ ModelAnswers \/ ApprovalStep \/ Stop
              \/ ReloadPolicy \/ Outsiders \/ UNCHANGED vars
  BY <1>6, <1>12 DEF BeginWithoutTools, Begin, ModelAnswers, ApprovalStep, Stop, ReloadPolicy,
                     Outsiders, vars, gateVars, Ended
<1> QED
  BY <1>2, <1>3, <1>7, <1>8, <1>9, <1>10, <1>11, <1>12 DEF Next, LoopStep

LEMMA GateInvariant == Spec => []GateInv
<1>1. Init => GateInv
  <2> SUFFICES ASSUME Init PROVE GateInv
    OBVIOUS
  <2>1. ran = [c \in Calls |-> 0] /\ loop = "begin" /\ answered = 0
    BY DEF Init
  <2>2. Progress /\ NotYetRun /\ RunsOnlyCleared
    BY <2>1 DEF Progress, NotYetRun, RunsOnlyCleared
  <2>3. RunsOnce
    BY <2>1, GateAssumption DEF RunsOnce, Calls
  <2> QED
    BY <2>2, <2>3, InitTypeInv DEF GateInv
<1>2. GateInv /\ [Next]_vars => GateInv'
  BY NextTypeInv, NextCleared, NextOnce DEF GateInv
<1> QED
  BY <1>1, <1>2, PTL DEF Spec

\* Whatever fails, expires, is clicked, stopped or reloaded, a tool only runs for
\* a call that passed the whole gate: audited, allowed, and approved if it asks.
THEOREM OnlyClearedRun == Spec => []RunsOnlyCleared
<1>1. GateInv => RunsOnlyCleared
  BY DEF GateInv
<1> QED
  BY <1>1, GateInvariant, PTL

\* No failed audit write, timeout or stop makes a call run again, and the model
\* is told that a call ran exactly when it did.
THEOREM RunsAtMostOnce == Spec => []RunsOnce
<1>1. GateInv => RunsOnce
  BY DEF GateInv
<1> QED
  BY <1>1, GateInvariant, PTL

-----------------------------------------------------------------------------
(* What the model is told                                                   *)

\* The loop meets its limit with the batch it does not run still ahead.
LimitAhead == loop = "limit" => at = answered

LEMMA NextLimitAhead == GateInv /\ LimitAhead /\ [Next]_vars => LimitAhead'
<1> SUFFICES ASSUME GateInv, LimitAhead, [Next]_vars, loop' = "limit" PROVE at' = answered'
  BY DEF LimitAhead
<1>1. CASE ModelCallsTools
  BY <1>1 DEF ModelCallsTools, GateInv, TypeInv, AtNext
<1>2. CASE loop = "limit" /\ UNCHANGED <<at, answered>>
  BY <1>2 DEF LimitAhead
<1> QED
  BY <1>1, <1>2
     DEF Next, LoopStep, BeginWithoutTools, Begin, ModelAnswers, RefuseUnknown, RefuseDenied,
         RefuseInvalid, Refuse, PassGate, GateUnaudited, FeedBack, AskHuman, ApprovalStep,
         HeedApproved, HeedUnaudited, HeedRefused, StartTool, ToolEnds, Tell, Stop,
         ReloadPolicy, Outsiders, vars, gateVars

\* The model is asked again only with a result for every call it made, and the
\* limit leaves no call that ran without its result.
THEOREM CallsAnswered == Spec => []EveryCallAnswered
<1>1. Init => LimitAhead
  BY DEF Init, LimitAhead
<1>2. GateInv /\ LimitAhead => EveryCallAnswered
  BY DEF GateInv, TypeInv, AtNext, NotYetRun, LimitAhead, EveryCallAnswered
<1> QED
  BY <1>1, <1>2, NextLimitAhead, GateInvariant, PTL DEF Spec

-----------------------------------------------------------------------------
(* The audit trail                                                          *)

\* Append puts one element behind the others.
LEMMA Push ==
    ASSUME NEW S, NEW s \in Seq(S), NEW e \in S
    PROVE  /\ Append(s, e) \in Seq(S)
           /\ Len(Append(s, e)) = Len(s) + 1
           /\ \A i \in 1 .. Len(s) : Append(s, e)[i] = s[i]
           /\ Append(s, e)[Len(s) + 1] = e
BY AppendProperties

\* One more event, for the lengths a trail has.
LEMMA AppendOne ==
    ASSUME NEW a, NEW b
    PROVE  Append(<<a>>, b) = <<a, b>>
<1> DEFINE S == {a, b}
           s == <<a>>
           p == Append(s, b)
<1>1. s \in Seq(S) /\ b \in S
  OBVIOUS
<1>2. Len(s) = 1 /\ s[1] = a
  OBVIOUS
<1> HIDE DEF s, S
<1>3. /\ p \in Seq(S) /\ Len(p) = Len(s) + 1
      /\ \A i \in 1 .. Len(s) : p[i] = s[i]
      /\ p[Len(s) + 1] = b
  BY <1>1, Push
<1> HIDE DEF p
<1>4. p \in Seq(S) /\ Len(p) = 2 /\ p[1] = a /\ p[2] = b
  BY <1>2, <1>3
<1>5. p = <<a, b>>
  BY <1>4
<1> QED
  BY <1>5 DEF p, s

LEMMA AppendTwo ==
    ASSUME NEW a, NEW b, NEW c
    PROVE  Append(<<a, b>>, c) = <<a, b, c>>
<1> DEFINE S == {a, b, c}
           s == <<a, b>>
           p == Append(s, c)
<1>1. s \in Seq(S) /\ c \in S
  OBVIOUS
<1>2. Len(s) = 2 /\ s[1] = a /\ s[2] = b
  OBVIOUS
<1> HIDE DEF s, S
<1>3. /\ p \in Seq(S) /\ Len(p) = Len(s) + 1
      /\ \A i \in 1 .. Len(s) : p[i] = s[i]
      /\ p[Len(s) + 1] = c
  BY <1>1, Push
<1> HIDE DEF p
<1>4. p \in Seq(S) /\ Len(p) = 3 /\ p[1] = a /\ p[2] = b /\ p[3] = c
  BY <1>2, <1>3
<1>5. p = <<a, b, c>>
  BY <1>4
<1> QED
  BY <1>5 DEF p, s

LEMMA AppendThree ==
    ASSUME NEW a, NEW b, NEW c, NEW d
    PROVE  Append(<<a, b, c>>, d) = <<a, b, c, d>>
<1> DEFINE S == {a, b, c, d}
           s == <<a, b, c>>
           p == Append(s, d)
<1>1. s \in Seq(S) /\ d \in S
  OBVIOUS
<1>2. Len(s) = 3 /\ s[1] = a /\ s[2] = b /\ s[3] = c
  OBVIOUS
<1> HIDE DEF s, S
<1>3. /\ p \in Seq(S) /\ Len(p) = Len(s) + 1
      /\ \A i \in 1 .. Len(s) : p[i] = s[i]
      /\ p[Len(s) + 1] = d
  BY <1>1, Push
<1> HIDE DEF p
<1>4. p \in Seq(S) /\ Len(p) = 4 /\ p[1] = a /\ p[2] = b /\ p[3] = c /\ p[4] = d
  BY <1>2, <1>3
<1>5. p = <<a, b, c, d>>
  BY <1>4
<1> QED
  BY <1>5 DEF p, s

LEMMA AppendFour ==
    ASSUME NEW a, NEW b, NEW c, NEW d, NEW e
    PROVE  Append(<<a, b, c, d>>, e) = <<a, b, c, d, e>>
<1> DEFINE S == {a, b, c, d, e}
           s == <<a, b, c, d>>
           p == Append(s, e)
<1>1. s \in Seq(S) /\ e \in S
  OBVIOUS
<1>2. Len(s) = 4 /\ s[1] = a /\ s[2] = b /\ s[3] = c /\ s[4] = d
  OBVIOUS
<1> HIDE DEF s, S
<1>3. /\ p \in Seq(S) /\ Len(p) = Len(s) + 1
      /\ \A i \in 1 .. Len(s) : p[i] = s[i]
      /\ p[Len(s) + 1] = e
  BY <1>1, Push
<1> HIDE DEF p
<1>4. p \in Seq(S) /\ Len(p) = 5 /\ p[1] = a /\ p[2] = b /\ p[3] = c /\ p[4] = d /\ p[5] = e
  BY <1>2, <1>3
<1>5. p = <<a, b, c, d, e>>
  BY <1>4
<1> QED
  BY <1>5 DEF p, s

\* An opening of one event or of three, and the two events of an execution.
LEMMA OpenShort ==
    ASSUME NEW a, NEW b, NEW c
    PROVE  <<a>> \o <<b, c>> = <<a, b, c>>
<1> DEFINE S == {a, b, c}
           s == <<a>>  t == <<b, c>> p == s \o t
<1>1. /\ s \in Seq(S) /\ Len(s) = 1 /\ s[1] = a
      /\ t \in Seq(S) /\ Len(t) = 2 /\ t[1] = b /\ t[2] = c
  OBVIOUS
<1> HIDE DEF s, t, S
<1>2. /\ p \in Seq(S) /\ Len(p) = Len(s) + Len(t)
      /\ \A i \in 1 .. Len(s) + Len(t) : p[i] = IF i <= Len(s) THEN s[i] ELSE t[i - Len(s)]
  BY <1>1, ConcatProperties
<1> HIDE DEF p
<1>3. /\ p \in Seq(S) /\ Len(p) = 3 /\ p[1] = a /\ p[2] = b /\ p[3] = c
  BY <1>1, <1>2
<1>4. p = <<a, b, c>>
  BY <1>3
<1> QED
  BY <1>4 DEF p, s, t

LEMMA OpenLong ==
    ASSUME NEW a, NEW b, NEW c, NEW d, NEW e
    PROVE  <<a, b, c>> \o <<d, e>> = <<a, b, c, d, e>>
<1> DEFINE S == {a, b, c, d, e}
           s == <<a, b, c>>  t == <<d, e>> p == s \o t
<1>1. /\ s \in Seq(S) /\ Len(s) = 3 /\ s[1] = a /\ s[2] = b /\ s[3] = c
      /\ t \in Seq(S) /\ Len(t) = 2 /\ t[1] = d /\ t[2] = e
  OBVIOUS
<1> HIDE DEF s, t, S
<1>2. /\ p \in Seq(S) /\ Len(p) = Len(s) + Len(t)
      /\ \A i \in 1 .. Len(s) + Len(t) : p[i] = IF i <= Len(s) THEN s[i] ELSE t[i - Len(s)]
  BY <1>1, ConcatProperties
<1> HIDE DEF p
<1>3. /\ p \in Seq(S) /\ Len(p) = 5 /\ p[1] = a /\ p[2] = b /\ p[3] = c /\ p[4] = d /\ p[5] = e
  BY <1>1, <1>2
<1>4. p = <<a, b, c, d, e>>
  BY <1>3
<1> QED
  BY <1>4 DEF p, s, t

\* A call that has been started, with its approval or without.
Started == {<<"requested", "started">>,
            <<"requested", "approval_requested", "approval_approved", "started">>}

\* What the table may show of a call whose human is asked, or whose tool runs.
Waited    == {<<"requested">> \o a : a \in Maybe({"approval_requested"})}
BeforeEnd == {o \o s : o \in PartialOpenings, s \in Maybe({"started"})}

\* The rows of the call in the gate tell how far it is, as far as they are there ...
RowsAt ==
    /\ loop = "gate" => trail[at] = <<>>
    /\ loop = "ask" => trail[at] = <<"requested">>
    /\ loop = "approval" => trail[at] \in Waited
    /\ loop = "start" => trail[at] \in PartialOpenings
    /\ loop = "run" => trail[at] \in BeforeEnd
    /\ loop = "tell" =>
          \/ /\ outcome[at] \in {"unknown_tool", "tool_denied", "invalid_arguments"}
             /\ trail[at] \in Maybe({"requested"})
          \/ /\ outcome[at] \in {"approval_denied", "approval_expired"}
             /\ trail[at] \in Waited
          \/ outcome[at] \in Executed /\ trail[at] \in BeforeEnd

\* ... and are all there if every write succeeded.
TrailAt ==
    /\ loop = "gate" => trail[at] = <<>>
    /\ loop = "ask" => trail[at] = <<"requested">>
    /\ loop = "approval" => trail[at] = <<"requested", "approval_requested">>
    /\ loop = "start" => trail[at] \in Openings
    /\ loop = "run" => trail[at] \in Started
    /\ loop = "tell" =>
          \/ /\ outcome[at] \in {"unknown_tool", "tool_denied", "invalid_arguments"}
             /\ trail[at] = <<"requested">>
          \/ /\ outcome[at] \in {"approval_denied", "approval_expired"}
             /\ trail[at] = <<"requested", "approval_requested">>
          \/ outcome[at] \in Executed /\ trail[at] \in Started

AllRowsAt == loop \in Inside /\ NoneMissing(at) => TrailAt

\* A call that is still in the gate shows no end, and one that is ahead no rows.
NoEndYet == loop \in Inside => \A e \in LastEvents : ~Stored(at, e)
Ahead    == \A c \in Calls : c > at => trail[c] = <<>>

EndsTold ==
    \A c \in Calls, e \in LastEvents :
        Stored(c, e) => outcome[c] \in DOMAIN EventOf /\ e = EventOf[outcome[c]]

Whole ==
    \A c \in Calls :
        c <= answered /\ outcome[c] # "audit_unavailable" /\ NoneMissing(c) =>
            trail[c] \in FullTrails

Trails ==
    /\ \A c \in Calls : trail[c] \in PartialTrails
    /\ EndsTold
    /\ Whole
    /\ Ahead
    /\ NoEndYet
    /\ RowsAt
    /\ AllRowsAt

\* A terminal event that fits makes a full trail.
LEMMA TrailEnds ==
    ASSUME NEW s, NEW code,
           \/ /\ code \in {"unknown_tool", "tool_denied", "invalid_arguments"}
              /\ s = <<"requested">>
           \/ /\ code \in {"approval_denied", "approval_expired"}
              /\ s = <<"requested", "approval_requested">>
           \/ code \in Executed /\ s \in Started
    PROVE  Append(s, EventOf[code]) \in FullTrails
<1> DEFINE e == EventOf[code]
<1>1. CASE code \in {"unknown_tool", "tool_denied", "invalid_arguments"} /\ s = <<"requested">>
  <2>1. e \in {"denied", "validation_failed"}
    BY <1>1 DEF EventOf
  <2> HIDE DEF e
  <2>2. Append(s, e) = <<"requested", e>>
    BY <1>1, <2>1, AppendOne
  <2>3. <<"requested", e>> \in FullTrails
    BY <2>1 DEF FullTrails, Refusals
  <2> QED
    BY <2>2, <2>3 DEF e
<1>2. CASE code \in {"approval_denied", "approval_expired"}
           /\ s = <<"requested", "approval_requested">>
  <2>1. e \in {"approval_denied", "approval_expired"}
    BY <1>2 DEF EventOf
  <2> HIDE DEF e
  <2>2. Append(s, e) = <<"requested", "approval_requested", e>>
    BY <1>2, <2>1, AppendTwo
  <2>3. <<"requested", "approval_requested", e>> \in FullTrails
    BY <2>1 DEF FullTrails
  <2> QED
    BY <2>2, <2>3 DEF e
<1>3. CASE code \in Executed /\ s \in Started
  <2>1. e \in {"completed", "failed", "timed_out"}
    BY <1>3 DEF EventOf, Executed
  <2> HIDE DEF e
  <2>2. CASE s = <<"requested", "started">>
    <3>1. Append(s, e) = <<"requested">> \o <<"started", e>>
      BY <2>2, AppendTwo, OpenShort
    <3> QED
      BY <2>1, <3>1 DEF FullTrails, Openings, e
  <2>3. CASE s = <<"requested", "approval_requested", "approval_approved", "started">>
    <3>1. Append(s, e)
            = <<"requested", "approval_requested", "approval_approved">> \o <<"started", e>>
      BY <2>3, AppendFour, OpenLong
    <3> QED
      BY <2>1, <3>1 DEF FullTrails, Openings, e
  <2> QED
    BY <1>3, <2>2, <2>3 DEF Started
<1> QED
  BY <1>1, <1>2, <1>3

\* Only the call in the gate gets events.
LEMMA OthersKeepTrail ==
    ASSUME TypeInv, [Next]_vars, NEW c \in Calls, c # at
    PROVE  trail'[c] = trail[c]
<1>1. CASE UNCHANGED trail
  BY <1>1
<1>2. CASE at \in Calls /\ \E event \in Events : Record(at, event)
  BY <1>2, RecordType DEF TypeInv
<1> QED
  BY <1>1, <1>2, Writes

\* Nothing of a call is missing after the step.
StillNone(c) == \A event \in Events : <<c, event>> \notin missing'

\* What is missing stays missing.
LEMMA MissingKept ==
    ASSUME TypeInv, [Next]_vars, NEW c \in Calls, StillNone(c)
    PROVE  NoneMissing(c)
<1>1. missing \subseteq missing'
  <2>1. CASE UNCHANGED missing
    BY <2>1
  <2>2. CASE at \in Calls /\ \E event \in Events : Record(at, event)
    BY <2>2, RecordType DEF TypeInv
  <2> QED
    BY <2>1, <2>2, Writes
<1> QED
  BY <1>1 DEF NoneMissing, StillNone

\* A write leaves a row behind the others, or none.
LEMMA RecordMaybe ==
    ASSUME TypeOK, NEW c \in Calls, NEW event \in Events, Record(c, event)
    PROVE  \E m \in Maybe({event}) : trail'[c] = trail[c] \o m
<1>1. trail[c] \in Seq(Events)
  BY DEF TypeOK
<1>2. CASE trail'[c] = Append(trail[c], event)
  <2>1. trail'[c] = trail[c] \o <<event>>
    BY <1>1, <1>2, AppendIsConcat
  <2> QED
    BY <2>1 DEF Maybe
<1>3. CASE trail'[c] = trail[c]
  <2>1. trail'[c] = trail[c] \o <<>>
    BY <1>1, <1>3, ConcatEmptySeq
  <2> QED
    BY <2>1 DEF Maybe
<1> QED
  BY <1>2, <1>3, RecordType

\* A write that leaves nothing missing leaves its row.
LEMMA RecordWhole ==
    ASSUME TypeOK, NEW c \in Calls, NEW event \in Events, Record(c, event), StillNone(c)
    PROVE  trail'[c] = Append(trail[c], event)
BY RecordType DEF StillNone

LEMMA MaybeOne ==
    ASSUME NEW event, NEW m \in Maybe({event})
    PROVE  m = <<>> \/ m = <<event>>
BY DEF Maybe

LEMMA MaybeType == ASSUME NEW S, NEW m \in Maybe(S) PROVE m \in Seq(S)
<1>1. CASE m = <<>>
  BY <1>1
<1>2. ASSUME NEW e \in S, m = <<e>> PROVE m \in Seq(S)
  BY <1>2
<1> QED
  BY <1>1, <1>2 DEF Maybe

LEMMA MaybeIn == ASSUME NEW S, NEW T, S \subseteq T, NEW m \in Maybe(S) PROVE m \in Maybe(T)
BY DEF Maybe

LEMMA MaybeNone == ASSUME NEW S PROVE <<>> \in Maybe(S)
BY DEF Maybe

\* The ways to a part of a trail: what stands behind it may be missing.
LEMMA RefusedPart ==
    ASSUME NEW r \in Maybe({"requested"}), NEW d \in Maybe({"denied", "validation_failed"})
    PROVE  r \o d \in PartialTrails
BY DEF PartialTrails

LEMMA AskedPart ==
    ASSUME NEW w \in Waited, NEW d \in Maybe({"approval_denied", "approval_expired"})
    PROVE  w \o d \in PartialTrails
<1>1. PICK a \in Maybe({"approval_requested"}) : w = <<"requested">> \o a
  BY DEF Waited
<1>2. <<"requested">> \o a \o d \in PartialTrails
  BY DEF PartialTrails
<1> QED
  BY <1>1, <1>2

LEMMA RanPart ==
    ASSUME NEW b \in BeforeEnd, NEW e \in Maybe({"completed", "failed", "timed_out"})
    PROVE  b \o e \in PartialTrails
<1>1. PICK o \in PartialOpenings, s \in Maybe({"started"}) : b = o \o s
  BY DEF BeforeEnd
<1>2. o \o s \o e \in PartialTrails
  BY DEF PartialTrails
<1> QED
  BY <1>1, <1>2

LEMMA StartedPart ==
    ASSUME NEW o \in PartialOpenings, NEW s \in Maybe({"started"})
    PROVE  o \o s \in BeforeEnd
BY DEF BeforeEnd

LEMMA ApprovedPart ==
    ASSUME NEW w \in Waited
    PROVE  w \o <<"approval_approved">> \in PartialOpenings
BY DEF Waited, PartialOpenings

LEMMA JustRequested ==
    /\ <<"requested">> \in PartialOpenings
    /\ \A a \in Maybe({"approval_requested"}) : <<"requested">> \o a \in Waited
BY DEF PartialOpenings, Waited

\* Where the call in the gate stands, its next row makes a part of a trail.
LEMMA WritePart ==
    ASSUME GateInv, Trails, at \in Calls, NEW event \in Events, Writing(event),
           NEW m \in Maybe({event})
    PROVE  trail[at] \o m \in PartialTrails
<1> TypeOK
  BY DEF GateInv, TypeInv
<1>0. trail[at] \in Seq(Events) /\ m \in Seq(Events)
  BY MaybeType, MaybeIn DEF TypeOK
<1>1. CASE loop = "gate"
  <2>1. trail[at] = <<>> /\ event = "requested"
    BY <1>1 DEF Trails, RowsAt, Writing
  <2>2. trail[at] \o m = m /\ m \o <<>> = m
    BY <1>0, <2>1, ConcatEmptySeq
  <2>3. m \o <<>> \in PartialTrails
    BY <2>1, RefusedPart, MaybeNone
  <2> QED
    BY <2>2, <2>3
<1>2. CASE loop = "ask"
  <2>1. trail[at] = <<"requested">> /\ event = "approval_requested"
    BY <1>2 DEF Trails, RowsAt, Writing
  <2> DEFINE w == trail[at] \o m
  <2>2. w \in Waited
    BY <2>1, JustRequested
  <2>3. w \in Seq(Events)
    BY <1>0, ConcatProperties
  <2> HIDE DEF w
  <2>4. w \o <<>> = w
    BY <2>3, ConcatEmptySeq
  <2>5. w \o <<>> \in PartialTrails
    BY <2>2, AskedPart, MaybeNone
  <2> QED
    BY <2>4, <2>5 DEF w
<1>3. CASE loop = "approval"
  <2>1. trail[at] \in Waited /\ event = "approval_approved"
    BY <1>3 DEF Trails, RowsAt, Writing
  <2>2. CASE m = <<>>
    BY <2>1, <2>2, AskedPart, MaybeNone
  <2>3. CASE m = <<"approval_approved">>
    <3> DEFINE o == trail[at] \o m
    <3>1. o \in PartialOpenings
      BY <2>1, <2>3, ApprovedPart
    <3>2. o \in Seq(Events)
      BY <1>0, ConcatProperties
    <3> HIDE DEF o
    <3>3. o \o <<>> = o
      BY <3>2, ConcatEmptySeq
    <3>4. o \in BeforeEnd
      BY <3>1, <3>3, StartedPart, MaybeNone
    <3>5. o \in PartialTrails
      BY <3>3, <3>4, RanPart, MaybeNone
    <3> QED
      BY <3>5 DEF o
  <2> QED
    BY <2>1, <2>2, <2>3, MaybeOne
<1>4. CASE loop = "start"
  <2>1. trail[at] \in PartialOpenings /\ event = "started"
    BY <1>4 DEF Trails, RowsAt, Writing
  <2> DEFINE b == trail[at] \o m
  <2>2. b \in BeforeEnd
    BY <2>1, StartedPart
  <2>3. b \in Seq(Events)
    BY <1>0, ConcatProperties
  <2> HIDE DEF b
  <2>4. b \o <<>> = b
    BY <2>3, ConcatEmptySeq
  <2>5. b \in PartialTrails
    BY <2>2, <2>4, RanPart, MaybeNone
  <2> QED
    BY <2>5 DEF b
<1>5. CASE loop = "tell"
  <2>1. event = EventOf[outcome[at]]
    BY <1>5 DEF Writing
  <2>2. CASE /\ outcome[at] \in {"unknown_tool", "tool_denied", "invalid_arguments"}
             /\ trail[at] \in Maybe({"requested"})
    <3>1. event \in {"denied", "validation_failed"}
      BY <2>1, <2>2 DEF EventOf
    <3>2. m \in Maybe({"denied", "validation_failed"})
      BY <3>1, MaybeIn
    <3> QED
      BY <2>2, <3>2, RefusedPart
  <2>3. CASE outcome[at] \in {"approval_denied", "approval_expired"} /\ trail[at] \in Waited
    <3>1. event \in {"approval_denied", "approval_expired"}
      BY <2>1, <2>3 DEF EventOf
    <3>2. m \in Maybe({"approval_denied", "approval_expired"})
      BY <3>1, MaybeIn
    <3> QED
      BY <2>3, <3>2, AskedPart
  <2>4. CASE outcome[at] \in Executed /\ trail[at] \in BeforeEnd
    <3>1. event \in {"completed", "failed", "timed_out"}
      BY <2>1, <2>4 DEF EventOf, Executed
    <3>2. m \in Maybe({"completed", "failed", "timed_out"})
      BY <3>1, MaybeIn
    <3> QED
      BY <2>4, <3>2, RanPart
  <2> QED
    BY <1>5, <2>2, <2>3, <2>4 DEF Trails, RowsAt
<1> QED
  BY <1>1, <1>2, <1>3, <1>4, <1>5 DEF Writing

\* Every row that any step adds, and every row that it loses, leaves a legal part.
LEMMA NextPart ==
    ASSUME GateInv, Trails, [Next]_vars, NEW c \in Calls
    PROVE  trail'[c] \in PartialTrails
<1> TypeInv /\ TypeOK
  BY DEF GateInv, TypeInv
<1>1. CASE trail'[c] = trail[c]
  BY <1>1 DEF Trails
<1>2. CASE c = at /\ \E event \in Events : Writing(event) /\ Record(at, event)
  BY <1>2, RecordMaybe, WritePart
<1> QED
  BY <1>1, <1>2, Writes, OthersKeepTrail

\* The only row that shows an end is the one the loop writes in "tell".
LEMMA EndWritten ==
    ASSUME NEW e \in LastEvents, Writing(e)
    PROVE  loop = "tell" /\ e = EventOf[outcome[at]]
<1>1. e \notin {"requested", "approval_requested", "approval_approved", "started"}
  BY DEF LastEvents, EventOf
<1> QED
  BY <1>1 DEF Writing

LEMMA EndStored ==
    ASSUME TypeInv, [Next]_vars, NEW c \in Calls, NEW e \in LastEvents, Stored(c, e)'
    PROVE  Stored(c, e) \/ (c = at /\ loop = "tell" /\ e = EventOf[outcome[at]])
<1>0. TypeOK /\ e \in Events
  BY DEF TypeInv, LastEvents, Events
<1>1. CASE UNCHANGED trail
  BY <1>1 DEF Stored
<1>2. CASE at \in Calls /\ \E event \in Events : Writing(event) /\ Record(at, event)
  BY <1>0, <1>2, RecordStored, EndWritten
<1> QED
  BY <1>1, <1>2, Writes

LEMMA TellKeepsOutcome == TypeInv /\ [Next]_vars /\ loop = "tell" => outcome' = outcome
<1> SUFFICES ASSUME TypeInv, [Next]_vars, loop = "tell" PROVE outcome' = outcome
  OBVIOUS
<1>1. CASE Tell
  BY <1>1 DEF Tell, FeedBack, TypeInv, TypeOK
<1> QED
  BY <1>1 DEF Next, LoopStep, BeginWithoutTools, Begin, ModelAnswers, ModelCallsTools,
         RefuseUnknown, RefuseDenied, RefuseInvalid, PassGate, GateUnaudited, AskHuman,
         ApprovalStep, HeedApproved, HeedUnaudited, HeedRefused, StartTool, ToolEnds,
         Stop, ReloadPolicy, Outsiders, vars, gateVars

LEMMA NextEndsTold == GateInv /\ Trails /\ [Next]_vars => EndsTold'
<1> SUFFICES ASSUME GateInv, Trails, [Next]_vars, NEW c \in Calls, NEW e \in LastEvents,
                    Stored(c, e)'
             PROVE  outcome'[c] \in DOMAIN EventOf /\ e = EventOf[outcome'[c]]
  BY DEF EndsTold
<1> TypeInv
  BY DEF GateInv
<1>1. CASE Stored(c, e)
  <2>1. outcome[c] \in DOMAIN EventOf /\ e = EventOf[outcome[c]]
    BY <1>1 DEF Trails, EndsTold
  <2>2. outcome'[c] = outcome[c]
    BY <1>1, RunsAt DEF Trails, NoEndYet
  <2> QED
    BY <2>1, <2>2
<1>2. CASE c = at /\ loop = "tell" /\ e = EventOf[outcome[at]]
  <2>1. outcome[at] \in DOMAIN EventOf
    BY <1>2 DEF TypeInv, AtNext, Refused, Executed, EventOf
  <2> QED
    BY <1>2, <2>1, TellKeepsOutcome
<1> QED
  BY <1>1, <1>2, EndStored

\* The calls behind the one in the gate keep what they have.
LEMMA OthersWhole ==
    ASSUME GateInv, Trails, [Next]_vars, NEW c \in Calls, c # at, c <= answered,
           outcome'[c] # "audit_unavailable", StillNone(c)
    PROVE  trail'[c] \in FullTrails
<1> TypeInv
  BY DEF GateInv
<1> QED
  BY OthersKeepTrail, RunsAt, MissingKept DEF Trails, Whole

\* The call in the gate stays there with a longer trail.
LEMMA TrailGrows ==
    ASSUME GateInv, Trails, [Next]_vars, loop \in Inside, loop # "tell",
           at' = at, answered' = answered, RowsAt', AllRowsAt'
    PROVE  Trails'
<1> TypeInv /\ TypeOK
  BY DEF GateInv, TypeInv
<1>1. at \in Calls /\ at = answered + 1 /\ answered \in Nat /\ \A c \in Calls : c \in Nat
  BY InGate, GateAssumption DEF TypeOK, Calls
<1>2. (\A c \in Calls : trail[c] \in PartialTrails)'
  BY NextPart
<1>3. Whole'
  BY <1>1, OthersWhole DEF Whole, NoneMissing, StillNone
<1>4. Ahead'
  <2> SUFFICES ASSUME NEW c \in Calls, c > at PROVE trail'[c] = <<>>
    BY DEF Ahead
  <2>1. c # at
    BY <1>1
  <2> QED
    BY <2>1, OthersKeepTrail DEF Trails, Ahead
<1>5. NoEndYet'
  BY <1>1, EndStored DEF Trails, NoEndYet, Stored
<1> QED
  BY <1>2, <1>3, <1>4, <1>5, NextEndsTold DEF Trails

\* The call in the gate gets its result, and the next one has no rows yet.
LEMMA TrailFedBack ==
    ASSUME GateInv, Trails, [Next]_vars, loop \in Inside,
           NEW code, FeedBack(at, code),
           code # "audit_unavailable" /\ StillNone(at) => trail'[at] \in FullTrails
    PROVE  Trails'
<1> TypeInv /\ TypeOK
  BY DEF GateInv, TypeInv
<1>1. at \in Calls /\ at = answered + 1 /\ answered \in Nat /\ \A c \in Calls : c \in Nat
  BY InGate, GateAssumption DEF TypeOK, Calls
<1>2. (\A c \in Calls : trail[c] \in PartialTrails)'
  BY NextPart
<1>3. /\ answered' = at /\ outcome'[at] = code
      /\ \/ at' = at + 1 /\ loop' = "gate"
         \/ at' = at /\ loop' = "model"
  BY <1>1 DEF FeedBack, TypeOK
<1>4. Whole'
  <2> SUFFICES ASSUME NEW c \in Calls, c <= answered', outcome'[c] # "audit_unavailable",
                      StillNone(c)
               PROVE  trail'[c] \in FullTrails
    BY DEF Whole, NoneMissing, StillNone
  <2>1. CASE c = at
    BY <2>1, <1>3
  <2>2. CASE c # at
    BY <2>2, <1>1, <1>3, OthersWhole
  <2> QED
    BY <2>1, <2>2
<1>5. Ahead'
  BY <1>1, <1>3, OthersKeepTrail DEF Trails, Ahead
<1>6. loop' = "gate" => at' \in Calls /\ trail'[at'] = <<>>
  <2>1. loop' = "gate" => at' \in Calls
    BY NextInGate DEF Inside
  <2> QED
    BY <2>1, <1>1, <1>3, OthersKeepTrail DEF Trails, Ahead
<1>7. NoEndYet'
  BY <1>3, <1>6 DEF NoEndYet, Stored, Inside
<1>8. RowsAt' /\ AllRowsAt'
  BY <1>3, <1>6 DEF RowsAt, AllRowsAt, TrailAt
<1> QED
  BY <1>2, <1>4, <1>5, <1>7, <1>8, NextEndsTold DEF Trails

\* The loop is outside the gate after a step that answers nothing.
LEMMA TrailLeft ==
    ASSUME GateInv, Trails, [Next]_vars, at' = at, answered' = answered,
           loop' \notin Inside
    PROVE  Trails'
<1> TypeInv /\ TypeOK
  BY DEF GateInv, TypeInv
<1>1. /\ answered \in Nat /\ \A c \in Calls : c \in Nat
      /\ loop \in Inside => at \in Calls /\ at = answered + 1
  BY InGate, GateAssumption DEF TypeOK, Calls
<1>2. (\A c \in Calls : trail[c] \in PartialTrails)'
  BY NextPart
<1>3. Whole'
  <2> SUFFICES ASSUME NEW c \in Calls, c <= answered, outcome'[c] # "audit_unavailable",
                      StillNone(c)
               PROVE  trail'[c] \in FullTrails
    BY DEF Whole, NoneMissing, StillNone
  <2>1. CASE loop \in Inside
    BY <1>1, <2>1, OthersWhole
  <2>2. CASE loop \notin Inside
    <3>1. trail' = trail /\ missing' = missing /\ outcome' = outcome
      BY <2>2, Writes, RunsAt
    <3> QED
      BY <3>1 DEF Trails, Whole, NoneMissing, StillNone
  <2> QED
    BY <2>1, <2>2
<1>4. Ahead'
  <2> SUFFICES ASSUME NEW c \in Calls, c > at PROVE trail'[c] = <<>>
    BY DEF Ahead
  <2>1. c # at
    BY <1>1 DEF TypeOK
  <2> QED
    BY <2>1, OthersKeepTrail DEF Trails, Ahead
<1>5. NoEndYet' /\ RowsAt' /\ AllRowsAt'
  BY DEF NoEndYet, RowsAt, AllRowsAt, Inside
<1> QED
  BY <1>2, <1>3, <1>4, <1>5, NextEndsTold DEF Trails

LEMMA NextTrails == GateInv /\ Trails /\ [Next]_vars => Trails'
<1> SUFFICES ASSUME GateInv, Trails, [Next]_vars PROVE Trails'
  OBVIOUS
<1>a. TypeInv /\ TypeOK /\ AtNext
  BY DEF GateInv, TypeInv
<1>b. loop \in Inside => at \in Calls
  BY <1>a, InGate
<1>c. loop \in Inside =>
        \A event \in Events : Record(at, event) =>
            /\ \E m \in Maybe({event}) : trail'[at] = trail[at] \o m
            /\ StillNone(at) => trail'[at] = Append(trail[at], event)
  BY <1>a, <1>b, RecordMaybe, RecordWhole
<1>d. /\ "requested" \in Events /\ "approval_requested" \in Events
      /\ "approval_approved" \in Events /\ "started" \in Events
  BY DEF Events
<1>e. loop \in Inside => (StillNone(at) => NoneMissing(at))
  BY <1>a, <1>b, MissingKept
<1>f. \A event \in Events : trail[at] = <<>> /\ loop \in Inside =>
        /\ \A m \in Maybe({event}) : trail[at] \o m = m
        /\ Append(trail[at], event) = <<event>>
  <2> SUFFICES ASSUME NEW event \in Events, trail[at] = <<>>
               PROVE  /\ \A m \in Maybe({event}) : trail[at] \o m = m
                      /\ Append(trail[at], event) = <<event>>
    OBVIOUS
  <2>1. \A m \in Maybe({event}) : m \in Seq({event})
    BY MaybeType
  <2> QED
    BY <2>1, ConcatEmptySeq
<1>1. CASE RefuseUnknown \/ RefuseDenied \/ RefuseInvalid
  <2>1. PICK code \in {"unknown_tool", "tool_denied", "invalid_arguments"} :
          outcome' = [outcome EXCEPT ![at] = code]
    BY <1>1 DEF RefuseUnknown, RefuseDenied, RefuseInvalid, Refuse
  <2>2. /\ loop = "gate" /\ loop' = "tell" /\ Record(at, "requested")
        /\ UNCHANGED <<at, answered>>
    BY <1>1 DEF RefuseUnknown, RefuseDenied, RefuseInvalid, Refuse
  <2>3. outcome'[at] = code
    BY <1>a, <1>b, <2>1, <2>2 DEF TypeOK, Inside
  <2>4. trail[at] = <<>>
    BY <2>2 DEF Trails, RowsAt
  <2>5. /\ trail'[at] \in Maybe({"requested"})
        /\ StillNone(at) => trail'[at] = <<"requested">>
    BY <1>c, <1>d, <1>f, <2>2, <2>4 DEF Inside
  <2>6. RowsAt' /\ AllRowsAt'
    BY <2>2, <2>3, <2>5 DEF RowsAt, AllRowsAt, TrailAt, NoneMissing, StillNone
  <2> QED
    BY <2>2, <2>6, TrailGrows DEF Inside
<1>2. CASE PassGate
  <2>1. /\ loop = "gate" /\ loop' \in {"ask", "start"} /\ AddRow(at, "requested")
        /\ UNCHANGED <<at, answered>>
    BY <1>2 DEF PassGate, RecordPre
  <2>2. trail'[at] = <<"requested">>
    <3>1. trail'[at] = Append(trail[at], "requested")
      BY <1>a, <1>b, <2>1 DEF AddRow, TypeOK, Inside
    <3> QED
      BY <1>d, <1>f, <2>1, <3>1 DEF Trails, RowsAt, Inside
  <2>3. RowsAt' /\ AllRowsAt'
    BY <2>1, <2>2, JustRequested DEF RowsAt, AllRowsAt, TrailAt, Openings
  <2> QED
    BY <2>1, <2>3, TrailGrows DEF Inside
<1>3. CASE GateUnaudited \/ HeedUnaudited
  <2>1. loop \in Inside /\ FeedBack(at, "audit_unavailable")
    BY <1>3 DEF GateUnaudited, HeedUnaudited, Inside
  <2> QED
    BY <2>1, TrailFedBack
<1>4. CASE AskHuman
  <2>1. /\ loop = "ask" /\ loop' = "approval" /\ Record(at, "approval_requested")
        /\ UNCHANGED <<at, answered>>
    BY <1>4 DEF AskHuman
  <2>2. trail[at] = <<"requested">>
    BY <2>1 DEF Trails, RowsAt
  <2>3. /\ trail'[at] \in Waited
        /\ StillNone(at) => trail'[at] = <<"requested", "approval_requested">>
    BY <1>c, <1>d, <2>1, <2>2, JustRequested, AppendOne DEF Inside
  <2>4. RowsAt' /\ AllRowsAt'
    BY <2>1, <2>3 DEF RowsAt, AllRowsAt, TrailAt, NoneMissing, StillNone
  <2> QED
    BY <2>1, <2>4, TrailGrows DEF Inside
<1>5. CASE HeedApproved
  <2>1. /\ loop = "approval" /\ loop' = "start" /\ AddRow(at, "approval_approved")
        /\ UNCHANGED <<at, answered>>
    BY <1>5 DEF HeedApproved, RecordPre
  <2>2. at \in Calls /\ trail[at] \in Seq(Events) /\ trail[at] \in Waited
    BY <1>a, <1>b, <2>1 DEF TypeOK, Trails, RowsAt, Inside
  <2>3. trail'[at] = Append(trail[at], "approval_approved")
    BY <1>a, <2>1, <2>2 DEF AddRow, TypeOK
  <2>4. trail'[at] \in PartialOpenings
    <3>1. trail'[at] = trail[at] \o <<"approval_approved">>
      BY <1>d, <2>2, <2>3, AppendIsConcat
    <3> QED
      BY <2>2, <3>1, ApprovedPart
  <2>5. StillNone(at) => trail'[at] \in Openings
    <3>1. StillNone(at) => trail[at] = <<"requested", "approval_requested">>
      BY <1>e, <2>1 DEF Trails, AllRowsAt, TrailAt, Inside
    <3> QED
      BY <2>3, <3>1, AppendTwo DEF Openings
  <2>6. RowsAt' /\ AllRowsAt'
    BY <2>1, <2>4, <2>5 DEF RowsAt, AllRowsAt, TrailAt, NoneMissing, StillNone
  <2> QED
    BY <2>1, <2>6, TrailGrows DEF Inside
<1>6. CASE HeedRefused
  <2>1. PICK code \in {"approval_denied", "approval_expired"} :
          outcome' = [outcome EXCEPT ![at] = code]
    BY <1>6 DEF HeedRefused
  <2>2. loop = "approval" /\ loop' = "tell" /\ UNCHANGED <<at, answered, trail, missing>>
    BY <1>6 DEF HeedRefused
  <2>3. outcome'[at] = code
    BY <1>a, <1>b, <2>1, <2>2 DEF TypeOK, Inside
  <2>4. RowsAt' /\ AllRowsAt'
    BY <2>2, <2>3 DEF Trails, RowsAt, AllRowsAt, TrailAt, NoneMissing, Inside
  <2> QED
    BY <2>2, <2>4, TrailGrows DEF Inside
<1>7. CASE StartTool
  <2>1. /\ loop = "start" /\ loop' = "run" /\ Record(at, "started")
        /\ UNCHANGED <<at, answered>>
    BY <1>7 DEF StartTool
  <2>2. trail[at] \in PartialOpenings
    BY <2>1 DEF Trails, RowsAt
  <2>3. trail'[at] \in BeforeEnd
    BY <1>c, <1>d, <2>1, <2>2, StartedPart DEF Inside
  <2>4. StillNone(at) => trail'[at] \in Started
    <3>1. StillNone(at) => trail[at] \in Openings
      BY <1>e, <2>1 DEF Trails, AllRowsAt, TrailAt, Inside
    <3>2. trail[at] \in Openings => Append(trail[at], "started") \in Started
      BY AppendOne, AppendThree DEF Openings, Started
    <3> QED
      BY <1>c, <1>d, <2>1, <3>1, <3>2 DEF Inside
  <2>5. RowsAt' /\ AllRowsAt'
    BY <2>1, <2>3, <2>4 DEF RowsAt, AllRowsAt, TrailAt, NoneMissing, StillNone
  <2> QED
    BY <2>1, <2>5, TrailGrows DEF Inside
<1>8. CASE ToolEnds
  <2>1. PICK code \in Executed : outcome' = [outcome EXCEPT ![at] = code]
    BY <1>8 DEF ToolEnds, Executed
  <2>2. loop = "run" /\ loop' = "tell" /\ UNCHANGED <<at, answered, trail, missing>>
    BY <1>8 DEF ToolEnds
  <2>3. outcome'[at] = code
    BY <1>a, <1>b, <2>1, <2>2 DEF TypeOK, Inside
  <2>4. RowsAt' /\ AllRowsAt'
    BY <2>2, <2>3 DEF Trails, RowsAt, AllRowsAt, TrailAt, NoneMissing, Inside
  <2> QED
    BY <2>2, <2>4, TrailGrows DEF Inside
<1>9. CASE Tell
  <2>1. loop = "tell" /\ Record(at, EventOf[outcome[at]]) /\ FeedBack(at, outcome[at])
    BY <1>9 DEF Tell
  <2>2. EventOf[outcome[at]] \in Events
    <3>1. outcome[at] \in DOMAIN EventOf
      BY <1>a, <2>1 DEF AtNext, Refused, Executed, EventOf
    <3> QED
      BY <3>1 DEF Events
  <2>3. StillNone(at) => trail'[at] \in FullTrails
    <3>1. StillNone(at) =>
            /\ trail'[at] = Append(trail[at], EventOf[outcome[at]])
            /\ NoneMissing(at)
      BY <1>c, <1>e, <2>1, <2>2 DEF Inside
    <3> QED
      BY <2>1, <3>1, TrailEnds DEF Trails, AllRowsAt, TrailAt, Inside
  <2> QED
    BY <2>1, <2>3, TrailFedBack DEF Inside
<1>10. CASE ModelCallsTools
  <2>1. /\ loop = "model" /\ loop' \in {"limit", "gate"}
        /\ at' = at \/ at' = asked + 1
        /\ UNCHANGED <<answered, outcome, trail, missing>>
    BY <1>10 DEF ModelCallsTools
  <2>2. at = asked /\ asked \in Nat /\ \A c \in Calls : c \in Nat
    BY <1>a, <2>1, GateAssumption DEF AtNext, TypeOK, Calls
  <2>3. loop' = "gate" => at' \in Calls /\ at' = asked + 1
    BY <1>10, NextInGate, <1>a DEF ModelCallsTools, Inside
  <2>4. loop' = "gate" => trail'[at'] = <<>>
    BY <2>1, <2>2, <2>3 DEF Trails, Ahead
  <2>5. RowsAt' /\ AllRowsAt' /\ NoEndYet'
    BY <2>1, <2>4 DEF RowsAt, AllRowsAt, TrailAt, NoEndYet, Stored, Inside
  <2>6. Ahead'
    BY <2>1, <2>2 DEF Trails, Ahead
  <2>7. Whole'
    BY <2>1 DEF Trails, Whole, NoneMissing
  <2>8. (\A c \in Calls : trail[c] \in PartialTrails)'
    BY NextPart
  <2> QED
    BY <2>5, <2>6, <2>7, <2>8, NextEndsTold DEF Trails
<1>11. CASE BeginWithoutTools \/ Begin \/ ModelAnswers \/ Stop
  <2>1. UNCHANGED <<at, answered>> /\ loop' \notin Inside
    BY <1>11 DEF BeginWithoutTools, Begin, ModelAnswers, Stop, Inside
  <2> QED
    BY <2>1, TrailLeft
<1>12. CASE ApprovalStep \/ ReloadPolicy \/ Outsiders \/ UNCHANGED vars
  <2>1. UNCHANGED <<at, answered, outcome, trail, missing, loop>>
    BY <1>12 DEF ApprovalStep, ReloadPolicy, Outsiders, vars, gateVars
  <2> QED
    BY <2>1 DEF Trails, EndsTold, Whole, Ahead, NoEndYet, RowsAt, AllRowsAt, TrailAt,
                NoneMissing, Stored
<1> QED
  BY <1>1, <1>2, <1>3, <1>4, <1>5, <1>6, <1>7, <1>8, <1>9, <1>10, <1>11, <1>12
     DEF Next, LoopStep

\* The audit table can be read whatever could not be written and wherever the turn
\* was stopped: the rows of a call are a legal history of which only events that
\* gate nothing are missing, the end they show is the result the model is given,
\* and nothing is missing from an answered call whose writes succeeded.
THEOREM LegalTrails == Spec => []TrailLegal
<1>1. Init => Trails
  <2> SUFFICES ASSUME Init PROVE Trails
    OBVIOUS
  <2>1. (\A c \in Calls : trail[c] = <<>>) /\ loop = "begin" /\ answered = 0
    BY DEF Init
  <2>2. \A c \in Calls : ~(c <= 0)
    BY GateAssumption DEF Calls
  <2>3. <<>> \in PartialTrails
    <3>1. <<>> \o <<>> \in PartialTrails
      BY RefusedPart, MaybeNone
    <3>2. <<>> \in Seq(Events)
      OBVIOUS
    <3> QED
      BY <3>1, <3>2, ConcatEmptySeq
  <2> QED
    BY <2>1, <2>2, <2>3
       DEF Trails, EndsTold, Whole, Ahead, NoEndYet, RowsAt, AllRowsAt, Stored, Inside
<1>2. Trails => TrailLegal
  BY DEF Trails, EndsTold, Whole, TrailLegal
<1> QED
  BY <1>1, <1>2, NextTrails, GateInvariant, PTL DEF Spec

=============================================================================
