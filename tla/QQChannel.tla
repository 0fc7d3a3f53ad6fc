------------------------------ MODULE QQChannel ------------------------------
(***************************************************************************)
(* The QQ channel: each private message runs as a task of its own, as a    *)
(* slash command or as an agent turn that may ask for an approval, answers *)
(* in chunks numbered by msg_seq, and can be cancelled by /stop or by the  *)
(* shutdown.  The platform refuses a second (msg_id, msg_seq).             *)
(*                                                                         *)
(* A conversation row is named by the insert that made it; the lock of a   *)
(* conversation is FIFO.  A turn asks for at most one approval, and the    *)
(* request carries the name of its message.                                *)
(***************************************************************************)
EXTENDS Naturals, FiniteSets, Sequences, SequencesExt

CONSTANTS
    Users,       \* openids
    Msgs,        \* bound: incoming messages
    UserOf,      \* the sender of each message
    KindsOf,     \* what each message may be: a turn, or a command
    Askers,      \* bound: the turns whose model calls an ask-tool
    MaxChunks,   \* bound: chunks of one reply
    MemoryLimit, \* max_memories_per_scope
    None

Kinds == {"turn", "stop", "new", "remember", "forget", "show"}

ASSUME QQAssumption ==
    /\ UserOf \in [Msgs -> Users]
    /\ KindsOf \in [Msgs -> SUBSET Kinds] /\ Askers \subseteq Msgs
    /\ MaxChunks \in Nat /\ MemoryLimit \in Nat \ {0}
    /\ IsFiniteSet(Msgs) /\ None \notin Msgs

VARIABLES
    process,   \* "up", "drained" (brokers shut down), "down" (tasks cancelled)
    kind,      \* what each message is
    phase,     \* where its task is
    inFlight,  \* QQChannel._in_flight: the registered task of each user
    cancelled, \* tasks with a CancelledError still to be delivered
    row,       \* conversation rows of each user
    rowCount,  \* rows inserted so far (AUTOINCREMENT)
    conv,      \* the row each turn looked up
    queue,     \* tasks that hold or wait for a conversation lock, in order
    size,      \* chunks of the reply
    received,  \* what the user has of the answer to a message: (seq, text) pairs
    lost,      \* messages one of whose sends failed, or that were cancelled
    pending,   \* QQApprovalBroker._pending
    future,    \* the decision of each request
    lapsed,    \* requests past expires_at
    first,     \* history: whether the first click on the request was consent
    ran,       \* history: whether the ask-tool of a turn ran, and on what click
    memories,  \* memories of each user's scope
    peak       \* history: the most /remember of a user between count and insert

rowVars    == <<row, rowCount>>
answerVars == <<size, received, lost>>
brokerVars == <<pending, future, lapsed, first>>
memoryVars == <<memories, peak>>
stopVars   == <<inFlight, cancelled>>
turnVars   == <<conv, queue, ran>>
vars == <<process, kind, phase, stopVars, rowVars, turnVars, answerVars, brokerVars, memoryVars>>

AtRest    == {"idle", "done"}
InLock    == {"lock", "think", "card", "wait"}
Decisions == {"approved", "denied"}
Buttons   == Decisions \cup {"malformed"}
Texts     == {"answer", "notice"}

Is(m, p)       == phase[m] = p /\ m \notin cancelled
Goto(m, p)     == phase' = [phase EXCEPT ![m] = p]
Seqs(m)        == {r[1] : r \in received[m]}
MaxRow         == Cardinality(Msgs)
Remembering(u) == {m \in Msgs : UserOf[m] = u /\ phase[m] = "counted"}
PeakOf(a, b)   == IF a > b THEN a ELSE b

-----------------------------------------------------------------------------
Init ==
    /\ process = "up"
    /\ kind = [m \in Msgs |-> "turn"]
    /\ phase = [m \in Msgs |-> "idle"]
    /\ inFlight = [u \in Users |-> None]
    /\ cancelled = {}
    /\ row = [u \in Users |-> {}]
    /\ rowCount = 0
    /\ conv = [m \in Msgs |-> 0]
    /\ queue = <<>>
    /\ size = [m \in Msgs |-> 0]
    /\ received = [m \in Msgs |-> {}]
    /\ lost = {}
    /\ pending = {}
    /\ future = [m \in Msgs |-> "none"]
    /\ lapsed = {}
    /\ first = [m \in Msgs |-> "none"]
    /\ ran = [m \in Msgs |-> "no"]
    /\ memories = [u \in Users |-> 0]
    /\ peak = [u \in Users |-> 0]

\* on_c2c_message_create: a known slash command or a turn; a message without
\* sender or text is ignored.
Receive(m) ==
    /\ process # "down"
    /\ phase[m] = "idle"
    /\ \E k \in KindsOf[m] :
          /\ kind' = [kind EXCEPT ![m] = k]
          /\ Goto(m, IF k = "turn" THEN "find" ELSE "command")
    /\ UNCHANGED <<process, stopVars, rowVars, turnVars, answerVars, brokerVars, memoryVars>>

-----------------------------------------------------------------------------
(* A turn: the conversation, the slot of /stop, the lock                    *)

\* The turn is registered, and waits for the lock of its conversation.
Register(m, r) ==
    /\ conv' = [conv EXCEPT ![m] = r]
    /\ inFlight' = [inFlight EXCEPT ![UserOf[m]] = m]
    /\ queue' = Append(queue, m)
    /\ Goto(m, "lock")

FindRow(m) ==
    /\ Is(m, "find")
    /\ LET found == row[UserOf[m]] IN
       \/ /\ Cardinality(found) = 1
          /\ \E r \in found : Register(m, r)
       \/ /\ found = {}
          /\ Goto(m, "insert")
          /\ UNCHANGED <<conv, queue, inFlight>>
       \/ /\ Cardinality(found) > 1    \* scalar_one_or_none raises: no answer
          /\ Goto(m, "done")
          /\ UNCHANGED <<conv, queue, inFlight>>
    /\ UNCHANGED <<process, kind, cancelled, rowVars, ran, answerVars, brokerVars, memoryVars>>

AddRow(u) ==
    /\ rowCount' = rowCount + 1
    /\ row' = [row EXCEPT ![u] = @ \cup {rowCount'}]

InsertRow(m) ==
    /\ Is(m, "insert")
    /\ AddRow(UserOf[m])
    /\ Register(m, rowCount')
    /\ UNCHANGED <<process, kind, cancelled, ran, answerVars, brokerVars, memoryVars>>

\* asyncio.Lock serves its waiters in order.
HasLock(m) ==
    \E i \in DOMAIN queue :
        queue[i] = m /\ \A j \in 1 .. (i - 1) : conv[queue[j]] # conv[m]

\* The lock is taken and the user's message stored, which the foreign key
\* refuses once /new has dropped the conversation.
EnterTurn(m) ==
    /\ Is(m, "lock")
    /\ HasLock(m)
    /\ \/ /\ conv[m] \in row[UserOf[m]]
          /\ Goto(m, "think")
          /\ UNCHANGED queue
       \/ /\ conv[m] \notin row[UserOf[m]]
          /\ Goto(m, "error")
          /\ queue' = Remove(queue, m)
    /\ UNCHANGED <<process, kind, stopVars, rowVars, conv, ran, answerVars, brokerVars, memoryVars>>

\* The finally that closes a turn pops the user's slot, whoever holds it.
PopSlot(m) == inFlight' = [inFlight EXCEPT ![UserOf[m]] = None]

\* process_message returns: the reply is stored and the lock released.
Answer(m) ==
    /\ Is(m, "think")
    /\ conv[m] \in row[UserOf[m]]
    /\ queue' = Remove(queue, m)
    /\ \E n \in 0 .. MaxChunks :
          /\ size' = [size EXCEPT ![m] = n]
          /\ Goto(m, IF n = 0 THEN "done" ELSE "reply")
          /\ IF n = 0 THEN PopSlot(m) ELSE UNCHANGED inFlight
    /\ UNCHANGED <<process, kind, cancelled, rowVars, conv, ran, received, lost, brokerVars, memoryVars>>

\* An AgentError, or the foreign key refuses the reply: a notice follows.
AnswerFails(m) ==
    /\ Is(m, "think")
    /\ Goto(m, "error")
    /\ queue' = Remove(queue, m)
    /\ UNCHANGED <<process, kind, stopVars, rowVars, conv, ran, answerVars, brokerVars, memoryVars>>

-----------------------------------------------------------------------------
(* QQApprovalBroker                                                         *)

\* request_approval registers the request, then sends the card.
RequestApproval(m) ==
    /\ Is(m, "think")
    /\ m \in Askers /\ future[m] = "none"
    /\ pending' = pending \cup {m}
    /\ future' = [future EXCEPT ![m] = "open"]
    /\ Goto(m, "card")
    /\ UNCHANGED <<process, kind, stopVars, rowVars, turnVars, answerVars, lapsed, first, memoryVars>>

SetFuture(m, d) ==
    future' = IF future[m] = "open" THEN [future EXCEPT ![m] = d] ELSE future

\* The call has returned: nobody reads its future or its deadline again.
RequestOver(m) ==
    /\ pending' = pending \ {m}
    /\ future' = [future EXCEPT ![m] = "over"]
    /\ lapsed' = lapsed \ {m}
    /\ first' = [first EXCEPT ![m] = "none"]

CardSent(m) ==
    /\ Is(m, "card")
    /\ Goto(m, "wait")
    /\ UNCHANGED <<process, kind, stopVars, rowVars, turnVars, answerVars, brokerVars, memoryVars>>

\* A card that cannot be sent denies the call.
CardFails(m) ==
    /\ Is(m, "card")
    /\ Goto(m, "think")
    /\ RequestOver(m)
    /\ UNCHANGED <<process, kind, stopVars, rowVars, turnVars, answerVars, memoryVars>>

Lapse(m) ==
    /\ phase[m] \in {"card", "wait"} /\ m \notin lapsed
    /\ lapsed' = lapsed \cup {m}
    /\ UNCHANGED <<process, kind, phase, stopVars, rowVars, turnVars, answerVars,
                   pending, future, first, memoryVars>>

\* Mutant: the clicker's principal is not compared.
ValidFromAnyone(m, user, choice) == m \notin lapsed /\ choice \in Decisions

\* Only the openid the card was sent to, in time, and one of the two buttons.
Valid(m, user, choice) ==
    user = UserOf[m] /\ m \notin lapsed /\ choice \in Decisions

\* _resolve: a valid click decides, any other click voids the request.
Click(m, user, choice) ==
    /\ m \in pending
    /\ first' = [first EXCEPT ![m] =
          IF user = UserOf[m] /\ choice = "approved" /\ m \notin lapsed THEN "consent" ELSE "other"]
    /\ SetFuture(m, IF Valid(m, user, choice) THEN choice ELSE "expired")
    /\ pending' = pending \ {m}
    /\ UNCHANGED <<process, kind, phase, stopVars, rowVars, turnVars, answerVars, lapsed, memoryVars>>

\* wait_for returns; the tool runs only if the call was approved.
Decided(m) ==
    /\ Is(m, "wait")
    /\ future[m] # "open"
    /\ Goto(m, "think")
    /\ RequestOver(m)
    /\ ran' = IF future[m] = "approved" THEN [ran EXCEPT ![m] = first[m]] ELSE ran
    /\ UNCHANGED <<process, kind, stopVars, rowVars, conv, queue, answerVars, memoryVars>>

\* Mutant: the wait has no timeout.
TimeOutNever(m) == FALSE /\ UNCHANGED vars

\* The timer wins over a decision that the task has yet to resume with.
TimeOut(m) ==
    /\ Is(m, "wait")
    /\ m \in lapsed
    /\ Goto(m, "think")
    /\ RequestOver(m)
    /\ UNCHANGED <<process, kind, stopVars, rowVars, turnVars, answerVars, memoryVars>>

-----------------------------------------------------------------------------
(* Answers                                                                  *)

\* Mutant: every chunk carries msg_seq 1.
ChunkSeqConstant(m) == 1

\* _send_long numbers the chunks 1, 2, 3, ...
ChunkSeq(m) == Cardinality(received[m]) + 1

Accepted(m, seq, text) ==
    /\ seq \notin Seqs(m)
    /\ received' = [received EXCEPT ![m] = @ \cup {<<seq, text>>}]

Closed(m) ==
    /\ Goto(m, "done")
    /\ IF kind[m] = "turn" THEN PopSlot(m) ELSE UNCHANGED inFlight

SendChunk(m) ==
    /\ Is(m, "reply")
    /\ Accepted(m, ChunkSeq(m), "answer")
    /\ IF Cardinality(received'[m]) = size[m]
       THEN Closed(m)
       ELSE UNCHANGED <<phase, inFlight>>
    /\ UNCHANGED <<process, kind, cancelled, rowVars, turnVars, size, lost, brokerVars, memoryVars>>

\* message.reply raises: the platform refuses the pair, or the call fails after
\* or before the chunk has arrived.  The rest is not sent.
SendFails(m) ==
    /\ Is(m, "reply")
    /\ \/ ChunkSeq(m) \in Seqs(m) /\ UNCHANGED <<received, lost>>
       \/ lost' = lost \cup {m} /\ (UNCHANGED received \/ Accepted(m, ChunkSeq(m), "answer"))
    /\ Closed(m)
    /\ UNCHANGED <<process, kind, cancelled, rowVars, turnVars, size, brokerVars, memoryVars>>

\* _safe_reply leaves msg_seq at the SDK's default, 1.
NoticeArrives(m) == Accepted(m, 1, "notice")

SendNotice(m) ==
    /\ phase[m] = "stopping" \/ Is(m, "error")
    /\ m \notin cancelled
    /\ \/ NoticeArrives(m) /\ UNCHANGED lost
       \/ 1 \in Seqs(m) /\ UNCHANGED <<received, lost>>
       \/ lost' = lost \cup {m} /\ UNCHANGED received
    /\ Closed(m)
    /\ UNCHANGED <<process, kind, cancelled, rowVars, turnVars, size, brokerVars, memoryVars>>

\* A send that is cancelled may have reached the user.
CutOff(m) ==
    \/ UNCHANGED received
    \/ phase[m] = "reply" /\ Accepted(m, ChunkSeq(m), "answer")
    \/ phase[m] \in {"error", "stopping"} /\ NoticeArrives(m)

\* The CancelledError is delivered.  A registered turn leaves the lock and the
\* broker and sends the notice; a card being sent leaves its request behind.
Interrupt(m) ==
    /\ m \in cancelled
    /\ cancelled' = cancelled \ {m}
    /\ CutOff(m) /\ lost' = lost \cup {m}
    /\ queue' = Remove(queue, m)
    /\ IF phase[m] = "wait" THEN RequestOver(m) ELSE UNCHANGED brokerVars
    /\ \/ /\ kind[m] = "turn" /\ phase[m] \notin {"find", "insert", "stopping"}
          /\ Goto(m, "stopping")
          /\ UNCHANGED inFlight
       \/ /\ kind[m] = "turn" /\ phase[m] = "stopping"
          /\ Closed(m)
       \/ /\ kind[m] # "turn" \/ phase[m] \in {"find", "insert"}
          /\ Goto(m, "done")
          /\ UNCHANGED inFlight
    /\ UNCHANGED <<process, kind, rowVars, conv, ran, size, memoryVars>>

-----------------------------------------------------------------------------
(* Commands                                                                 *)

\* The reply of a command; only a display may be longer than a chunk.
CommandReply(m, sizes) ==
    \E n \in sizes : size' = [size EXCEPT ![m] = n] /\ Goto(m, "reply")

Displays == 1 .. MaxChunks

\* cmd_stop: the registered task is cancelled and sends its own notice.
Stop(m) ==
    /\ Is(m, "command") /\ kind[m] = "stop"
    /\ LET t == inFlight[UserOf[m]] IN
       \/ /\ t # None /\ phase[t] # "done"
          /\ cancelled' = cancelled \cup {t}
          /\ Goto(m, "done")
          /\ UNCHANGED size
       \/ /\ t = None \/ (t # None /\ phase[t] = "done")
          /\ CommandReply(m, {1})
          /\ UNCHANGED cancelled
    /\ PopSlot(m)
    /\ UNCHANGED <<process, kind, rowVars, turnVars, received, lost, brokerVars, memoryVars>>

\* cmd_new drops the conversation and, in a second transaction, inserts another.
NewDrops(m) ==
    /\ Is(m, "command") /\ kind[m] = "new"
    /\ \/ /\ Cardinality(row[UserOf[m]]) <= 1
          /\ row' = [row EXCEPT ![UserOf[m]] = {}]
          /\ Goto(m, "dropped")
          /\ UNCHANGED size
       \/ /\ Cardinality(row[UserOf[m]]) > 1
          /\ CommandReply(m, {1})
          /\ UNCHANGED row
    /\ UNCHANGED <<process, kind, stopVars, rowCount, turnVars, received, lost, brokerVars, memoryVars>>

NewInserts(m) ==
    /\ Is(m, "dropped")
    /\ AddRow(UserOf[m])
    /\ CommandReply(m, {1})
    /\ UNCHANGED <<process, kind, stopVars, turnVars, received, lost, brokerVars, memoryVars>>

\* Mutant: the limit is not checked.
BelowLimitUnchecked(u) == TRUE

BelowLimit(u) == memories[u] < MemoryLimit

\* remember_memory counts ...
RememberCounts(m) ==
    /\ Is(m, "command") /\ kind[m] = "remember"
    /\ \/ /\ BelowLimit(UserOf[m])
          /\ Goto(m, "counted")
          /\ peak' = [peak EXCEPT ![UserOf[m]] = PeakOf(@, Cardinality(Remembering(UserOf[m])) + 1)]
          /\ UNCHANGED size
       \/ /\ ~BelowLimit(UserOf[m])
          /\ CommandReply(m, {1})
          /\ UNCHANGED peak
    /\ UNCHANGED <<process, kind, stopVars, rowVars, turnVars, received, lost, brokerVars, memories>>

\* ... and inserts, in another session; the insert may fail.
RememberInserts(m) ==
    /\ Is(m, "counted")
    /\ memories' \in {memories, [memories EXCEPT ![UserOf[m]] = @ + 1]}
    /\ CommandReply(m, {1})
    /\ UNCHANGED <<process, kind, stopVars, rowVars, turnVars, received, lost, brokerVars, peak>>

Forgotten(m, left) ==
    /\ Is(m, "command") /\ kind[m] = "forget"
    /\ memories' = [memories EXCEPT ![UserOf[m]] = left]
    /\ CommandReply(m, {1})
    /\ UNCHANGED <<process, kind, stopVars, rowVars, turnVars, received, lost, brokerVars, peak>>

\* /forget <id>: the delete is filtered by scope and id.
ForgetOne(m) == memories[UserOf[m]] > 0 /\ Forgotten(m, memories[UserOf[m]] - 1)

\* A usage error, an id the scope does not have, a failed delete, all without
\* CONFIRM.
ForgetNone(m) == Forgotten(m, memories[UserOf[m]])

ForgetAll(m) == Forgotten(m, 0)

\* The displays change nothing.
Shown(m, sizes) ==
    /\ Is(m, "command") /\ kind[m] = "show"
    /\ CommandReply(m, sizes)
    /\ UNCHANGED <<process, kind, stopVars, rowVars, turnVars, received, lost, brokerVars, memoryVars>>

\* /status and /context look the conversation up, which raises if there are two.
ShowConversation(m) ==
    Shown(m, IF Cardinality(row[UserOf[m]]) > 1 THEN {1} ELSE Displays)

\* /memories and /tool_audit: the rows of the scope; none, or a failed read, is
\* a short receipt.
ShowRows(m) == Shown(m, Displays)

\* /help, /user_status, /mcp_status, /infra_status, /schedule_status.
ShowConfig(m) == Shown(m, Displays)

-----------------------------------------------------------------------------
(* Shutdown                                                                 *)

\* QQApprovalBroker.shutdown answers every waiting caller.
DrainApprovals ==
    /\ process = "up"
    /\ process' = "drained"
    /\ future' = [m \in Msgs |-> IF m \in pending /\ future[m] = "open" THEN "expired" ELSE future[m]]
    /\ pending' = {}
    /\ UNCHANGED <<kind, phase, stopVars, rowVars, turnVars, answerVars, lapsed, first, memoryVars>>

\* _qq_shutdown_tasks cancels the client and every task of the channel.
CancelTasks ==
    /\ process = "drained"
    /\ process' = "down"
    /\ cancelled' = {m \in Msgs : phase[m] \notin AtRest}
    /\ UNCHANGED <<kind, phase, inFlight, rowVars, turnVars, answerVars, brokerVars, memoryVars>>

-----------------------------------------------------------------------------
Command(m) ==
    \/ Stop(m) \/ NewDrops(m) \/ NewInserts(m)
    \/ RememberCounts(m) \/ RememberInserts(m)
    \/ ForgetOne(m) \/ ForgetNone(m) \/ ForgetAll(m)
    \/ ShowConversation(m) \/ ShowRows(m) \/ ShowConfig(m)

Approval(m) == RequestApproval(m) \/ CardSent(m) \/ CardFails(m) \/ Decided(m) \/ TimeOut(m)

Turn(m) == FindRow(m) \/ InsertRow(m) \/ EnterTurn(m) \/ Answer(m) \/ AnswerFails(m)

Deliver(m) == SendChunk(m) \/ SendFails(m) \/ SendNotice(m) \/ Interrupt(m)

Step(m) == Turn(m) \/ Approval(m) \/ Command(m) \/ Deliver(m)

Next ==
    \/ \E m \in Msgs : Receive(m) \/ Step(m) \/ Lapse(m)
    \/ \E m \in Msgs, u \in Users, c \in Buttons : Click(m, u, c)
    \/ DrainApprovals \/ CancelTasks

Spec == Init /\ [][Next]_vars

\* The event loop never idles while a task is ready, HTTP and database calls
\* return, and clocks advance.
FairSpec == Spec /\ WF_vars(\E m \in Msgs : Step(m) \/ Lapse(m))

-----------------------------------------------------------------------------
(* Properties                                                               *)

\* Types of the channel's state.
QQTypeOK ==
    /\ process \in {"up", "drained", "down"}
    /\ kind \in [Msgs -> Kinds]
    /\ phase \in [Msgs -> AtRest \cup InLock \cup
                    {"find", "insert", "reply", "error", "stopping", "command", "dropped", "counted"}]
    /\ inFlight \in [Users -> Msgs \cup {None}]
    /\ cancelled \subseteq Msgs /\ lost \subseteq Msgs /\ pending \subseteq Msgs
    /\ lapsed \subseteq Msgs
    /\ ran \in [Msgs -> {"no", "none", "consent", "other"}]
    /\ rowCount \in 0 .. MaxRow /\ row \in [Users -> SUBSET (1 .. rowCount)]
    /\ conv \in [Msgs -> 0 .. rowCount]
    /\ queue \in Seq(Msgs)
    /\ size \in [Msgs -> 0 .. MaxChunks]
    /\ \A m \in Msgs : received[m] \subseteq (0 .. MaxChunks) \X Texts
    /\ future \in [Msgs -> Decisions \cup {"none", "open", "expired", "over"}]
    /\ first \in [Msgs -> {"none", "consent", "other"}]
    /\ memories \in [Users -> 0 .. (MemoryLimit + MaxRow)] /\ peak \in [Users -> 0 .. MaxRow]

Whole(m) == received[m] = {<<i, "answer">> : i \in 1 .. size[m]}

\* bot.py:306-311, "the sequence number must advance per chunk or only the first
\* chunk would land": what the user holds of an answer is its beginning, never
\* mixed with a notice, and all of it when no send failed and nobody stopped it.
AnswerWhole ==
    \A m \in Msgs :
        /\ \/ \E n \in 0 .. size[m] : received[m] = {<<i, "answer">> : i \in 1 .. n}
           \/ received[m] = {<<1, "notice">>}
        /\ phase[m] = "done" /\ size[m] > 0 /\ m \notin lost => Whole(m)

\* approval.py:342-353: an ask-tool of a QQ turn runs only if the first click
\* that found its request was the turn's own user's, an approval, and in time.
OwnerApproved ==
    \A m \in Msgs : ran[m] \in {"no", "consent"}

\* service.py:303-315 counts and inserts in two sessions: a scope may pass the
\* limit, by no more than the commands that ran at the same time.
LimitOvershoot ==
    \A u \in Users :
        memories[u] + Cardinality(Remembering(u)) + 1 <= MemoryLimit + PeakOf(peak[u], 1)

\* Every message that came in is done with in the end: no lock, approval,
\* notice, /stop or shutdown leaves its task behind.
EveryMessageEnds == <>[](\A m \in Msgs : phase[m] \in AtRest)
=============================================================================
