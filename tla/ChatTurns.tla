----------------------------- MODULE ChatTurns -----------------------------
(***************************************************************************)
(* The life of a chat message in the Telegram process: the handler tasks   *)
(* that PTB runs concurrently (concurrent_updates), the conversation rows  *)
(* they look up and create, the per-conversation asyncio.Lock that         *)
(* AgentService.process_message holds, the transcript in the messages      *)
(* table, the in-flight slot that /stop reads, and /new, which replaces    *)
(* the conversation row while a turn may still be running.                 *)
(*                                                                         *)
(* One step of a task is the code it runs between two awaits that other    *)
(* tasks can observe.  A task is a message ("turn"), a /new ("reset") or a *)
(* /stop.  Images, memories and tools are the subject of other modules:    *)
(* here they are part of "think", which either yields a reply or fails.    *)
(***************************************************************************)
EXTENDS Naturals, Sequences, SequencesExt

CONSTANTS
    Turns,        \* handle_message tasks
    Resets,       \* cmd_new tasks
    Stops,        \* cmd_stop tasks
    Chats,        \* Telegram chats
    ChatOf,       \* the chat each task serves
    MaxConv,      \* bound: conversation rows ever inserted
    MaxRestarts,  \* bound: process restarts
    None          \* "no task"

Tasks   == Turns \cup Resets \cup Stops
ConvIds == 1 .. MaxConv

ASSUME TasksAssumption ==
    /\ Turns \cap Resets = {}
    /\ Turns \cap Stops = {}
    /\ Resets \cap Stops = {}
    /\ None \notin Tasks

ASSUME ChatsAssumption ==
    /\ ChatOf \in [Tasks -> Chats]
    /\ MaxConv \in Nat
    /\ MaxRestarts \in Nat

VARIABLES
    pc,         \* where each task is
    conv,       \* the conversation id a turn works on, or that a /new drops (0: none)
    rows,       \* conversations table: the task that inserted row c, or None
    lastConv,   \* SQLite's AUTOINCREMENT sequence of that table
    log,        \* messages table, per conversation and in id order
    history,    \* what a turn has read of its conversation
    holder,     \* AgentService._locks: the task inside the lock, or None
    queue,      \* AgentService._locks: the lock's waiters, first come first served
    inFlight,   \* bot_data["in_flight"]: the task /stop would cancel, or None
    cancelled,  \* tasks with a CancelledError still to be delivered
    result,     \* how a turn ends
    target,     \* the turn a /stop has cancelled, or None
    restarts

vars == <<pc, conv, rows, lastConv, log, history, holder, queue,
          inFlight, cancelled, result, target, restarts>>

db    == <<rows, lastConv, log>>
locks == <<holder, queue>>
stop  == <<inFlight, cancelled, target>>

-----------------------------------------------------------------------------
(* Positions.  "lookup" .. "create" precede registration in the slot.      *)

Holding    == {"read", "ask", "think", "answer"}   \* inside the lock
Registered == Holding \cup {"wait", "settle", "send", "notice"}
TurnPC     == Registered \cup {"idle", "create", "media", "done"}
ResetPC    == {"idle", "drop", "insert", "done"}
StopPC     == {"idle", "done"}

Message == [role : {"user", "assistant"}, turn : Turns]
User(t)      == [role |-> "user", turn |-> t]
Assistant(t) == [role |-> "assistant", turn |-> t]

RowsOf(chat) == {c \in ConvIds : rows[c] # None /\ ChatOf[rows[c]] = chat}
Exists(c)    == c \in ConvIds /\ rows[c] # None

Goto(t, from, to) ==
    /\ pc[t] = from
    /\ pc' = [pc EXCEPT ![t] = to]

\* Mutant: without sqlite_autoincrement a deleted last id is handed out again.
InsertRowReusingId(t) ==
    /\ LET live == {c \in ConvIds : rows[c] # None} IN
       \E c \in ConvIds :
          /\ live \subseteq 1 .. (c - 1)
          /\ c - 1 \in live \cup {0}
          /\ lastConv' = c
          /\ rows' = [rows EXCEPT ![c] = t]
    /\ UNCHANGED log

\* A conversation row for the task's chat: AUTOINCREMENT never reuses an id.
InsertRow(t) ==
    /\ lastConv < MaxConv
    /\ lastConv' = lastConv + 1
    /\ rows' = [rows EXCEPT ![lastConv + 1] = t]
    /\ UNCHANGED log

\* Mutant: /new clears the messages and keeps the conversation row.
DeleteMessagesOnly(c) ==
    /\ log' = [log EXCEPT ![c] = <<>>]
    /\ UNCHANGED <<rows, lastConv>>

\* Deleting a conversation deletes its messages in the same transaction.
DeleteRow(c) ==
    /\ rows' = [rows EXCEPT ![c] = None]
    /\ log' = [log EXCEPT ![c] = <<>>]
    /\ UNCHANGED lastConv

\* asyncio.Lock: leaving the critical section; a waiter acquires in its own step.
Release(t) ==
    /\ holder' = [holder EXCEPT ![conv[t]] = None]
    /\ UNCHANGED queue

\* process_message raises or returns: the lock is released on the way out.
LeaveTurn(t, from, outcome) ==
    /\ Goto(t, from, "settle")
    /\ result' = [result EXCEPT ![t] = outcome]
    /\ Release(t)

-----------------------------------------------------------------------------
Init ==
    /\ pc = [t \in Tasks |-> "idle"]
    /\ conv = [t \in Turns \cup Resets |-> 0]
    /\ rows = [c \in ConvIds |-> None]
    /\ lastConv = 0
    /\ log = [c \in ConvIds |-> <<>>]
    /\ history = [t \in Turns |-> <<>>]
    /\ holder = [c \in ConvIds |-> None]
    /\ queue = [c \in ConvIds |-> <<>>]
    /\ inFlight = [chat \in Chats |-> None]
    /\ cancelled = {}
    /\ result = [t \in Turns |-> "none"]
    /\ target = [s \in Stops |-> None]
    /\ restarts = 0

-----------------------------------------------------------------------------
(* handle_message: find the conversation                                    *)

\* SELECT ... scalar_one_or_none: exactly one row is the chat's conversation.
FindConversation(t) ==
    /\ Goto(t, "idle", "media")
    /\ \E c \in ConvIds :
          /\ RowsOf(ChatOf[t]) = {c}
          /\ conv' = [conv EXCEPT ![t] = c]
    /\ UNCHANGED <<db, history, locks, stop, result, restarts>>

\* No row yet: the INSERT is a later statement, after the SELECT's await.
MissConversation(t) ==
    /\ Goto(t, "idle", "create")
    /\ RowsOf(ChatOf[t]) = {}
    /\ UNCHANGED <<conv, db, history, locks, stop, result, restarts>>

\* Two rows: scalar_one_or_none raises, outside the handler's try.
AmbiguousConversation(t) ==
    /\ Goto(t, "idle", "done")
    /\ \E c, d \in RowsOf(ChatOf[t]) : c # d
    /\ result' = [result EXCEPT ![t] = "crashed"]
    /\ UNCHANGED <<conv, db, history, locks, stop, restarts>>

CreateConversation(t) ==
    /\ Goto(t, "create", "media")
    /\ InsertRow(t)
    /\ conv' = [conv EXCEPT ![t] = lastConv']
    /\ UNCHANGED <<history, locks, stop, result, restarts>>

\* normalize_message raises MediaError: a safe reply, no turn.
RejectMedia(t) ==
    /\ Goto(t, "media", "done")
    /\ result' = [result EXCEPT ![t] = "error"]
    /\ UNCHANGED <<conv, db, history, locks, stop, restarts>>

\* Mutant: process_message does not take the lock.
EnterUnlocked(t) ==
    /\ Goto(t, "media", "read")
    /\ inFlight' = [inFlight EXCEPT ![ChatOf[t]] = t]
    /\ holder' = [holder EXCEPT ![conv[t]] = t]
    /\ UNCHANGED <<conv, db, history, queue, cancelled, target, result, restarts>>

\* The media is ready: register in the chat's slot and, without an await in
\* between, take the lock if it is free and nobody waits for it.
EnterFree(t) ==
    /\ Goto(t, "media", "read")
    /\ holder[conv[t]] = None
    /\ queue[conv[t]] = <<>>
    /\ inFlight' = [inFlight EXCEPT ![ChatOf[t]] = t]
    /\ holder' = [holder EXCEPT ![conv[t]] = t]
    /\ UNCHANGED <<conv, db, history, queue, cancelled, target, result, restarts>>

EnterQueue(t) ==
    /\ Goto(t, "media", "wait")
    /\ holder[conv[t]] # None \/ queue[conv[t]] # <<>>
    /\ inFlight' = [inFlight EXCEPT ![ChatOf[t]] = t]
    /\ queue' = [queue EXCEPT ![conv[t]] = Append(@, t)]
    /\ UNCHANGED <<conv, db, history, holder, cancelled, target, result, restarts>>

Acquire(t) ==
    /\ t \notin cancelled
    /\ Goto(t, "wait", "read")
    /\ holder[conv[t]] = None
    /\ queue[conv[t]] # <<>> /\ Head(queue[conv[t]]) = t
    /\ holder' = [holder EXCEPT ![conv[t]] = t]
    /\ queue' = [queue EXCEPT ![conv[t]] = Tail(@)]
    /\ UNCHANGED <<conv, db, history, stop, result, restarts>>

-----------------------------------------------------------------------------
(* process_message, inside the lock                                         *)

ReadHistory(t) ==
    /\ t \notin cancelled
    /\ Goto(t, "read", "ask")
    /\ history' = [history EXCEPT ![t] = log[conv[t]]]
    /\ UNCHANGED <<conv, db, locks, stop, result, restarts>>

AddUser(t) ==
    /\ t \notin cancelled
    /\ Goto(t, "ask", "think")
    /\ Exists(conv[t])
    /\ log' = [log EXCEPT ![conv[t]] = Append(@, User(t))]
    /\ UNCHANGED <<conv, rows, lastConv, history, locks, stop, result, restarts>>

\* The foreign key refuses a message of a conversation that /new dropped, and any
\* write may fail otherwise.
AddUserFails(t) ==
    /\ t \notin cancelled
    /\ LeaveTurn(t, "ask", "error")
    /\ UNCHANGED <<conv, db, history, stop, restarts>>

\* Over budget, LLM error, tool-iteration limit: an AgentError, no reply stored.
ThinkFails(t) ==
    /\ t \notin cancelled
    /\ LeaveTurn(t, "think", "error")
    /\ UNCHANGED <<conv, db, history, stop, restarts>>

Think(t) ==
    /\ t \notin cancelled
    /\ Goto(t, "think", "answer")
    /\ UNCHANGED <<conv, db, history, locks, stop, result, restarts>>

\* Mutant: the reply is returned and not stored.
AddAssistantForgotten(t) ==
    /\ t \notin cancelled
    /\ Exists(conv[t])
    /\ LeaveTurn(t, "answer", "reply")
    /\ UNCHANGED <<conv, db, history, stop, restarts>>

\* Mutant: foreign keys are not enforced.
AddAssistantUnchecked(t) ==
    /\ t \notin cancelled
    /\ log' = [log EXCEPT ![conv[t]] = Append(@, Assistant(t))]
    /\ LeaveTurn(t, "answer", "reply")
    /\ UNCHANGED <<conv, rows, lastConv, history, stop, restarts>>

AddAssistant(t) ==
    /\ t \notin cancelled
    /\ Exists(conv[t])
    /\ log' = [log EXCEPT ![conv[t]] = Append(@, Assistant(t))]
    /\ LeaveTurn(t, "answer", "reply")
    /\ UNCHANGED <<conv, rows, lastConv, history, stop, restarts>>

AddAssistantFails(t) ==
    /\ t \notin cancelled
    /\ LeaveTurn(t, "answer", "error")
    /\ UNCHANGED <<conv, db, history, stop, restarts>>

-----------------------------------------------------------------------------
(* Leaving handle_message                                                   *)

\* _with_typing's finally waits for the typing task ...
Settle(t) ==
    /\ t \notin cancelled
    /\ Goto(t, "settle", "send")
    /\ UNCHANGED <<conv, db, history, locks, stop, result, restarts>>

\* ... and its except clause swallows a CancelledError that arrives there.
SwallowCancel(t) ==
    /\ t \in cancelled
    /\ Goto(t, "settle", "send")
    /\ cancelled' = cancelled \ {t}
    /\ UNCHANGED <<conv, db, history, locks, inFlight, target, result, restarts>>

\* The finally of handle_message pops the chat's slot, whoever it holds.
PopSlot(t) == inFlight' = [inFlight EXCEPT ![ChatOf[t]] = None]

\* Mutant: the finally that pops the slot is missing.
FinishKeepsSlot(t) ==
    /\ t \notin cancelled
    /\ pc[t] \in {"send", "notice"}
    /\ pc' = [pc EXCEPT ![t] = "done"]
    /\ UNCHANGED <<conv, db, history, locks, stop, result, restarts>>

Finish(t) ==
    /\ t \notin cancelled
    /\ pc[t] \in {"send", "notice"}
    /\ pc' = [pc EXCEPT ![t] = "done"]
    /\ PopSlot(t)
    /\ UNCHANGED <<conv, db, history, locks, cancelled, target, result, restarts>>

\* CancelledError delivered: unwind, releasing what the turn holds, then send
\* the "Interrupted." notice.
Interrupted(t) ==
    /\ cancelled' = cancelled \ {t}
    /\ result' = [result EXCEPT ![t] = "interrupted"]
    /\ UNCHANGED <<conv, db, history, inFlight, target, restarts>>

\* Mutant: a cancelled waiter releases a lock it never had.
InterruptWaitingReleases(t) ==
    /\ t \in cancelled
    /\ Goto(t, "wait", "notice")
    /\ \E i \in DOMAIN queue[conv[t]] :
          /\ queue[conv[t]][i] = t
          /\ queue' = [queue EXCEPT ![conv[t]] = RemoveAt(@, i)]
    /\ holder' = [holder EXCEPT ![conv[t]] = None]
    /\ Interrupted(t)

InterruptWaiting(t) ==
    /\ t \in cancelled
    /\ Goto(t, "wait", "notice")
    /\ \E i \in DOMAIN queue[conv[t]] :
          /\ queue[conv[t]][i] = t
          /\ queue' = [queue EXCEPT ![conv[t]] = RemoveAt(@, i)]
    /\ UNCHANGED holder
    /\ Interrupted(t)

\* Mutant: the lock is released on return only, not on cancellation.
InterruptHoldingLeaks(t) ==
    /\ t \in cancelled
    /\ pc[t] \in Holding
    /\ pc' = [pc EXCEPT ![t] = "notice"]
    /\ UNCHANGED locks
    /\ Interrupted(t)

InterruptHolding(t) ==
    /\ t \in cancelled
    /\ pc[t] \in Holding
    /\ pc' = [pc EXCEPT ![t] = "notice"]
    /\ Release(t)
    /\ Interrupted(t)

InterruptSending(t) ==
    /\ t \in cancelled
    /\ Goto(t, "send", "notice")
    /\ UNCHANGED locks
    /\ Interrupted(t)

-----------------------------------------------------------------------------
(* cmd_stop: pop the slot; cancel the task it held                          *)

\* Mutant: the missing-handle check is dropped.
StopTurnUnchecked(s) ==
    /\ Goto(s, "idle", "done")
    /\ cancelled' = cancelled \cup {inFlight[ChatOf[s]]}
    /\ target' = [target EXCEPT ![s] = inFlight[ChatOf[s]]]
    /\ inFlight' = [inFlight EXCEPT ![ChatOf[s]] = None]
    /\ UNCHANGED <<conv, db, history, locks, result, restarts>>

StopTurn(s) ==
    /\ Goto(s, "idle", "done")
    /\ inFlight[ChatOf[s]] # None
    /\ cancelled' = cancelled \cup {inFlight[ChatOf[s]]}
    /\ target' = [target EXCEPT ![s] = inFlight[ChatOf[s]]]
    /\ inFlight' = [inFlight EXCEPT ![ChatOf[s]] = None]
    /\ UNCHANGED <<conv, db, history, locks, result, restarts>>

NothingToStop(s) ==
    /\ Goto(s, "idle", "done")
    /\ inFlight[ChatOf[s]] = None
    /\ UNCHANGED <<conv, db, history, locks, stop, result, restarts>>

-----------------------------------------------------------------------------
(* cmd_new -> reset_conversation: select, delete + commit, insert + commit. *)
(* It takes no conversation lock.                                           *)

ResetFinds(r) ==
    /\ Goto(r, "idle", "drop")
    /\ \E c \in ConvIds :
          /\ RowsOf(ChatOf[r]) = {c}
          /\ conv' = [conv EXCEPT ![r] = c]
    /\ UNCHANGED <<db, history, locks, stop, result, restarts>>

ResetMisses(r) ==
    /\ Goto(r, "idle", "insert")
    /\ RowsOf(ChatOf[r]) = {}
    /\ UNCHANGED <<conv, db, history, locks, stop, result, restarts>>

ResetAmbiguous(r) ==
    /\ Goto(r, "idle", "done")
    /\ \E c, d \in RowsOf(ChatOf[r]) : c # d
    /\ UNCHANGED <<conv, db, history, locks, stop, result, restarts>>

ResetDrop(r) ==
    /\ Goto(r, "drop", "insert")
    /\ DeleteRow(conv[r])
    /\ UNCHANGED <<conv, history, locks, stop, result, restarts>>

ResetInsert(r) ==
    /\ Goto(r, "insert", "done")
    /\ InsertRow(r)
    /\ UNCHANGED <<conv, history, locks, stop, result, restarts>>

-----------------------------------------------------------------------------
\* The process dies and is started again: the database survives, every task,
\* lock and in-flight handle is gone.
Restart ==
    /\ restarts < MaxRestarts
    /\ restarts' = restarts + 1
    /\ pc' = [t \in Tasks |-> IF pc[t] = "idle" THEN "idle" ELSE "done"]
    /\ result' = [t \in Turns |->
                    IF pc[t] \in {"idle", "done"} THEN result[t] ELSE "lost"]
    /\ holder' = [c \in ConvIds |-> None]
    /\ queue' = [c \in ConvIds |-> <<>>]
    /\ inFlight' = [chat \in Chats |-> None]
    /\ cancelled' = {}
    /\ UNCHANGED <<conv, db, history, target>>

Arrive(t) ==
    FindConversation(t) \/ MissConversation(t) \/ AmbiguousConversation(t)

TurnStep(t) ==
    \/ CreateConversation(t) \/ RejectMedia(t)
    \/ EnterFree(t) \/ EnterQueue(t) \/ Acquire(t)
    \/ ReadHistory(t) \/ AddUser(t) \/ AddUserFails(t)
    \/ Think(t) \/ ThinkFails(t) \/ AddAssistant(t) \/ AddAssistantFails(t)
    \/ Settle(t) \/ SwallowCancel(t) \/ Finish(t)
    \/ InterruptWaiting(t) \/ InterruptHolding(t) \/ InterruptSending(t)

StopStep(s) == StopTurn(s) \/ NothingToStop(s)

ResetStep(r) ==
    \/ ResetFinds(r) \/ ResetMisses(r) \/ ResetAmbiguous(r)
    \/ ResetDrop(r) \/ ResetInsert(r)

Next ==
    \/ \E t \in Turns : Arrive(t) \/ TurnStep(t)
    \/ \E s \in Stops : StopStep(s)
    \/ \E r \in Resets : ResetStep(r)
    \/ Restart

\* The event loop runs every ready task, and the LLM client, the tool timeout
\* and the database bound every await of a turn; users promise nothing.
Fairness == \A t \in Turns : WF_vars(TurnStep(t))

Spec     == Init /\ [][Next]_vars
FairSpec == Spec /\ Fairness

-----------------------------------------------------------------------------
(* Properties                                                               *)

\* Types of the state: rows name the task that created them, ids stay in bound.
TypeOK ==
    /\ pc \in [Tasks -> TurnPC \cup ResetPC]
    /\ \A t \in Turns : pc[t] \in TurnPC
    /\ \A r \in Resets : pc[r] \in ResetPC
    /\ \A s \in Stops : pc[s] \in StopPC
    /\ conv \in [Turns \cup Resets -> 0 .. MaxConv]
    /\ rows \in [ConvIds -> Turns \cup Resets \cup {None}]
    /\ lastConv \in 0 .. MaxConv
    /\ log \in [ConvIds -> Seq(Message)]
    /\ history \in [Turns -> Seq(Message)]
    /\ holder \in [ConvIds -> Turns \cup {None}]
    /\ queue \in [ConvIds -> Seq(Turns)]
    /\ inFlight \in [Chats -> Turns \cup {None}]
    /\ cancelled \in SUBSET Turns
    /\ result \in [Turns -> {"none", "reply", "error", "crashed", "interrupted", "lost"}]
    /\ target \in [Stops -> Turns \cup {None}]
    /\ restarts \in 0 .. MaxRestarts

\* conversation_lock "serialises work for one conversation only": two turns are
\* never inside process_message's critical section for the same conversation,
\* whatever is cancelled, waiting, dropped or restarted.
LockExclusive ==
    \A t, u \in Turns :
        pc[t] \in Holding /\ pc[u] \in Holding /\ conv[t] = conv[u] => t = u

\* The stored transcript is a sequence of exchanges: an assistant message
\* directly follows the user message of the same turn (service.py:605-803).
TranscriptSerial ==
    \A c \in ConvIds : \A i \in DOMAIN log[c] :
        log[c][i].role = "assistant" =>
            i > 1 /\ log[c][i - 1] = User(log[c][i].turn)

\* The context the model sees is the whole conversation: from the history read
\* to the reply, a surviving conversation is exactly the history the turn read
\* followed by its own question.
ContextCurrent ==
    \A t \in Turns :
        pc[t] \in {"think", "answer"} /\ Exists(conv[t]) =>
            log[conv[t]] = Append(history[t], User(t))

\* "a finished or stopped turn never lingers as a stale, cancellable handle"
\* (bot.py:1040-1041): the slot of a chat holds a live turn of that chat.
HandleLive ==
    \A chat \in Chats :
        inFlight[chat] # None =>
            /\ ChatOf[inFlight[chat]] = chat
            /\ pc[inFlight[chat]] \in Registered

\* A reply that goes out is in the transcript of its conversation, right after
\* its question, unless /new has dropped that conversation.
ReplyRecorded ==
    \A t \in Turns :
        result[t] = "reply" /\ Exists(conv[t]) =>
            \E i \in DOMAIN log[conv[t]] :
                i > 1 /\ log[conv[t]][i] = Assistant(t) /\ log[conv[t]][i - 1] = User(t)

\* A row that /new or a first message inserts is a conversation no task knows
\* yet: a turn that outlives a /new can never write into the fresh one
\* (models.py:134-135, sqlite_autoincrement).
FreshConversation ==
    [][\A c \in ConvIds :
          rows[c] = None /\ rows'[c] # None =>
             /\ log'[c] = <<>>
             /\ \A t \in Turns \cup Resets : conv[t] # c]_vars

\* Every turn that has arrived ends: no lost lock, no waiter left behind by a
\* cancelled one, no conversation dropped under a turn keeps it waiting.
EveryTurnEnds ==
    \A t \in Turns : pc[t] # "idle" ~> pc[t] = "done"

\* A message never overtakes one of its conversation that already waits, unless
\* that one has been stopped: questions are answered in the order they came.
NoOvertaking ==
    [][\A t, u \in Turns :
          pc[t] = "wait" /\ t \notin cancelled /\ conv[u] = conv[t] /\ pc[u] = "media"
             => pc'[u] # "read"]_vars

\* The abstract transcript: a row is live, dropped or not yet inserted, and the
\* open question is the one whose turn is inside the lock and not yet answered.
AbstractStatus ==
    [c \in ConvIds |->
        IF Exists(c) THEN "live" ELSE IF c <= lastConv THEN "dropped" ELSE "unused"]

Asking(t) == t # None /\ pc[t] \in {"think", "answer"}

AbstractOpen == [c \in ConvIds |-> IF Asking(holder[c]) THEN holder[c] ELSE None]

T == INSTANCE Transcript WITH status <- AbstractStatus, open <- AbstractOpen

\* The detailed system implements the transcript: nothing else ever writes,
\* reorders or revives a message of a conversation.
ImplementsTranscript == T!Spec

-----------------------------------------------------------------------------
(* What the comments claim and the code does not do                         *)

\* bot.py:341-343: "A chat may have at most one turn running at a time (its
\* per-conversation lock serialises them), so a single slot keyed by chat id is
\* exactly the handle /stop cancels": a turn at work, not yet told to stop, is
\* in its chat's slot.
SlotIsRunningTurn ==
    \A t \in Turns :
        pc[t] \in Holding /\ t \notin cancelled => inFlight[ChatOf[t]] = t

\* bot.py:424-426: "The stopped turn itself posts a short Telegram Reply to the
\* interrupted message": a turn a /stop cancelled ends as interrupted.
StopInterrupts ==
    \A s \in Stops :
        target[s] # None /\ pc[target[s]] = "done" =>
            result[target[s]] \in {"interrupted", "lost"}

\* developer-reference.md:1519: "One Telegram chat = one conversation".
OneConversationPerChat ==
    \A c, d \in ConvIds :
        Exists(c) /\ Exists(d) /\ ChatOf[rows[c]] = ChatOf[rows[d]] => c = d
=============================================================================
