# fibreAgent-backend: TLA+ models, checks and proofs

fibreAgent-backend is an asyncio process that answers Telegram (and QQ) messages
with a language model, which may call tools. This directory holds TLA+ models of
its concurrent core, the TLC runs that check them on small instances, and TLAPS
proofs of the most important safety properties for every value of the constants.
Source paths below are relative to `src/src/fibrecase_agent_backend/`.

## 1. The system and its parts

| Part | State it keeps | Operations | Interacts with | Model |
|---|---|---|---|---|
| Chat turns: `telegram/bot.py`, `agent/service.py`, `database/repository.py` | conversations and messages tables, `_locks` (one asyncio.Lock per conversation), `in_flight` slot per chat | a message, `/new`, `/stop`, process restart | all of the below, inside a turn | `ChatTurns`, `Transcript` |
| Approval broker: `telegram/approval.py`, `tools/approval.py` | `_pending` (request id to future) | request_approval, button click, timeout, shutdown | tool loop awaits it; clicks come from PTB | `ApprovalBroker` |
| Tool loop and gate: `agent/tool_loop.py`, `tools/audit.py`, `database/audit.py` | working messages, tool_audit_events table | model round, gate of a call, execution | broker, policy, registry, audit table | `ToolGate` |
| Attachments: `attachments/store.py`, parts of service and repository | blob files named by digest, attachments table | save, link, compensate, reclaim | turns and `/new` of every chat | `Attachments` |
| OAuth for MCP: `mcp/auth/`, `database/oauth.py` | authorization states, credentials, refresh locks | initiate, callback, valid_access_token | MCP requests made by tools | `OAuth` |
| Scheduler, scheduled runs: `automation/scheduler.py`, `main.py:394-476` | due times, flights, a venue conversation per schedule | tick, run, sweep, stop | turns (process_message), delivery, QQ shutdown | `Scheduler` |
| Cron: `automation/cron.py` | none | parse, next_fire | scheduler | `Cron`, checked in `Decisions` |
| Context planning: `agent/context.py` | none | group_turns, plan_context | turns | `ContextPlan`, checked in `Decisions` |
| Memory: `agent/service.py:273-386`, `memory/text.py` | memories table | remember, forget, rank | turns, commands | ranking in `ContextPlan`, the table in `QQChannel` |
| Policy and permissions file: `tools/policy.py`, `tools/permissions_file.py` | the file, last stat key, overrides | load, reload, reconcile | tool gate, operator | `Startup`; `ToolGate` for a change within a batch |
| MCP client: `mcp/manager.py`, `mcp/wrapper.py` | sessions and exit stacks of the servers | start, call, close | tool registry | start and close in `Startup` |
| QQ channel: `qq/` | in-flight slot per user, pending approvals, msg_seq of an answer | message, `/stop`, `/new`, memory commands, click, shutdown | turns, broker, memories | `QQChannel` |
| Composition root: `main.py` | tasks of the process | start-up, shutdown | all | `Startup` (start), `Scheduler` (scheduled run, shutdown) |
| Configuration: `config.py` | none | load_config | all, at start-up | `Config`, checked in `Decisions` |
| Presentation, LLM client, built-in tools, host status, logging | little or none | I/O, parsing, layout | | not modelled |

The process is one event loop. PTB runs handlers concurrently
(`concurrent_updates`), so everything a handler does between two awaits is atomic
and everything else interleaves. That is the grain of all the models: one step is
the code a task runs between two awaits that another task can observe.

What is hard in this code, and what the properties aim at:

* **Interleaving.** A turn reads the history, asks a model for seconds, and writes
  its answer; another message, a `/new` or a `/stop` of the same chat may come at
  any point. Blob files are shared between chats, and no lock covers two chats.
* **Cancellation.** `/stop` delivers CancelledError at whatever await the turn is
  at: waiting for the lock, sending an approval card, running a tool, saving.
* **Failure.** Every audit write, attachment write, provider request and save may
  fail, and the code promises to fail closed, to compensate, or to carry on.
* **Restart.** The database and the blob store survive; locks, slots, pending
  approvals and running turns do not.
* **Checks before use.** A conversation looked up before the lock, references read
  before files are deleted, a credential read before it is refreshed, a permissions
  file read before its key is taken, memories counted before one is inserted.
* **Boundaries.** A budget met exactly, the minute of the search itself, a limit that
  two commands reach together, a name that is legal in one place and not in another.

`PROJECT.json` lists the hazards one by one, with their lines and the properties
that cover them.

## 2. The models

### ChatTurns and Transcript

`ChatTurns` follows a message through `handle_message` (bot.py:994-1133) and
`process_message` (service.py:548-809): look up or create the conversation (a
SELECT and an INSERT, two steps), take the `/stop` slot, wait for the lock, read
the history, add the question, think (images, memories, model and tools: here a
reply or a failure), add the answer, release, send. `queue` and `holder` are the
waiters and the owner of the asyncio.Lock, including the hand-over to the first
waiter and the cancelled waiter that passes it on. `/new` drops the conversation
and inserts a fresh row in two transactions, without the lock. `/stop` cancels
whatever task the slot holds. A restart ends every task and keeps the tables.
`rows`, `lastConv` and `log` are the two tables; `lastConv` is the AUTOINCREMENT
sequence that keeps ids from being reused.

`Transcript` is the abstract specification: a conversation is a sequence of
questions, each followed by its own answer or by nothing, at most one open, and
dropped conversations stay empty. `ImplementsTranscript` is the refinement: the
open question is that of the turn between its two writes inside the lock.

### ApprovalBroker

`request_approval` (approval.py:257-345) registers an entry with a future, sends a
card, waits for the future under a timeout and removes the entry; `handle_callback`
(348-403) resolves it; `shutdown` (249-254) expires all. A request is a model
value, its principal is the user `Owner` gives, and the deadline is a flag that
time raises, which the click's comparison and the timer of the loop read at
different moments. A timer that fires wins over a future that was settled before the
caller ran again, as `asyncio.wait_for` has it since Python 3.12.

### ToolGate

`run_tool_loop` and `_execute_gated` (tool_loop.py:177-454), composed with the
broker by EXTENDS: an "ask" call performs the broker's own actions. The permission
of a tool is read when the gate reads it, and the operator may edit the file at any
other time. `trail` is the audit table, call by call: a write that succeeds appends
its row, one that fails (MaxUpsets bounds these and the edits) appends none and has the consequence
the code gives it, which is to refuse the call where the gate fails closed
(`record_pre`) and nothing elsewhere (`record`). A write may also be reported as
failed and be in the table, when the session cannot be closed after its commit, and
one that a cancellation cuts off may be there or not. The history variable `missing`
holds the events whose rows are not there, so that TrailLegal can say that nothing
else is.

### Attachments

Turns save their blobs (one synchronous step), then insert their links, then read
them back; a failure of any of the three, for whatever reason, deletes the blobs the
turn created, and so one after the commit deletes blobs that are linked; `/new` snapshots the
chat's digests, drops the conversation, reads which digests are still linked and
deletes the others (service.py:388-493, repository.py:160-305). Message ids are
handed out as SQLite does without AUTOINCREMENT: one more than the largest. Locks
are those of ChatTurns, reduced to what they exclude. `raced`, `left` and `unread` are
history variables: digests that two overlapping tasks handled, or a link landed on
another message; digests a crash, a cancellation or an I/O error left behind; and
links that were committed, could not be read back and lost their blobs.
They mark exactly the cases where the promises of the code do not hold, so that
SerialSafe and SerialReclaim say what does.

### OAuth

Authorizations, callbacks (`complete_authorization`, manager.py:189-279, with the
SELECT and the DELETE of `consume_pending` as two steps) and calls
(`valid_access_token`, 282-348: read, check, lock, read again, check, refresh,
save). The authorization server is external: it numbers the access tokens it
issues, takes a code once, and may rotate a refresh token. A response may be lost
on its way back. `upset` marks the users for whom that happened, a save failed, or
two tokens were on their way to the table at once.

### Scheduler

`_tick` (scheduler.py:169-201) is one step: every schedule that is due fires unless
its last run is in flight, and looks for its next minute from now. A run is
`_run_schedule` (main.py:394-476): delete the leftover venue and insert a fresh one
(two transactions), read it back, one agent turn, Telegram, QQ, and the removal of
the venue in a finally. The shutdown is `_post_shutdown`: stop the loop, wait, cancel
and wait once more, then the QQ teardown, which cancels every task younger than the
QQ client, and so scheduled runs too, and awaits them without a limit. The wall clock
may go back; a crash leaves the rows; the start-up sweep may fail. `NextFire` is the
least matching minute, which `Decisions` checks of the code's search.

### QQChannel

Each private message is a task: a command or a turn (qq/bot.py:152-336,
qq/commands.py), with the same look-up, slot and lock as in ChatTurns, an approval
request of its own broker (qq/approval.py), and an answer sent chunk by chunk under
a `msg_seq`, of which the platform (external) refuses a repeated one. `/stop` and the
shutdown cancel at any await; what a cancelled or failed send has delivered is
open. `/remember` counts and inserts in two sessions. The transcript's content, the
images and the loop are those of the modules above and are left out here.

### Startup

`AgentBackend._post_init`: McpManager.start brings up one server after the other, each
handshake in a child task under a deadline, checks the tools it lists, and keeps the
transport; then the tools are registered, the permissions file is reconciled (read
and merge, write: two steps), and the policy reloads it when its key changes
(FileBackedToolPolicy, whose stat and read are two steps). The operator edits, breaks
or deletes the file at any point, the start may be cancelled at any point, and the
process starts again. `lost` and `blind` are history variables: reconcile replaced
the file after an edit it had not read, and the policy holds the key of another
version than the one it read, until its next reload. They mark the two races after
which the policy does not know the operator's last word.

### ContextPlan, Cron, Config and Decisions

The code without state. `ContextPlan` translates the cost estimate, group_turns,
rank_memories and plan_context; `Cron` parse_cron and next_fire; `Config` every
condition under which load_config accepts schedules, servers, targets, files and
knobs. Beside each stands a reference that does not follow the code: what a plan must
satisfy, what an expression means, what the rest of the program needs of an accepted
configuration. `Decisions` asks one question per step and compares the two, TLC on the
inputs of MCDecisions and the proofs on all. The loops of the code are left folds with
a step operator each (Count, AddToTurns, TakeMemory, TakeTurn); the sort of the ranking
is the one order in which the scores fall.

## 3. The runs

| Run | Instance | What it shows |
|---|---|---|
| `chat_turns` | two messages, a `/new`, a `/stop`, one restart, one chat | transcripts are serial, contexts current, fresh rows unknown to old turns, slots live, replies recorded; the tasks implement Transcript; every turn ends |
| `approval_broker` | two requests, owner and stranger | approval only by the owner, a refusal only for what befell the request itself, reachable waiters, nothing left over; every request ends |
| `tool_gate` | two calls in two rounds, one policy edit or one audit write that fails, owner and stranger | only cleared calls run, once; the audit table can be read and agrees with the results; every call answered before the next round; the loop ends although nobody clicks |
| `attachments` | three turns of two chats sharing an image, a `/new` in the chat of two of them, one crash; any save, insert, read-back or delete may fail | linked images are on disk, unlinked ones are accounted for |
| `oauth` | three callbacks of two authorizations, two calls of the same user, one of another, one crash | credentials do not cross users, one refresh, newest token stored, lock never left |
| `scheduler` | one schedule that matches every minute and one that matches once, two runs each, two starts, one step back of the clock | a run keeps its venue, venues do not pile up, nothing is caught up or fired twice; a shutdown ends although a turn is stuck |
| `qq_channel` | a turn with an approval, a second turn or a command, a `/stop`, of one user; a second user who clicks; two chunks; one memory allowed | answers whole or a beginning, tools only on the owner's word, the limit of memories passed by no more than what ran at once; every message ends |
| `startup` | two servers and one OAuth server that is not wired, two starts, three edits | every transport has an owner, no duplicate tool, the operator's word obeyed; the boot ends |
| `decisions` | every history of up to three messages under 24 budgets and caps, with memories that compete for the room under two limits, 1,440 cron inputs around a leap day, about 4,000 configurations | the plan, the next fire and the accepted configuration against their references |
| `chat_slot`, `stopped_call`, `attachment_shared_blob` | three messages of one chat and a `/stop`; as `tool_gate`; as `attachments`, with a `/new` in each chat | disagreements between the code and its comments, see below |

**Bounds.** Two messages suffice for every race of two turns; that a third, which
finds one waiting, does not overtake it is proved (FirstComeFirstServed). MaxConv is
one more than the rows those tasks can insert. Two tool calls in two rounds give a
batch of two, a second round, and the iteration limit; one upset (MaxUpsets: a missing
row, or an edit) tells each position of a trail from the others, and the theorems hold
for any number of both. Three image turns in two chats give a reuse within and across
chats, a turn of a dropped conversation beside one of its successor, and an id that is
reused; two `/new` at once are left to `attachment_shared_blob` and to the proofs.
MaxTokens = 3 lets an authorization, a re-authorization and a refresh follow each
other; the unit of time is a token's lifetime, in which the skew of a minute rounds to
0; the two calls and the two callbacks that are alike are declared symmetric, which is
sound as that run checks invariants only. One restart or crash is enough to hit any
single point; what is in the tables afterwards is like any other state in which the
tasks have not begun. In `scheduler`, two runs of a schedule are what it takes for one
to meet the other's venue, four minutes let a pass be late by two of them, and the
second start sweeps what a crash has left. In `qq_channel`, m1 may ask for an
approval, m2 is any command or a turn, m3 is the `/stop`: the three together meet in
every order; one memory allowed makes two commands pass the limit. In `startup`, the
second server offers a name of the first, its own twice, a built-in one and one the
file cannot hold; two edits are needed for a file that breaks and is repaired, the
third for one that the first load meets on its way; the operator knows one permission
besides the default, and OperatorObeyed is proved for any number of both. The inputs
of `decisions` lie on both sides of every comparison in the code: costs of 1 to 4
units against budgets that are met, missed by one and never reached, a second memory
that does not fit beside the first where a third does, ports 0, 22, 65535 and 65536,
days 29 and 31, and 7 for Sunday.
CHECK_DEADLOCK is FALSE since each instance is a finite number of tasks, after which
the process just waits for the next message.

**Fairness.** `chat_turns`: WF of each turn's steps, because asyncio resumes every
ready task, the model client and the senders have timeouts, and the lock is a FIFO.
Neither `/new`, `/stop` nor a restart is fair. `approval_broker`: WF of each call's
own steps and of the passing of its deadline; clicks are not fair. `tool_gate`: WF of
"the loop makes a step or a deadline passes"; model answers, tool results (under
`tool_timeout_seconds`) and audit writes arrive as one of their outcomes. Nothing
assumes that a human answers. `scheduler`: WF of each step of a run around its turn
and of each phase of the shutdown (asyncio.wait has its limits, database and channels
time out); nothing is assumed of the turn itself, which may wait for ever.
`qq_channel`: WF of "some message makes a step or a deadline passes", since the loop
never idles while a task is ready; there are finitely many messages, so each is
served. Clicks and the shutdown are not fair. `startup`: WF of the process's own
steps, in which the deadlines are; no server need ever answer. The other runs check
safety only.

**Mutants.** Each property of a passing run has a mutant of a mapped definition, next
to it in the module and marked "Mutant:", a plausible slip in that code, for which
TLC reports the property violated.

### Where the code and its comments disagree

* `chat_slot`: the `/stop` slot is written before the lock is taken, so a waiting
  message replaces the handle of the running turn (bot.py:1043).
* `stopped_call`: the handler of a cancelled call announces a terminal audit event and
  only raises (tool_loop.py:434-437), so the table shows a tool that started and no
  end.
* `attachment_shared_blob`: a compensation or a `/new` deletes a blob that another
  turn reuses and is about to link (service.py:427, 479).

### Limits found while modelling, without a run of their own

The models have each of these behaviours, and the properties above are stated so as
to hold with them. Where a definition states what is lost, it is named.

* Two first messages of a chat insert two conversation rows, after which every
  lookup of the chat raises (repository.py:142; OneConversationPerChat). On QQ the
  lookup is outside the try (qq/bot.py:226), so such messages go unanswered.
* A caller cancelled while its approval card is being sent stays in `_pending`
  (telegram/approval.py:310, qq/approval.py:287; CancelledIsConsumed).
* A turn that has committed its links and cannot read them back deletes the blobs they
  point at, although the comment calls them "now unreferenced" (repository.py:190-192,
  service.py:476-487; RefreshFails, ReadBackKept). No second task is needed. SerialSafe
  and its proof excuse these links and no others.
* Message ids are reused, so the links of a deleted message may land on a message of
  another chat (models.py:166; LinkOwned).
* The skew is applied with the wrong sign, so an expired OAuth token is handed out
  for a minute (mcp/auth/manager.py:427; LiveTokens). Two callbacks can both consume
  a state (oauth.py:168; SingleUse).
* The wait for the typing task can swallow the cancellation of `/stop` (bot.py:371;
  StopInterrupts).
* A click that is handled in the iteration of the event loop in which the timer fires
  is told "approved" while the call is expired (telegram/approval.py:318, 398): the
  timer wins over the settled future. The tool does not run, so nothing is lost but
  the answer to the click.
* A scheduled run cancelled between the commit of its insert and its try leaves its
  row to the next run or the next start (main.py:404).
* The drain of the QQ tasks has no limit (main.py:544); ShutdownEnds holds because all
  that it awaits has been cancelled.
* A server's tool name may hold letters outside ASCII, which the permissions
  file refuses: reconcile then writes a file it cannot read back, and the next start
  refuses it (mcp/wrapper.py:75; Foreign in Startup).
* Reconcile overwrites an edit made between its read and its write, and the first
  load takes the key of an edit it has not read (`lost`, `blind` in Startup). A
  missing file has no key, so a policy that read a file, and took the key when it was
  gone, serves what it read whenever the file is missing, although the docstring says
  that a deleted file "resolves back to all-defaults" (tools/policy.py:161). It takes
  four edits to get there; it was the proof of OperatorObeyed that did not go through. After
  a start that was cancelled, McpManager.close returns at once and leaves the
  transports of the servers that were ready (mcp/manager.py:447), until the process
  exits.
* The knobs read by `_parse_float` take NaN and infinity (config.py:594), which
  no comparison refuses; `Config` has numbers only.

## 4. The proofs

| Module | Theorems | Assumptions |
|---|---|---|
| `ChatTurnsProofs` | TypeCorrect, MutualExclusion, FreshRows, SerialTranscript, CurrentContext, LiveHandles, RecordedReplies, FirstComeFirstServed, TranscriptImplemented | TasksAssumption (kinds of tasks are disjoint, None is no task), ChatsAssumption (every task has a chat, bounds are naturals) |
| `ToolGateProofs` | of the broker: OwnerApproved, Reachable, CauseOfAnswers, NothingLeftOver | OwnerAssumption (every request has an owner, Nobody is no click) |
| `ToolGateProofs` | of the gate: GateTypeCorrect, GateUsesBroker, OnlyClearedRun, RunsAtMostOnce, CallsAnswered, LegalTrails | OwnerAssumption, GateAssumption (requests are calls, bounds are naturals, the unknown tool is not registered) |
| `AttachmentsProofs` | LinkedBlobsKept, UnlinkedAccounted | ImagesAssumption (turns and resets are disjoint, turns are finitely many and have images) |
| `OAuthProofs` | OAuthTypeCorrect, TokensStayApart, LockNotLeft, RefreshesOnce, NewestIsStored | OAuthAssumption (callbacks are not calls, None is no task, number or credential) |
| `SchedulerProofs` | SchedulerTypeCorrect, VenueSafe, VenueUnique, NoCatchUp | ScheduleAssumption (a schedule is a set of minutes, bounds are naturals) |
| `QQChannelProofs` | QQOwnerApproved, AnswersWhole, LimitOvershootBounded | QQAssumption (finitely many messages, None is none of them, the limit is positive) |
| `StartupProofs` | TransportsHaveOwners, RegistryIsSafe, OperatorObeyed | StartupAssumption (bounds are naturals, Unfilled is no permission, the list of servers has no duplicates, which config.py:981 requires, what a server offers is a list of names) |
| `DecisionsProofs` | PlansSound, FiresFirst, AcceptedUsable | CostsAssumption, RequestsAssumption (costs and limits are naturals, the memories of a scope are finitely many rows with an id each), CalendarAssumption, FiresAssumption (days have a month, a day and a weekday, an expression has fields of elements), SetupsAssumption (lists are lists) |

All hold for any number of chats, messages, commands, restarts, requests, users,
calls, rounds, images, servers, edits and clock ticks, and for histories, memories,
expressions, calendars and configurations of any length: the bounds of the runs are
constants of the theorems. Hardly any of the properties is inductive; what each
invariant adds, and why it is needed:

**ChatTurns.** `Inv`: HolderInside (a task in the locked part of its code is the
lock's owner, which makes the owner of a conversation unique), ConvKnown and IdsUsed
(a task never knows an id beyond the sequence, so an inserted id is new to all),
EmptyWithoutRow (messages only exist under a row) and HistoryCurrent (before its
question is stored, a turn's history is the table). With the lock's owner unique,
another turn's write to the same conversation contradicts HolderInside; `/new` can
only remove the row, after which ContextCurrent and the appends are void. On top of
`Inv`: HandleInv (only Finish leaves the registered part of the code, and it pops its
own slot or none); ReplyInv (a reply leaves only after its answer was appended to a
log that ContextCurrent describes, and logs only grow or go with their row); QueueInv
(who waits is queued, and the queue's changes keep the order of the others); and the
step simulation of Transcript: InsertRow is Create, the delete of `/new` is Drop or a
stutter, the stored question is Ask, the stored answer is Answer, failures,
cancellations and restarts are Abandon, everything else is invisible. RefInv carries
what the mapping needs, that the holder of a lock knows its conversation.

**ApprovalBroker.** `BrokerInv`: an entry in `_pending` has had no click yet and
an open future, an approval has its owner's consent as the card's first click, an
open future of a waiting caller is pending, and what has returned is not.
SettledForCause is what AnsweredForCause rests on: it says of the future, while the
call is still inside, what the property says of the answer taken from it. The causes
are stable (CausesStable), a deadline that has passed, a stranger's click and a
shutdown being so for ever.

**ToolGate.** BrokerSteps shows that every step of the loop and its surroundings is
a broker step or leaves it alone; that gives GateUsesBroker and lets BrokerInv be
part of `GateInv`. The rest of the invariant relates the call in the gate (AtNext,
Progress) to the audit trail, and says that a call the gate has not yet reached has
not run (NotYetRun), without which RunsOnce is not inductive. CallsAnswered adds that
the limit of rounds is ahead of the loop (LimitAhead). LegalTrails adds, for each
place in the gate, the rows a call may have there when some may be missing (RowsAt)
and the ones it must have when none is (TrailAt), that no row tells of an end before
there is one (NoEndYet), and that one which does tells of the result (EndsTold).

**Attachments.** `SafeInv`: who holds an image that is not raced is the only one to
hold it (Alone); the blobs a turn is about to link are on disk, and those it created
have no links, after the commit none but its own (Linking); what a `/new` is about to
reclaim has no link (Reclaiming), all of them apart from links that are `unread`
already. Deleting then hits unlinked images, raced ones, or those of the turn's own
links, which become `unread` in that step: nobody else's link can lose its blob to a
read-back.
`ReclaimInv` goes the other way: what a turn found in the store, and what a `/new`
found referenced, is linked, raced or left without them (FoundExcused, RefsExcused);
a `/new` has seen all that it is about to unlink, or overlaps with the turn that adds
to it (SnapshotHolds); two resets that have seen the same image overlap. So each
unlinked blob is held by a turn, or seen by a `/new` on its way (Accounted), which
stops being so only with a delete, a link or an entry in `left`.

**OAuth.** TokenInv: what a task works with, what is stored and what a call has
returned was issued for that user (ViewOwned, CredOwned, AnswerOwned). LockInv adds
that a lock's holder is inside it. LiveInv: two saves of one user are under way only
after an authorization has interfered (TwoSaves), what is being stored is the newest
token (SaveIsNewest), and what is read inside the lock, received or stored without a
successor on its way is still honoured (ViewLive, CredLive).

**Scheduler.** VenueInv: only the last run of a schedule is not over (SingleFlight), a
process that is gone has no runs, only such a run has a cancellation to come, and a
run that is about to insert its venue has deleted what was left of it (Cleared).
PaceInv: a due time is a minute of the schedule after its last run of this process
(DueLater); runs of earlier processes were started before those of this one.

**QQChannel.** ApprovalInv: a pending approval is open, and an approved one had its
owner's consent as the first click. AnswerInv says for each message and phase which
chunks have arrived: the first n of them, or one notice. LimitInv bounds the rows,
with the inserts still to come, by the limit and the most commands that ran at once;
PeakOf takes the maximum, which the cardinalities of finite sets need a lemma for.

**Startup.** StartInv: who is past a server has its tools or none, and an open transport
is one that start has kept or is working on. PolicyInv: every change of the file gives
it a new version, and a policy that is not `blind` holds the content of the version
whose key it has. This proof did not go through at first, and showed a way to a stale
policy that the run's bounds did not reach (section 3, the missing file).
RegisterInv: the lists of tools taken from the servers have no tool twice and none in
common (ListsApart), since each server's tools are filtered against all the names
before it; a joined list then has none twice (FlattenDistinct), which is an induction
over the lists.

**Decisions.** Its steps ask a question each, so the invariant (AskedAlways) is only
that the question is one of the constants; the work is in the lemmas about the
operators, which hold for every input. What is recursive in them is proved by
induction over a set of naturals: SetInduction and UpTo say that a set that holds 0
and, with each number, the next, holds all, so that no theorem needs a predicate for a
parameter; NatLeast, from which they follow, is the least element of a set.

* *The plan.* FoldSteps says what a left fold goes through: a sequence of values, one
  for each prefix, of which each is the step applied to the one before. From it come
  the typing of the costs (TextCostIsNat, TurnCosts, MemoryCostIsNat), the length of a
  joined list (FlattenLength) and the invariants of the two selections. Selected, for
  the newest k turns: what is taken are the newest turns and nothing else, room and
  tokens are what they leave of the limits, a search that has stopped did so at a turn
  that does not fit, and a turn without images had no room for them.
  SelectMemoriesIs is the like for the memories: of the first k ranked ones, each is
  among those taken or was left out, and a memory that was left out stays so when a
  worse one is taken (StaysOut), since the better ones it did not fit beside remain the
  front of the list. The ranking exists because the score is a strict order
  (BetterOrders) and some memory is behind all others (WorstExists: the one with the
  most ahead of it); that it omits none is a count (RankedIs), and so is that the first
  `limit` are those with fewer than `limit` ahead of them (RankMemoriesIs). PlanSound
  compares scores as four numbers of which the first difference decides (Outranks); the
  comparisons of the code are the same (BetterOutranks).
* *The next fire.* ExpandIsLegal and FieldMeans relate an element and a field, as
  parsed, to what they mean; DayIsMeant is the rule of the two day fields; FireIsFirst
  takes the least day, hour and minute of the search.
* *The configurations.* Each check of load_config is matched with what it is for;
  NamesCount says that names are distinct when they are as many as the entries.

**Checked only.** Liveness under fairness is out of the prover's reach:
EveryTurnEnds, EveryRequestEnds, LoopEnds, ShutdownEnds, EveryMessageEnds, BootEnds.
Every other property of a passing run is the subject of a theorem. That nobody
overtakes (NoOvertaking) is proved only. Type invariants
have a theorem of their own for ChatTurns, ToolGate with its broker, OAuth and
Scheduler; elsewhere the invariants above carry the types the proofs need.

## 5. Not modelled, and why

Text: wording, Markdown, HTML, chunk boundaries, the panels and help of both channels,
summaries, log lines. Streaming drafts (fail-soft copies of the reply) and the LLM
client's HTTP. The content of model answers, of tool results and of MCP calls: the
gate keeps that a call returns, fails or times out. Built-in tools (one call each
against the file system) and the host status provider (reads only). How a message
becomes search terms for the memories: Decisions starts from the terms. Daylight
saving in cron expressions: Cron works on minutes of one zone's clock. SQLite is taken
at its word: a transaction is atomic and a commit that returned is durable. A row that
cannot be read back after its commit is a step of its own in Attachments, where it
costs a blob. In ChatTurns any write inside the lock may fail; a question that is
stored and not read back ends its turn as a model error after it does, and the like of
an answer, which is stored while the user sees an error, is left out, as the properties
speak of replies that were sent. In ToolGate the scope and the chat of a request are
those of its turn.

## 6. Plan

1. Done, all safety properties proved: ChatTurns and Transcript, ApprovalBroker,
   ToolGate, Attachments, OAuth, Scheduler, QQChannel, Startup.
2. Done, checked against reference definitions and proved for every input:
   ContextPlan, Cron, Config and the memory ranking, in Decisions.
3. Left: QQChannel's approvals as an instance of ApprovalBroker; the rehydration of
   images into the context, with its integrity check, composed with Attachments.
4. Left: the classification of an MCP result (mcp/wrapper.py:115) as a function with a
   reference, and the days on which the clocks change, in Cron.
