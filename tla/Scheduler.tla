------------------------------ MODULE Scheduler ------------------------------
(***************************************************************************)
(* Scheduled runs: the loop that fires a run per due schedule, the run     *)
(* itself (a fresh venue, one agent turn, the notification, the removal of *)
(* the venue), the start-up sweep, and a shutdown that waits for runs for  *)
(* a bounded time and then cancels them.                                   *)
(*                                                                         *)
(* Time is counted in minutes, the grain of a cron expression.  The wall   *)
(* clock may also go back (daylight saving, a corrected clock).  A run is  *)
(* a pair of its schedule and its number; AUTOINCREMENT never reuses a     *)
(* conversation id, so the run also names the row it inserts.              *)
(***************************************************************************)
EXTENDS Naturals

CONSTANTS
    Schedules,  \* configured schedules; each has a venue chat id of its own
    Matches,    \* the minutes each schedule's cron expression matches
    LastMinute, \* bound: the clock's last minute
    MaxRuns,    \* bound: runs of one schedule
    MaxBack,    \* bound: times the clock goes back
    MaxBoots    \* bound: process starts

Minutes  == 0 .. LastMinute
Never    == LastMinute + 1   \* due: no fire time in the search window
Runs     == Schedules \X (1 .. MaxRuns)

ASSUME ScheduleAssumption ==
    /\ Matches \in [Schedules -> SUBSET Minutes]
    /\ LastMinute \in Nat /\ MaxRuns \in Nat /\ MaxBack \in Nat /\ MaxBoots \in Nat

VARIABLES
    clock,     \* the wall clock
    back,      \* times it went back
    process,   \* what the process is doing
    boots,     \* process starts so far
    qqUp,      \* a QQ client runs in this process
    due,       \* _Entry.due, per schedule
    started,   \* runs fired so far, per schedule; the last one is _Entry.flight
    stage,     \* where each run is
    cancelled, \* runs with a CancelledError still to be delivered
    rows,      \* conversations in the reserved range: the runs that inserted them
    firedAt,   \* history: the clock at the pass that fired a run
    base,      \* history: runs fired by earlier processes, per schedule
    bootAt     \* history: the clock when this process started its loop

timeVars == <<clock, back>>
loopVars == <<due, started, firedAt>>
runVars  == <<stage, cancelled, rows>>
bootVars == <<boots, qqUp, base, bootAt>>
vars     == <<timeVars, process, bootVars, loopVars, runVars>>

\* A run whose task is not done, and the stages in which it owns its venue.
Over      == {"none", "done"}
Venue     == {"refresh", "turn", "telegram", "qq", "cleanup"}
Active    == {r \in Runs : stage[r] \notin Over}
RowsOf(s) == {r \in rows : r[1] = s}

\* Mutant: the search is not bounded by the window.
NextFireEndless(s, m) ==
    IF \E n \in Matches[s] : n > m
    THEN CHOOSE n \in Matches[s] : n > m /\ \A k \in Matches[s] : k > m => n <= k
    ELSE m + Never

\* CronSpec.next_fire: the first matching minute strictly after m.
NextFire(s, m) ==
    IF \E n \in Matches[s] : n > m
    THEN CHOOSE n \in Matches[s] : n > m /\ \A k \in Matches[s] : k > m => n <= k
    ELSE Never

InFlight(s) == started[s] > 0 /\ stage[<<s, started[s]>>] \notin Over

-----------------------------------------------------------------------------
Init ==
    /\ clock = 0 /\ back = 0
    /\ process = "off" /\ boots = 0
    /\ qqUp = FALSE
    /\ due = [s \in Schedules |-> Never]
    /\ started = [s \in Schedules |-> 0]
    /\ stage = [r \in Runs |-> "none"]
    /\ cancelled = {}
    /\ rows = {}
    /\ firedAt = [r \in Runs |-> 0]
    /\ base = [s \in Schedules |-> 0]
    /\ bootAt = 0

Tick ==
    /\ clock < LastMinute
    /\ clock' = clock + 1
    /\ UNCHANGED <<back, process, bootVars, loopVars, runVars>>

ClockBack ==
    /\ clock > 0 /\ back < MaxBack
    /\ clock' = clock - 1
    /\ back' = back + 1
    /\ UNCHANGED <<process, bootVars, loopVars, runVars>>

-----------------------------------------------------------------------------
(* _post_init: sweep the reserved range, then start the loop                *)

\* Every due time is computed from now: what was missed while down is lost.
Start ==
    /\ process = "off" /\ boots < MaxBoots
    /\ process' = "up"
    /\ boots' = boots + 1
    /\ qqUp' \in BOOLEAN
    /\ due' = [s \in Schedules |-> NextFire(s, clock)]
    /\ base' = started
    /\ bootAt' = clock
    /\ UNCHANGED <<timeVars, started, firedAt, stage, cancelled>>

\* clear_ephemeral_conversations deletes the whole range, or fails and is logged.
BootSweeps     == Start /\ rows' = {}
BootSweepFails == Start /\ UNCHANGED rows

\* Mutant: the flight of the schedule is not looked at.
LoopPassOverlapping ==
    LET ready == {s \in Schedules : due[s] <= clock} IN
    /\ process = "up"
    /\ ready # {}
    /\ \A s \in ready : started[s] < MaxRuns
    /\ started' = [s \in Schedules |-> IF s \in ready THEN started[s] + 1 ELSE started[s]]
    /\ stage' = [r \in Runs |-> IF r[1] \in ready /\ r[2] = started'[r[1]]
                                THEN "reset" ELSE stage[r]]
    /\ firedAt' = [r \in Runs |-> IF r[1] \in ready /\ r[2] = started'[r[1]]
                                  THEN clock ELSE firedAt[r]]
    /\ due' = [s \in Schedules |-> IF s \in ready THEN NextFire(s, clock) ELSE due[s]]
    /\ UNCHANGED <<timeVars, process, bootVars, cancelled, rows>>

\* Mutant: the next due time is computed from the last one: missed minutes are
\* caught up, one run after the other.
LoopPassCatchingUp ==
    LET ready == {s \in Schedules : due[s] <= clock}
        fire  == {s \in ready : ~InFlight(s)} IN
    /\ process = "up"
    /\ ready # {}
    /\ \A s \in fire : started[s] < MaxRuns
    /\ started' = [s \in Schedules |-> IF s \in fire THEN started[s] + 1 ELSE started[s]]
    /\ stage' = [r \in Runs |-> IF r[1] \in fire /\ r[2] = started'[r[1]]
                                THEN "reset" ELSE stage[r]]
    /\ firedAt' = [r \in Runs |-> IF r[1] \in fire /\ r[2] = started'[r[1]]
                                  THEN clock ELSE firedAt[r]]
    /\ due' = [s \in Schedules |-> IF s \in ready THEN NextFire(s, due[s]) ELSE due[s]]
    /\ UNCHANGED <<timeVars, process, bootVars, cancelled, rows>>

\* _tick, a pass without an await: every schedule that is due fires unless its
\* last run is in flight, and in both cases looks for its next minute from now.
\* Late passes are passes at a later clock; the length of a sleep is not modelled.
LoopPass ==
    LET ready == {s \in Schedules : due[s] <= clock}
        fire  == {s \in ready : ~InFlight(s)} IN
    /\ process = "up"
    /\ ready # {}
    /\ \A s \in fire : started[s] < MaxRuns
    /\ started' = [s \in Schedules |-> IF s \in fire THEN started[s] + 1 ELSE started[s]]
    /\ stage' = [r \in Runs |-> IF r[1] \in fire /\ r[2] = started'[r[1]]
                                THEN "reset" ELSE stage[r]]
    /\ firedAt' = [r \in Runs |-> IF r[1] \in fire /\ r[2] = started'[r[1]]
                                  THEN clock ELSE firedAt[r]]
    /\ due' = [s \in Schedules |-> IF s \in ready THEN NextFire(s, clock) ELSE due[s]]
    /\ UNCHANGED <<timeVars, process, bootVars, cancelled, rows>>

-----------------------------------------------------------------------------
(* _run_schedule                                                            *)

\* One step of a run; a cancelled task only receives its CancelledError.
Advance(r, from, to) ==
    /\ stage[r] = from
    /\ r \notin cancelled
    /\ stage' = [stage EXCEPT ![r] = to]
    /\ UNCHANGED <<timeVars, process, bootVars, loopVars, cancelled>>

\* Mutant: the venue is not reset, a leftover row stays beside the new one.
KeepOldVenue(r) ==
    /\ Advance(r, "reset", "insert")
    /\ UNCHANGED rows

\* reset_conversation, first transaction: a killed run's leftover is deleted.
DropOldVenue(r) ==
    /\ Advance(r, "reset", "insert")
    /\ rows' = rows \ RowsOf(r[1])

\* ... and the second one: a fresh, empty conversation.
InsertVenue(r) ==
    /\ Advance(r, "insert", "refresh")
    /\ rows' = rows \cup {r}

\* An error of the database before the try: the run ends, nothing to clean up.
PrepareFails(r) ==
    /\ \E from \in {"reset", "insert", "refresh"} : Advance(r, from, "done")
    /\ UNCHANGED rows

BeginTurn(r) == Advance(r, "refresh", "turn") /\ UNCHANGED rows

\* process_message returns a reply or raises an AgentError: there is a text to
\* tell; an empty reply or another error tells nothing.
TurnHasText(r)  == Advance(r, "turn", "telegram") /\ UNCHANGED rows
TurnHasNone(r)  == Advance(r, "turn", "cleanup") /\ UNCHANGED rows

\* Best effort, one channel after the other: a failure does not stop the run.
TellTelegram(r) == Advance(r, "telegram", "qq") /\ UNCHANGED rows
TellQQ(r)       == Advance(r, "qq", "cleanup") /\ UNCHANGED rows

Cleanup(r) ==
    /\ Advance(r, "cleanup", "done")
    /\ rows' = rows \ {r}

CleanupFails(r) == Advance(r, "cleanup", "done") /\ UNCHANGED rows

\* Mutant: the runner swallows the CancelledError and goes on.
DeliverCancelSwallowed(r) ==
    /\ r \in cancelled
    /\ cancelled' = cancelled \ {r}
    /\ UNCHANGED <<timeVars, process, bootVars, loopVars, rows, stage>>

\* CancelledError: before the try, or in the cleanup itself, the run just ends;
\* in the try the finally still runs.
DeliverCancel(r) ==
    /\ r \in cancelled
    /\ cancelled' = cancelled \ {r}
    /\ stage' = [stage EXCEPT ![r] =
                   IF @ \in {"turn", "telegram", "qq"} THEN "cleanup" ELSE "done"]
    /\ UNCHANGED <<timeVars, process, bootVars, loopVars, rows>>

AroundTurn(r) ==
    \/ DropOldVenue(r) \/ InsertVenue(r) \/ PrepareFails(r) \/ BeginTurn(r)
    \/ TellTelegram(r) \/ TellQQ(r) \/ Cleanup(r) \/ CleanupFails(r)
    \/ DeliverCancel(r)

RunStep(r) == AroundTurn(r) \/ TurnHasText(r) \/ TurnHasNone(r)

-----------------------------------------------------------------------------
(* _post_shutdown: Scheduler.stop, the QQ teardown, the close               *)

Phase(from, to) ==
    /\ process = from
    /\ process' = to
    /\ UNCHANGED <<timeVars, bootVars, loopVars, stage, rows>>

\* The loop is cancelled first: nothing fires from here on.
StopLoop == Phase("up", "settle") /\ UNCHANGED cancelled

AllSettled == Phase("settle", "qq_close") /\ Active = {} /\ UNCHANGED cancelled

\* 30 seconds are over: cancel what is left, and wait 5 more.
SettleTimeout ==
    /\ Phase("settle", "grace")
    /\ Active # {}
    /\ cancelled' = cancelled \cup Active

GraceOver == Phase("grace", "qq_close") /\ UNCHANGED cancelled

\* _qq_shutdown_tasks: every task younger than the QQ client is cancelled,
\* scheduled runs too, and then awaited without a limit.
QQTeardown ==
    /\ Phase("qq_close", "drain")
    /\ qqUp
    /\ cancelled' = cancelled \cup Active

NoQQ == Phase("qq_close", "closing") /\ ~qqUp /\ UNCHANGED cancelled

Drained == Phase("drain", "closing") /\ Active = {} /\ UNCHANGED cancelled

\* The process ends, after the close or by a crash, with the tasks it still had.
Exit(from) ==
    /\ process \in from
    /\ process' = "off"
    /\ stage' = [r \in Runs |-> IF stage[r] = "none" THEN "none" ELSE "done"]
    /\ cancelled' = {}
    /\ UNCHANGED <<timeVars, bootVars, loopVars, rows>>

Close == Exit({"closing"})
Crash == Exit({"up", "settle", "grace", "qq_close", "drain"})

-----------------------------------------------------------------------------
Next ==
    \/ Tick \/ ClockBack
    \/ BootSweeps \/ BootSweepFails
    \/ LoopPass
    \/ \E r \in Runs : RunStep(r)
    \/ StopLoop \/ AllSettled \/ SettleTimeout \/ GraceOver
    \/ QQTeardown \/ NoQQ \/ Drained \/ Close \/ Crash

Spec == Init /\ [][Next]_vars

\* The database and the channels answer or time out, asyncio.wait has its time
\* limits, and the loop delivers a cancellation.  Nothing is assumed of a turn: it
\* may wait for a model, an approval or a lock for ever.
Fairness ==
    /\ \A r \in Runs : WF_vars(AroundTurn(r))
    /\ WF_vars(AllSettled) /\ WF_vars(SettleTimeout) /\ WF_vars(GraceOver)
    /\ WF_vars(QQTeardown) /\ WF_vars(NoQQ) /\ WF_vars(Drained) /\ WF_vars(Close)

FairSpec == Spec /\ Fairness

-----------------------------------------------------------------------------
SchedulerTypeOK ==
    /\ clock \in Minutes /\ back \in 0 .. MaxBack
    /\ process \in {"off", "up", "settle", "grace", "qq_close", "drain", "closing"}
    /\ boots \in 0 .. MaxBoots /\ qqUp \in BOOLEAN
    /\ due \in [Schedules -> Minutes \cup {Never}]
    /\ started \in [Schedules -> 0 .. MaxRuns]
    /\ base \in [Schedules -> 0 .. MaxRuns]
    /\ stage \in [Runs -> Over \cup Venue \cup {"reset", "insert"}]
    /\ cancelled \in SUBSET Runs
    /\ rows \in SUBSET Runs
    /\ firedAt \in [Runs -> Minutes] /\ bootAt \in Minutes

\* A run keeps the conversation it inserted until its own finally: neither the
\* next run of the schedule, which resets the same venue, nor the start-up sweep
\* deletes it under the turn.
VenueKept == \A r \in Runs : stage[r] \in Venue => r \in rows

\* Rows of killed, cancelled or failed runs do not pile up: a venue has at most
\* one row, whatever was lost (two would make every later run of it fail).
OneVenue == \A s \in Schedules : \A q, r \in RowsOf(s) : q = r

\* No catch-up and no double fire: since the process started, or since the pass
\* that fired the schedule's previous run, a minute of the schedule has come, however
\* late a pass is, however long a run blocks its schedule, and if the clock goes back.
Paced ==
    \A s \in Schedules : \A k \in base[s] + 1 .. started[s] :
        LET since == IF k = base[s] + 1 THEN bootAt ELSE firedAt[<<s, k - 1>>] IN
        \E m \in Matches[s] : since < m /\ m <= firedAt[<<s, k>>]

\* A shutdown ends although a turn may be stuck: the drain of the QQ teardown has
\* no limit, so every run it awaits must have been cancelled.
ShutdownEnds == process = "settle" ~> process = "off"
=============================================================================
