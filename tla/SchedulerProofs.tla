--------------------------- MODULE SchedulerProofs ---------------------------
(***************************************************************************)
(* Proofs about Scheduler, for any schedules, cron expressions, clocks,    *)
(* runs and process starts.                                                *)
(***************************************************************************)
EXTENDS Scheduler, WellFoundedInduction, TLAPS

\* A schedule has one run at a time: the last one it started.
SingleFlight == \A r \in Runs : stage[r] \notin Over => r[2] = started[r[1]]

\* A process that is gone has no runs.
NothingSurvives == process = "off" => Active = {}

\* Only a run that is not over has a cancellation to come.
CancelledActive == cancelled \subseteq Active

\* A run that is about to insert its venue has deleted what was left of it.
Cleared == \A r \in Runs : stage[r] = "insert" => RowsOf(r[1]) = {}

\* The moment a schedule's next fire was last searched from, or an earlier one.
Since(s) == IF started[s] = base[s] THEN bootAt ELSE firedAt[<<s, started[s]>>]

\* A due time is a minute of the schedule after its last run of this process.
DueLater ==
    \A s \in Schedules : due[s] # Never => due[s] \in Matches[s] /\ due[s] > Since(s)

\* Runs of earlier processes were started before those of this one.
BaseFirst == \A s \in Schedules : base[s] <= started[s]

VenueInv ==
    /\ SchedulerTypeOK
    /\ SingleFlight
    /\ NothingSurvives
    /\ CancelledActive
    /\ Cleared
    /\ VenueKept
    /\ OneVenue

PaceInv ==
    /\ SchedulerTypeOK
    /\ BaseFirst
    /\ DueLater
    /\ Paced

-----------------------------------------------------------------------------
(* The search                                                               *)

LEMMA NeverIsLater == Never \in Nat /\ \A m \in Minutes : m \in Nat /\ m < Never /\ m <= LastMinute
BY ScheduleAssumption DEF Never, Minutes

\* A set of numbers that is not empty has a least one.
LEMMA LeastMinute ==
    ASSUME NEW S \in SUBSET Nat, S # {}
    PROVE  \E x \in S : \A y \in S : x <= y
<1>1. PICK x \in S : \A y \in S : ~(<<y, x>> \in OpToRel(<, Nat))
  BY NatLessThanWellFounded, WFMin, Zenon
<1>2. ASSUME NEW y \in S PROVE ~(y < x)
  BY <1>1 DEF OpToRel
<1>3. ASSUME NEW y \in S PROVE x <= y
  BY <1>2
<1> QED
  BY <1>3

\* NextFire gives a matching minute after the given one, or none.
LEMMA NextFireFound ==
    ASSUME NEW s \in Schedules, NEW m \in Minutes
    PROVE  /\ NextFire(s, m) \in Minutes \cup {Never}
           /\ NextFire(s, m) # Never =>
                 NextFire(s, m) \in Matches[s] /\ NextFire(s, m) > m
<1> DEFINE later    == {n \in Matches[s] : n > m}
           First(n) == n \in Matches[s] /\ n > m /\ \A k \in Matches[s] : k > m => n <= k
<1>1. Matches[s] \subseteq Minutes
  BY ScheduleAssumption
<1>2. CASE later # {}
  <2>1. later \in SUBSET Nat
    BY <1>1, NeverIsLater
  <2>2. PICK least \in later : \A k \in later : least <= k
    BY <1>2, <2>1, LeastMinute
  <2>3. First(least)
    BY <2>2
  <2>4. NextFire(s, m) = CHOOSE n \in Matches[s] :
                            n > m /\ \A k \in Matches[s] : k > m => n <= k
    BY <1>2 DEF NextFire
  <2>5. First(NextFire(s, m))
    BY <2>3, <2>4
  <2> QED
    BY <1>1, <2>5
<1>3. CASE later = {}
  <2>1. NextFire(s, m) = Never
    BY <1>3 DEF NextFire
  <2> QED
    BY <2>1
<1> QED
  BY <1>2, <1>3

LEMMA RunsPair ==
    /\ \A r \in Runs : r[1] \in Schedules /\ r[2] \in 1 .. MaxRuns /\ r = <<r[1], r[2]>>
    /\ \A s \in Schedules, k \in 1 .. MaxRuns : <<s, k>> \in Runs
BY DEF Runs

-----------------------------------------------------------------------------
(* Types                                                                    *)

LEMMA InitType == Init => SchedulerTypeOK
<1> SUFFICES ASSUME Init PROVE SchedulerTypeOK
  OBVIOUS
<1>1. 0 \in Minutes /\ 0 \in 0 .. MaxBack /\ 0 \in 0 .. MaxBoots /\ 0 \in 0 .. MaxRuns
  BY ScheduleAssumption DEF Minutes
<1> QED
  BY <1>1 DEF Init, SchedulerTypeOK, Over

LEMMA PassType ==
    ASSUME SchedulerTypeOK, LoopPass
    PROVE  SchedulerTypeOK'
<1> USE DEF SchedulerTypeOK
<1>1. started' \in [Schedules -> 0 .. MaxRuns]
  BY ScheduleAssumption DEF LoopPass
<1>2. stage' \in [Runs -> Over \cup Venue \cup {"reset", "insert"}]
  BY DEF LoopPass
<1>3. firedAt' \in [Runs -> Minutes]
  BY DEF LoopPass
<1>4. due' \in [Schedules -> Minutes \cup {Never}]
  BY NextFireFound DEF LoopPass
<1> QED
  BY <1>1, <1>2, <1>3, <1>4 DEF LoopPass, timeVars, bootVars

LEMMA StartType ==
    ASSUME SchedulerTypeOK, BootSweeps \/ BootSweepFails
    PROVE  SchedulerTypeOK'
<1>1. due' \in [Schedules -> Minutes \cup {Never}]
  BY NextFireFound DEF BootSweeps, BootSweepFails, Start, SchedulerTypeOK
<1> QED
  BY <1>1, ScheduleAssumption
  DEF BootSweeps, BootSweepFails, Start, SchedulerTypeOK, timeVars

LEMMA RunType ==
    ASSUME SchedulerTypeOK, NEW r \in Runs, RunStep(r)
    PROVE  SchedulerTypeOK'
<1> USE DEF SchedulerTypeOK, Advance, Over, Venue, timeVars, bootVars, loopVars
<1>1. CASE DropOldVenue(r) \/ InsertVenue(r) \/ PrepareFails(r) \/ BeginTurn(r)
  BY <1>1 DEF DropOldVenue, InsertVenue, PrepareFails, BeginTurn
<1>2. CASE TurnHasText(r) \/ TurnHasNone(r) \/ TellTelegram(r) \/ TellQQ(r)
  BY <1>2 DEF TurnHasText, TurnHasNone, TellTelegram, TellQQ
<1>3. CASE Cleanup(r) \/ CleanupFails(r)
  BY <1>3 DEF Cleanup, CleanupFails
<1>4. CASE DeliverCancel(r)
  BY <1>4 DEF DeliverCancel
<1> QED
  BY <1>1, <1>2, <1>3, <1>4 DEF RunStep, AroundTurn

\* The clock, and the phases of the shutdown.
Outside ==
    \/ Tick \/ ClockBack
    \/ StopLoop \/ AllSettled \/ SettleTimeout \/ GraceOver
    \/ QQTeardown \/ NoQQ \/ Drained \/ Close \/ Crash

LEMMA OutsideType ==
    ASSUME SchedulerTypeOK, Outside
    PROVE  SchedulerTypeOK'
<1> USE DEF SchedulerTypeOK, timeVars, bootVars, loopVars, runVars
<1>1. CASE Tick \/ ClockBack
  BY <1>1, ScheduleAssumption DEF Tick, ClockBack, Minutes
<1>2. CASE StopLoop \/ AllSettled \/ SettleTimeout \/ GraceOver \/ QQTeardown \/ NoQQ \/ Drained
  BY <1>2 DEF StopLoop, AllSettled, SettleTimeout, GraceOver, QQTeardown, NoQQ, Drained,
              Phase, Active
<1>3. CASE Close \/ Crash
  BY <1>3 DEF Close, Crash, Exit, Over
<1> QED
  BY <1>1, <1>2, <1>3 DEF Outside

LEMMA NextType == SchedulerTypeOK /\ [Next]_vars => SchedulerTypeOK'
<1> SUFFICES ASSUME SchedulerTypeOK, [Next]_vars PROVE SchedulerTypeOK'
  OBVIOUS
<1>1. CASE UNCHANGED vars
  BY <1>1 DEF vars, timeVars, bootVars, loopVars, runVars, SchedulerTypeOK
<1> QED
  BY <1>1, PassType, StartType, RunType, OutsideType DEF Next, Outside

THEOREM SchedulerTypeCorrect == Spec => []SchedulerTypeOK
BY InitType, NextType, PTL DEF Spec

-----------------------------------------------------------------------------
(* One run per schedule, and its venue                                      *)

LEMMA InitVenue == Init => VenueInv
<1> SUFFICES ASSUME Init PROVE VenueInv
  OBVIOUS
<1>1. SingleFlight /\ NothingSurvives /\ CancelledActive /\ Cleared /\ VenueKept
  BY DEF Init, SingleFlight, NothingSurvives, CancelledActive, Active, Cleared, VenueKept, Over, Venue
<1>2. OneVenue
  BY DEF Init, OneVenue, RowsOf
<1> QED
  BY <1>1, <1>2, InitType DEF VenueInv

\* A pass only fires schedules whose last run is over, so no venue is touched.
LEMMA PassVenue ==
    ASSUME VenueInv, LoopPass
    PROVE  VenueInv'
<1> DEFINE ready == {s \in Schedules : due[s] <= clock}
           fire  == {s \in ready : ~InFlight(s)}
           Fired(r) == r[1] \in fire /\ r[2] = started[r[1]] + 1
<1>1. /\ process = "up" /\ process' = "up" /\ UNCHANGED <<rows, cancelled>>
      /\ started' = [s \in Schedules |-> IF s \in fire THEN started[s] + 1 ELSE started[s]]
      /\ stage' = [r \in Runs |-> IF r[1] \in fire /\ r[2] = started'[r[1]]
                                  THEN "reset" ELSE stage[r]]
  BY DEF LoopPass
<1>2. SchedulerTypeOK'
  BY PassType DEF VenueInv
<1>3. ASSUME NEW r \in Runs
      PROVE  \/ Fired(r) /\ stage'[r] = "reset" /\ started'[r[1]] = r[2]
             \/ ~Fired(r) /\ stage'[r] = stage[r]
                /\ (stage[r] \notin Over => started'[r[1]] = started[r[1]])
  <2>1. r[1] \in Schedules /\ r[2] \in 1 .. MaxRuns /\ r = <<r[1], r[2]>>
    BY RunsPair
  <2>2. stage[r] \notin Over => r[2] = started[r[1]] /\ InFlight(r[1])
    BY <2>1 DEF VenueInv, SingleFlight, InFlight
  <2>3. started[r[1]] \in Nat
    BY <2>1 DEF VenueInv, SchedulerTypeOK
  <2> QED
    BY <1>1, <2>1, <2>2, <2>3
<1>4. SingleFlight'
  BY <1>3 DEF VenueInv, SingleFlight
<1>5. Cleared' /\ VenueKept' /\ OneVenue'
  BY <1>1, <1>3 DEF VenueInv, Cleared, VenueKept, OneVenue, RowsOf, Venue
<1>6. CancelledActive'
  BY <1>1, <1>3 DEF VenueInv, CancelledActive, Active, Over
<1> QED
  BY <1>1, <1>2, <1>4, <1>5, <1>6 DEF VenueInv, NothingSurvives

\* The sweep deletes venues of no run: a process starts with none.
LEMMA StartVenue ==
    ASSUME VenueInv, BootSweeps \/ BootSweepFails
    PROVE  VenueInv'
<1>1. /\ process = "off" /\ process' = "up" /\ UNCHANGED <<started, stage, cancelled>>
      /\ rows' = {} \/ rows' = rows
  BY DEF BootSweeps, BootSweepFails, Start
<1>2. \A r \in Runs : stage[r] \in Over
  BY <1>1 DEF VenueInv, NothingSurvives, Active
<1>3. SchedulerTypeOK'
  BY StartType DEF VenueInv
<1>4. SingleFlight' /\ NothingSurvives' /\ Cleared' /\ VenueKept'
  BY <1>1, <1>2 DEF SingleFlight, NothingSurvives, Active, Cleared, VenueKept, Over, Venue
<1>5. CancelledActive'
  BY <1>1 DEF VenueInv, CancelledActive, Active
<1>6. OneVenue'
  BY <1>1 DEF VenueInv, OneVenue, RowsOf
<1> QED
  BY <1>3, <1>4, <1>5, <1>6 DEF VenueInv

\* A run that moves on: the only one of its schedule, so the only one whose
\* venue its writes can touch.
LEMMA RunVenue ==
    ASSUME VenueInv, NEW r \in Runs, RunStep(r)
    PROVE  VenueInv'
<1>1. stage[r] \notin Over
  BY DEF VenueInv, CancelledActive, Active, RunStep, AroundTurn, DropOldVenue, InsertVenue,
         PrepareFails, BeginTurn, TurnHasText, TurnHasNone, TellTelegram, TellQQ, Cleanup,
         CleanupFails, DeliverCancel, Advance, Over
<1>2. SchedulerTypeOK'
  BY RunType DEF VenueInv
<1>3. UNCHANGED <<process, started>>
  BY DEF RunStep, AroundTurn, DropOldVenue, InsertVenue, PrepareFails, BeginTurn, TurnHasText,
         TurnHasNone, TellTelegram, TellQQ, Cleanup, CleanupFails, DeliverCancel, Advance,
         loopVars
<1>4. /\ stage' = [stage EXCEPT ![r] = stage'[r]]
      /\ \/ stage'[r] = "insert" /\ rows' = rows \ RowsOf(r[1])
         \/ stage[r] = "insert" /\ stage'[r] = "refresh" /\ rows' = rows \cup {r}
         \/ stage'[r] = "done" /\ rows' = rows \ {r}
         \/ stage'[r] = "done" /\ rows' = rows
         \/ stage[r] \in Venue /\ stage'[r] \in Venue /\ rows' = rows
  BY DEF VenueInv, SchedulerTypeOK, RunStep, AroundTurn, DropOldVenue, InsertVenue, PrepareFails,
         BeginTurn, TurnHasText, TurnHasNone, TellTelegram, TellQQ, Cleanup, CleanupFails,
         DeliverCancel, Advance, Venue
<1>5. \A q \in Runs : q # r => stage'[q] = stage[q]
  BY <1>4 DEF VenueInv, SchedulerTypeOK
<1>6. \A q \in Runs : q # r /\ q[1] = r[1] => stage[q] \in Over
  BY <1>1, RunsPair DEF VenueInv, SingleFlight
<1>7. SingleFlight' /\ NothingSurvives'
  BY <1>1, <1>3, <1>5 DEF VenueInv, SingleFlight, NothingSurvives, Active
<1>8. CancelledActive'
  <2>1. cancelled' = cancelled \ {r}
    BY DEF RunStep, AroundTurn, DropOldVenue, InsertVenue, PrepareFails, BeginTurn,
           TurnHasText, TurnHasNone, TellTelegram, TellQQ, Cleanup, CleanupFails,
           DeliverCancel, Advance
  <2> QED
    BY <2>1, <1>5 DEF VenueInv, CancelledActive, Active
<1>9. Cleared'
  <2> SUFFICES ASSUME NEW q \in Runs, stage'[q] = "insert" PROVE RowsOf(q[1])' = {}
    BY DEF Cleared
  <2>1. CASE q = r
    BY <2>1, <1>4 DEF RowsOf, Venue
  <2>2. CASE q # r
    <3>1. stage[q] = "insert" /\ RowsOf(q[1]) = {}
      BY <2>2, <1>5 DEF VenueInv, Cleared
    <3>2. q[1] # r[1]
      BY <2>2, <3>1, <1>6 DEF Over
    <3> QED
      BY <3>1, <3>2, <1>4 DEF RowsOf
  <2> QED
    BY <2>1, <2>2
<1>10. VenueKept'
  <2> SUFFICES ASSUME NEW q \in Runs, stage'[q] \in Venue PROVE q \in rows'
    BY DEF VenueKept
  <2>1. CASE q = r
    BY <2>1, <1>4 DEF VenueInv, VenueKept, Venue
  <2>2. CASE q # r
    <3>1. stage[q] \in Venue /\ q \in rows
      BY <2>2, <1>5 DEF VenueInv, VenueKept
    <3>2. q[1] # r[1]
      BY <2>2, <3>1, <1>6 DEF Over, Venue
    <3> QED
      BY <2>2, <3>1, <3>2, <1>4 DEF RowsOf
  <2> QED
    BY <2>1, <2>2
<1>11. OneVenue'
  <2> SUFFICES ASSUME NEW s \in Schedules, NEW p \in RowsOf(s)', NEW q \in RowsOf(s)'
               PROVE  p = q
    BY DEF OneVenue
  <2>1. CASE stage[r] = "insert" /\ rows' = rows \cup {r}
    <3>1. RowsOf(r[1]) = {}
      BY <2>1 DEF VenueInv, Cleared
    <3> QED
      BY <2>1, <3>1 DEF VenueInv, OneVenue, RowsOf
  <2>2. CASE rows' \subseteq rows
    BY <2>2 DEF VenueInv, OneVenue, RowsOf
  <2> QED
    BY <2>1, <2>2, <1>4
<1> QED
  BY <1>2, <1>7, <1>9, <1>10, <1>11, <1>8 DEF VenueInv

\* A shutdown cancels runs, or ends the process and with it every run.
LEMMA OutsideVenue ==
    ASSUME VenueInv, Outside
    PROVE  VenueInv'
<1> USE DEF timeVars, bootVars, loopVars, runVars
<1>1. SchedulerTypeOK'
  BY OutsideType DEF VenueInv
<1>2. UNCHANGED <<rows, started>>
  BY DEF Outside, Tick, ClockBack, StopLoop, AllSettled, SettleTimeout, GraceOver, QQTeardown,
         NoQQ, Drained, Close, Crash, Phase, Exit
<1>3. CASE /\ stage' = stage
           /\ process' # "off" \/ process' = process
           /\ cancelled' \in {cancelled, cancelled \cup Active}
  BY <1>1, <1>2, <1>3 DEF VenueInv, SingleFlight, NothingSurvives, CancelledActive, Active,
                           Cleared, VenueKept, OneVenue, RowsOf
<1>4. CASE Close \/ Crash
  <2>1. (\A r \in Runs : stage'[r] \in Over) /\ cancelled' = {}
    BY <1>4 DEF Close, Crash, Exit, Over
  <2> QED
    BY <2>1, <1>1, <1>2 DEF VenueInv, SingleFlight, NothingSurvives, CancelledActive, Active,
                            Cleared, VenueKept, OneVenue, RowsOf, Over, Venue
<1> QED
  BY <1>3, <1>4 DEF Outside, Tick, ClockBack, StopLoop, AllSettled, SettleTimeout, GraceOver,
                    QQTeardown, NoQQ, Drained, Phase

LEMMA NextVenue == VenueInv /\ [Next]_vars => VenueInv'
<1> SUFFICES ASSUME VenueInv, [Next]_vars PROVE VenueInv'
  OBVIOUS
<1>1. CASE UNCHANGED vars
  BY <1>1, NextType DEF vars, timeVars, bootVars, loopVars, runVars, VenueInv, SingleFlight,
           NothingSurvives, CancelledActive, Active, Cleared, VenueKept, OneVenue, RowsOf
<1> QED
  BY <1>1, PassVenue, StartVenue, RunVenue, OutsideVenue DEF Next, Outside

\* A run keeps the conversation it inserted until its own finally.
THEOREM VenueSafe == Spec => []VenueKept
<1>1. VenueInv => VenueKept
  BY DEF VenueInv
<1> QED
  BY <1>1, InitVenue, NextVenue, PTL DEF Spec

\* A venue never has two conversations, whatever killed, cancelled or failed
\* runs left behind.
THEOREM VenueUnique == Spec => []OneVenue
<1>1. VenueInv => OneVenue
  BY DEF VenueInv
<1> QED
  BY <1>1, InitVenue, NextVenue, PTL DEF Spec

-----------------------------------------------------------------------------
(* No minute is run twice                                                   *)

LEMMA InitPace == Init => PaceInv
<1> SUFFICES ASSUME Init PROVE PaceInv
  OBVIOUS
<1>1. SchedulerTypeOK
  BY InitType
<1>2. BaseFirst /\ DueLater
  BY DEF Init, BaseFirst, DueLater
<1>3. Paced
  BY DEF Init, Paced
<1> QED
  BY <1>1, <1>2, <1>3 DEF PaceInv

\* The pass fires what is due, and what it searches next lies after the clock.
LEMMA PassPace ==
    ASSUME PaceInv, LoopPass
    PROVE  PaceInv'
<1> DEFINE ready == {s \in Schedules : due[s] <= clock}
           fire  == {s \in ready : ~InFlight(s)}
<1>1. /\ \A s \in fire : started[s] < MaxRuns
      /\ started' = [s \in Schedules |-> IF s \in fire THEN started[s] + 1 ELSE started[s]]
      /\ firedAt' = [r \in Runs |-> IF r[1] \in fire /\ r[2] = started'[r[1]]
                                    THEN clock ELSE firedAt[r]]
      /\ due' = [s \in Schedules |-> IF s \in ready THEN NextFire(s, clock) ELSE due[s]]
      /\ UNCHANGED <<base, bootAt, clock>>
  BY DEF LoopPass, timeVars, bootVars
<1>2. SchedulerTypeOK'
  BY PassType DEF PaceInv
<1>3. /\ clock \in Minutes /\ clock \in Nat /\ bootAt \in Nat
      /\ \A s \in Schedules : started[s] \in Nat /\ base[s] \in Nat /\ started[s] <= MaxRuns
      /\ \A s \in Schedules : due[s] \in Nat
      /\ \A r \in Runs : firedAt[r] \in Nat
  BY NeverIsLater, ScheduleAssumption DEF PaceInv, SchedulerTypeOK
<1>4. BaseFirst'
  BY <1>1, <1>3 DEF PaceInv, BaseFirst
<1>5. \A s \in Schedules, k \in 1 .. MaxRuns :
         k # started'[s] \/ s \notin fire => firedAt'[<<s, k>>] = firedAt[<<s, k>>]
  BY <1>1, RunsPair
<1>6. \A s \in fire : /\ started'[s] = started[s] + 1 /\ started'[s] \in 1 .. MaxRuns
                      /\ firedAt'[<<s, started'[s]>>] = clock
  BY <1>1, <1>3, RunsPair, ScheduleAssumption
<1>7. ASSUME NEW s \in ready
      PROVE  due[s] \in Matches[s] /\ due[s] > Since(s) /\ due[s] <= clock
  <2>1. due[s] <= clock /\ clock < Never /\ due[s] \in Nat /\ Never \in Nat
    BY <1>3, NeverIsLater
  <2>2. due[s] # Never
    BY <1>3, <2>1
  <2> QED
    BY <2>1, <2>2 DEF PaceInv, DueLater
<1>8. \A s \in Schedules : started[s] # base[s] => started[s] \in 1 .. MaxRuns
  BY <1>3 DEF PaceInv, BaseFirst
<1>9. DueLater'
  <2> SUFFICES ASSUME NEW s \in Schedules, due'[s] # Never
               PROVE  due'[s] \in Matches[s] /\ due'[s] > Since(s)'
    BY DEF DueLater
  <2>1. CASE s \in fire
    <3>1. Since(s)' = clock
      BY <2>1, <1>1, <1>3, <1>4, <1>6 DEF Since, BaseFirst, PaceInv
    <3> QED
      BY <2>1, <3>1, <1>1, <1>3, NextFireFound
  <2>2. CASE s \notin fire
    <3>1. Since(s)' = Since(s) /\ Since(s) \in Nat
      BY <2>2, <1>1, <1>3, <1>5, <1>8, RunsPair DEF Since
    <3>2. CASE s \in ready
      <4>1. due[s] > Since(s) /\ due[s] <= clock
        BY <3>2, <1>7
      <4>2. due'[s] = NextFire(s, clock) /\ due'[s] \in Matches[s] /\ due'[s] > clock
        BY <3>2, <1>1, <1>3, NextFireFound
      <4>3. due[s] \in Nat /\ due'[s] \in Nat
        BY <1>2, <1>3, NeverIsLater DEF SchedulerTypeOK
      <4> QED
        BY <3>1, <4>1, <4>2, <4>3, <1>3
    <3>3. CASE s \notin ready
      BY <3>1, <3>3, <1>1 DEF PaceInv, DueLater
    <3> QED
      BY <3>2, <3>3
  <2> QED
    BY <2>1, <2>2
<1>10. Paced'
  <2> DEFINE From(s, k) == IF k = base[s] + 1 THEN bootAt ELSE firedAt[<<s, k - 1>>]
  <2> SUFFICES ASSUME NEW s \in Schedules, NEW k \in base[s] + 1 .. started'[s]
               PROVE  \E m \in Matches[s] : From(s, k)' < m /\ m <= firedAt'[<<s, k>>]
    BY <1>1 DEF Paced
  <2>1. /\ started'[s] \in Nat /\ started'[s] <= MaxRuns /\ started[s] \in Nat /\ base[s] \in Nat
        /\ base'[s] = base[s] /\ bootAt' = bootAt
    BY <1>1, <1>2, <1>3, ScheduleAssumption DEF SchedulerTypeOK
  <2>2. /\ k \in Nat /\ k \in 1 .. MaxRuns /\ k <= started'[s]
        /\ k # base[s] + 1 => k - 1 \in 1 .. MaxRuns /\ k - 1 # started'[s]
    BY <2>1, ScheduleAssumption
  <2>3. s \in fire => started'[s] = started[s] + 1
    BY <1>6
  <2>4. From(s, k)' = From(s, k)
    BY <2>1, <2>2, <1>5
  <2>5. CASE s \in fire /\ k = started'[s]
    <3>1. From(s, k) = Since(s)
      <4>1. k = started[s] + 1 /\ k - 1 = started[s]
        BY <2>1, <2>5, <2>3
      <4>2. k = base[s] + 1 <=> started[s] = base[s]
        BY <2>1, <4>1
      <4> QED
        BY <4>1, <4>2 DEF Since
    <3> QED
      BY <2>4, <2>5, <3>1, <1>6, <1>7
  <2>6. CASE ~(s \in fire /\ k = started'[s])
    <3>1. firedAt'[<<s, k>>] = firedAt[<<s, k>>]
      BY <2>6, <2>2, <1>5
    <3>2. k <= started[s]
      <4>1. CASE s \in fire
        BY <4>1, <2>1, <2>6, <2>2, <2>3
      <4>2. CASE s \notin fire
        BY <4>2, <2>2, <1>1
      <4> QED
        BY <4>1, <4>2
    <3>3. k \in base[s] + 1 .. started[s]
      BY <3>2, <2>1
    <3> QED
      BY <2>4, <3>1, <3>3 DEF PaceInv, Paced
  <2> QED
    BY <2>5, <2>6
<1> QED
  BY <1>2, <1>4, <1>9, <1>10 DEF PaceInv

\* A start searches from the clock, and counts runs from here.
LEMMA StartPace ==
    ASSUME PaceInv, BootSweeps \/ BootSweepFails
    PROVE  PaceInv'
<1>1. /\ due' = [s \in Schedules |-> NextFire(s, clock)]
      /\ base' = started /\ bootAt' = clock
      /\ UNCHANGED <<started, firedAt>>
  BY DEF BootSweeps, BootSweepFails, Start
<1>2. SchedulerTypeOK'
  BY StartType DEF PaceInv
<1>3. \A s \in Schedules : started[s] \in Nat
  BY ScheduleAssumption DEF PaceInv, SchedulerTypeOK
<1>4. BaseFirst'
  BY <1>1, <1>3 DEF BaseFirst
<1>5. DueLater'
  <2>1. clock \in Minutes
    BY DEF PaceInv, SchedulerTypeOK
  <2>2. \A s \in Schedules : Since(s)' = clock
    BY <1>1 DEF Since
  <2> QED
    BY <1>1, <2>1, <2>2, NextFireFound DEF DueLater
<1>6. Paced'
  <2> SUFFICES ASSUME NEW s \in Schedules, NEW k \in base'[s] + 1 .. started'[s]
               PROVE  FALSE
    BY DEF Paced
  <2> QED
    BY <1>1, <1>3
<1> QED
  BY <1>2, <1>4, <1>5, <1>6 DEF PaceInv

\* Everything else leaves what fired, and what is due, alone.
LEMMA OtherPace ==
    ASSUME PaceInv, Outside \/ \E r \in Runs : RunStep(r)
    PROVE  PaceInv'
<1>1. SchedulerTypeOK'
  BY RunType, OutsideType DEF PaceInv
<1>2. UNCHANGED <<due, started, firedAt, base, bootAt>>
  <2>1. CASE Outside
    BY <2>1 DEF Outside, Tick, ClockBack, StopLoop, AllSettled, SettleTimeout, GraceOver,
           QQTeardown, NoQQ, Drained, Close, Crash, Phase, Exit, bootVars, loopVars
  <2>2. ASSUME NEW r \in Runs, RunStep(r) PROVE UNCHANGED <<loopVars, bootVars>>
    BY <2>2 DEF RunStep, AroundTurn, DropOldVenue, InsertVenue, PrepareFails, BeginTurn,
           TurnHasText, TurnHasNone, TellTelegram, TellQQ, Cleanup, CleanupFails,
           DeliverCancel, Advance
  <2> QED
    BY <2>1, <2>2 DEF loopVars, bootVars
<1> QED
  BY <1>1, <1>2 DEF PaceInv, BaseFirst, DueLater, Since, Paced

LEMMA NextPace == PaceInv /\ [Next]_vars => PaceInv'
<1> SUFFICES ASSUME PaceInv, [Next]_vars PROVE PaceInv'
  OBVIOUS
<1>1. CASE UNCHANGED vars
  BY <1>1, NextType DEF vars, loopVars, bootVars, PaceInv, BaseFirst, DueLater, Since, Paced
<1> QED
  BY <1>1, PassPace, StartPace, OtherPace DEF Next, Outside

\* Each run answers a minute of its schedule that came after the run before it,
\* or after the start of the process: no minute fires twice, none is caught up.
THEOREM NoCatchUp == Spec => []Paced
<1>1. PaceInv => Paced
  BY DEF PaceInv
<1> QED
  BY <1>1, InitPace, NextPace, PTL DEF Spec
=============================================================================
