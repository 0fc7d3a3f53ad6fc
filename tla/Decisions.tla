------------------------------ MODULE Decisions ------------------------------
(***************************************************************************)
(* The decisions the program takes without any state: what a request       *)
(* carries, when a schedule fires next, and which configurations are       *)
(* accepted.  Each step asks one question; the answers are the operators   *)
(* of ContextPlan, Cron and Config, compared with what they promise.       *)
(***************************************************************************)
EXTENDS ContextPlan, Config

CONSTANTS
    Requests, \* inputs of process_message's planning
    Fires,    \* an expression and a moment
    Setups    \* configurations

ASSUME RequestsAssumption ==
    \A r \in Requests :
        /\ r.system \in Text /\ r.current \in Message /\ r.history \in Seq(Message)
        /\ {r.limit, r.cap, r.budget, r.subBudget} \subseteq Nat
        /\ IsFiniteSet(r.query) /\ IsFiniteSet(r.memories)
        /\ \A m \in r.memories :
              m.text \in Text /\ m.whole \in BOOLEAN /\ {m.id, m.updated} \subseteq Nat
        /\ \A m, n \in r.memories : m.id = n.id => m = n

ASSUME FiresAssumption == Fires \subseteq [expr : Seq(Seq(Element)), after : Moment]

IsList(list) == list \in Seq(ToSet(list))

ASSUME SetupsAssumption ==
    \A c \in Setups :
        /\ {c.scheduleSource, c.targetSource, c.serverSource} \subseteq Source
        /\ IsList(c.schedules) /\ IsList(c.servers) /\ IsList(c.targets)
        /\ \A i \in DOMAIN c.schedules : c.schedules[i].cron \in Seq(Seq(Element))

VARIABLE asked

None == [about |-> "nothing"]

Init == asked = None

AskPlan   == \E r \in Requests : asked' = [about |-> "plan", input |-> r]
AskFire   == \E f \in Fires : asked' = [about |-> "fire", input |-> f]
AskConfig == \E c \in Setups : asked' = [about |-> "config", input |-> c]

Next == asked = None /\ (AskPlan \/ AskFire \/ AskConfig)

Spec == Init /\ [][Next]_asked

\* The request that is sent fits the token budget, the memory budget and the
\* message cap; it ends with the newest turns, none torn apart and none skipped
\* for an older one, and gives up images only for want of room; its memories are
\* the limit best of the scope, best first, less each that did not fit beside the
\* better ones sent, which ends nothing for those behind it
\* (agent/context.py, plan_context, and memory/text.py, rank_memories).
PlanSound ==
    asked.about = "plan" =>
      LET r == asked.input
          p == Plan(r)
      IN  p.status = "ok" => /\ WithinBudget(r, p)
                             /\ NewestTurns(r, p)
                             /\ ImagesKept(r, p)
                             /\ BestMemories(r, p)

\* parse_cron takes exactly the legal expressions, and next_fire gives the first
\* minute strictly after the given one that the expression means, or none when
\* the window has none: no minute fires twice and none is skipped (automation/cron.py).
FiresNext ==
    asked.about = "fire" =>
      LET spec == ParseCron(asked.input.expr)
      IN  /\ spec.ok <=> LegalCron(asked.input.expr)
          /\ spec.ok => FirstMeant(asked.input.expr, asked.input.after,
                                   NextFire(spec, asked.input.after))

\* The composition root can use whatever load_config accepts: no schedule runs
\* without a scope or a place to ask for approval, no server is reached in a way
\* that was not chosen, no two names collide when tools are registered, the limits
\* nest, and no file that was named is passed over (config.py, main.py).
AcceptedIsUsable ==
    asked.about = "config" /\ Accepted(asked.input) =>
      /\ SchedulesRun(asked.input.schedules)
      /\ ServersConnect(asked.input.servers, asked.input.insecure)
      /\ TargetsRegister(asked.input.targets)
      /\ LimitsNest(asked.input.knobs)
      /\ NothingIgnored(asked.input)
=============================================================================
