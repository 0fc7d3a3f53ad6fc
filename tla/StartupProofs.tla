---------------------------- MODULE StartupProofs ----------------------------
(***************************************************************************)
(* Proofs about Startup, for any servers, catalogs, edits of the           *)
(* permissions file and process starts.                                    *)
(***************************************************************************)
EXTENDS Startup, WellFoundedInduction, SequenceTheorems, TLAPS

-----------------------------------------------------------------------------
(* Transports                                                               *)

Names == {<<>>} \cup UNION {Catalogs[s] : s \in ServerSet}

Shaking == phase \in {"initialize", "discover"}

StartTypes ==
    /\ process \in {"off", "mcp", "load", "write", "ready", "closed"}
    /\ phase \in {"next", "initialize", "discover", "kept"}
    /\ at \in 1 .. Len(Servers) + 1
    /\ tools \in Seq(Names)

\* Before it registers the tools, start has passed the servers before at.
StartOrder ==
    /\ phase # "next" => at <= Len(Servers)
    /\ process = "mcp" => ~started
    /\ process \in {"load", "write", "ready"} => phase = "next"
    /\ process # "closed" =>
          Len(tools) = IF phase = "kept" THEN at ELSE at - 1
    /\ process = "mcp" /\ Shaking => Server \in open
    /\ process \in {"mcp", "load", "write", "ready"} =>
          \A i \in DOMAIN tools : tools[i] # <<>> => Servers[i] \in open

StartInv == StartTypes /\ StartOrder /\ TransportsOwned

LEMMA StartInit == Init => StartInv
BY StartupAssumption DEF Init, StartInv, StartTypes, StartOrder, TransportsOwned, Shaking

\* The steps that neither start nor end anything.
LEMMA StartElse ==
    ASSUME StartInv, UNCHANGED managerVars, process' \in {"load", "write", "ready"},
           process \in {"load", "write", "ready"}
    PROVE  StartInv'
BY DEF StartInv, StartTypes, StartOrder, TransportsOwned, Shaking, managerVars, Server

LEMMA StartSame ==
    ASSUME StartInv, UNCHANGED <<process, managerVars>>
    PROVE  StartInv'
BY DEF StartInv, StartTypes, StartOrder, TransportsOwned, Shaking, managerVars, Server

LEMMA ServersDistinct ==
    /\ Len(Servers) \in Nat
    /\ \A i, j \in 1 .. Len(Servers) : Servers[i] = Servers[j] => i = j
    /\ \A i \in 1 .. Len(Servers) : Servers[i] \in ServerSet
BY StartupAssumption DEF IsInjective

\* start passes a server that contributes nothing.
LEMMA PassedNothing ==
    ASSUME StartInv, Starting, phase # "kept", Passed(<<>>),
           UNCHANGED <<process, started, stacks>>,
           open' = IF phase = "next" THEN open ELSE open \ {Server}
    PROVE  StartInv'
<1>1. /\ at \in 1 .. Len(Servers) /\ at' = at + 1 /\ phase' = "next" /\ process = "mcp"
      /\ tools \in Seq(Names) /\ Len(tools) = at - 1 /\ tools' = Append(tools, <<>>)
  BY ServersDistinct DEF StartInv, StartTypes, StartOrder, Passed, Starting
<1>2. /\ tools' \in Seq(Names) /\ Len(tools') = at /\ DOMAIN tools' = 1 .. at
      /\ \A i \in 1 .. (at - 1) : tools'[i] = tools[i]
      /\ tools'[at] = <<>>
  <2>1. <<>> \in Names
    BY DEF Names
  <2>2. tools' \in Seq(Names) /\ Len(tools') = Len(tools) + 1
    BY <1>1, <2>1
  <2>3. \A i \in 1 .. Len(tools) : tools'[i] = tools[i]
    BY <1>1, <2>1
  <2>4. tools'[Len(tools) + 1] = <<>>
    BY <1>1, <2>1
  <2> QED
    BY <1>1, <2>2, <2>3, <2>4
<1>3. StartTypes'
  BY <1>1, <1>2, ServersDistinct DEF StartInv, StartTypes
<1>4. ASSUME NEW i \in DOMAIN tools', tools'[i] # <<>>
      PROVE  Servers[i] \in open'
  <2>1. i \in 1 .. (at - 1) /\ tools[i] # <<>>
    BY <1>1, <1>2, <1>4
  <2>2. Servers[i] \in open
    BY <1>1, <2>1 DEF StartInv, StartOrder
  <2>3. Servers[i] # Servers[at]
    BY <1>1, <2>1, ServersDistinct
  <2> QED
    BY <2>2, <2>3 DEF Server
<1>5. StartOrder'
  BY <1>1, <1>2, <1>4 DEF StartInv, StartOrder, Shaking
<1>6. open' \subseteq stacks'
  BY DEF StartInv, StartTypes, TransportsOwned, Passed
<1> QED
  BY <1>1, <1>3, <1>4, <1>5, <1>6 DEF StartInv, TransportsOwned

LEMMA StartDiscovered ==
    ASSUME StartInv, NEW c \in Catalogs[Server], Discovered(c)
    PROVE  StartInv'
<1>1. /\ at \in 1 .. Len(Servers) /\ at' = at /\ phase = "discover" /\ phase' = "kept"
      /\ process = "mcp" /\ process' = "mcp" /\ UNCHANGED <<open, started>>
      /\ tools \in Seq(Names) /\ Len(tools) = at - 1 /\ tools' = Append(tools, c)
      /\ stacks' = stacks \cup {Server} /\ Server \in open
  BY ServersDistinct DEF StartInv, StartTypes, StartOrder, Discovered, Starting, Shaking, rest
<1>2. c \in Names
  BY <1>1, ServersDistinct DEF Names, Server
<1>3. /\ tools' \in Seq(Names) /\ Len(tools') = at /\ DOMAIN tools' = 1 .. at
      /\ \A i \in 1 .. (at - 1) : tools'[i] = tools[i]
  BY <1>1, <1>2
<1>4. \A i \in DOMAIN tools' : tools'[i] # <<>> => Servers[i] \in open'
  BY <1>1, <1>3 DEF StartInv, StartOrder, Server
<1>5. StartTypes'
  BY <1>1, <1>3 DEF StartInv, StartTypes
<1>6. StartOrder'
  BY <1>1, <1>3, <1>4 DEF StartInv, StartOrder, Shaking
<1>7. TransportsOwned'
  BY <1>1, <1>4 DEF StartInv, TransportsOwned, Server
<1> QED
  BY <1>5, <1>6, <1>7 DEF StartInv

LEMMA StartHandshake ==
    ASSUME StartInv, OpenTransport \/ Initialized \/ Resume
    PROVE  StartInv'
<1>1. at \in 1 .. Len(Servers) /\ process = "mcp" /\ process' = "mcp" /\ ~started
  BY ServersDistinct
     DEF StartInv, StartTypes, StartOrder, OpenTransport, Initialized, Resume, Starting, rest
<1>2. StartTypes'
  BY <1>1, ServersDistinct
     DEF StartInv, StartTypes, OpenTransport, Initialized, Resume, rest
<1>3. StartOrder'
  BY <1>1 DEF StartInv, StartTypes, StartOrder, OpenTransport, Initialized, Resume, rest,
              Shaking, Server
<1>4. TransportsOwned'
  BY <1>1 DEF StartInv, StartTypes, StartOrder, TransportsOwned, OpenTransport, Initialized,
              Resume, rest, Shaking, Server
<1> QED
  BY <1>2, <1>3, <1>4 DEF StartInv

LEMMA StartEnds ==
    ASSUME StartInv, CancelStart \/ Register \/ Close
    PROVE  StartInv'
<1>1. StartTypes'
  BY DEF StartInv, StartTypes, CancelStart, Register, Close
<1>2. StartOrder'
  BY ServersDistinct
     DEF StartInv, StartTypes, StartOrder, CancelStart, Starting, Register, Close, Shaking, Server
<1>3. TransportsOwned'
  BY ServersDistinct
     DEF StartInv, StartTypes, StartOrder, TransportsOwned, CancelStart, Starting, Register,
         Close, Shaking, Server
<1> QED
  BY <1>1, <1>2, <1>3 DEF StartInv

LEMMA StartAnew ==
    ASSUME Boot \/ Exit
    PROVE  StartInv'
<1>1. /\ process' \in {"mcp", "off"} /\ at' = 1 /\ phase' = "next"
      /\ tools' = <<>> /\ started' = FALSE /\ open' = {}
  BY DEF Boot, Exit
<1>2. StartTypes'
  BY <1>1, ServersDistinct DEF StartTypes
<1>3. StartOrder' /\ TransportsOwned'
  BY <1>1 DEF StartOrder, TransportsOwned, Shaking
<1> QED
  BY <1>2, <1>3 DEF StartInv

LEMMA StartNext == ASSUME StartInv, [Next]_vars PROVE StartInv'
<1>1. CASE SkipUnwired \/ OpenFails
  BY <1>1, PassedNothing DEF SkipUnwired, OpenFails, rest
<1>2. ASSUME Fail PROVE StartInv'
  BY <1>2, PassedNothing DEF Fail, rest
<1>3. CASE Deadline \/ Refused
  BY <1>2, <1>3 DEF Deadline, Refused
<1>4. CASE Answered
  BY <1>2, <1>4, StartDiscovered DEF Answered, Rejected
<1>5. CASE ReconcileLoad \/ ReconcileWrite \/ ReconcileFails
  BY <1>5, StartElse DEF ReconcileLoad, ReconcileWrite, ReconcileFails
<1>6. CASE Edit \/ FirstRead \/ FirstStat \/ ReloadStat \/ ReloadRead \/ UNCHANGED vars
  BY <1>6, StartSame DEF Edit, FirstRead, FirstStat, ReloadStat, ReloadRead, policyRest, vars
<1> QED
  BY <1>1, <1>3, <1>4, <1>5, <1>6, StartHandshake, StartEnds, StartAnew DEF Next, StartStep

\* Every open transport has an owner, and the shutdown after a complete start
\* leaves none open (mcp/manager.py, _handshake and close).
THEOREM TransportsHaveOwners == Spec => []TransportsOwned
<1>1. StartInv => TransportsOwned
  BY DEF StartInv
<1> QED
  BY <1>1, StartInit, StartNext, PTL DEF Spec

-----------------------------------------------------------------------------
(* The policy                                                               *)

\* A merge keeps every entry the operator has filled in.
LEMMA MergeKeeps ==
    ASSUME NEW old, NEW current
    PROVE  /\ Filled(Merge(old, current)) = Filled(old)
           /\ \A t \in Filled(old) : Merge(old, current)[t] = old[t]
BY DEF Merge, Filled

\* Every change of the file gives it a version it never had.
FileInv ==
    /\ version \in Nat
    /\ file # Missing => version > 0
    /\ ~lost => Overrides(file) = word
    /\ process = "write" =>
          /\ merged.from \in Nat /\ merged.from <= version
          /\ merged.from = version => merged.entries = Merge(file.entries, ToSet(registry))

PolicyTypes ==
    /\ policy \in [loaded : BOOLEAN, overrides : {policy.overrides}, key : Nat,
                   step : {"idle", "first", "reload"}, held : {policy.held}, seen : Nat]
    /\ policy.loaded => policy.key <= version
    /\ policy.step # "idle" => policy.seen <= version
    /\ policy.loaded => policy.step # "first"
    /\ process \notin {"ready", "closed"} => policy = NoPolicy

\* A policy that is not blind resolves by the file of its key.
PolicyRead ==
    /\ policy.step = "first" /\ policy.seen = version => policy.held = FirstOverrides(file)
    /\ policy.loaded /\ ~blind =>
          /\ policy.key = 0 => policy.overrides = Overrides(Missing)
          /\ policy.key = Key /\ Parses(file) => policy.overrides = Overrides(file)

PolicyInv == FileInv /\ PolicyTypes /\ PolicyRead

LEMMA PolicyInit == Init => PolicyInv
BY DEF Init, PolicyInv, FileInv, PolicyTypes, PolicyRead, NoPolicy, Overrides, Filled, Missing, FileOf

\* The steps of the start, and of the shutdown.
LEMMA PolicyElse ==
    ASSUME PolicyInv, UNCHANGED <<registry, fileVars, merged, policy, history>>,
           \/ process = "mcp" /\ process' \in {"mcp", "closed"}
           \/ process \in {"load", "write"} /\ process' = "ready"
           \/ process = "ready" /\ process' = "closed"
           \/ process' = process
    PROVE  PolicyInv'
BY DEF PolicyInv, FileInv, PolicyTypes, PolicyRead, fileVars, history, Key

LEMMA PolicyRegister ==
    ASSUME PolicyInv, Register
    PROVE  PolicyInv'
BY DEF Register, PolicyInv, FileInv, PolicyTypes, PolicyRead, fileVars, history, Key

LEMMA PolicyAnew ==
    ASSUME PolicyInv, Boot \/ Exit
    PROVE  PolicyInv'
<1>1. /\ policy' = NoPolicy /\ process' \in {"mcp", "off"}
      /\ UNCHANGED <<file, version, word, lost>>
  BY DEF Boot, Exit, fileVars
<1>2. FileInv'
  BY <1>1 DEF PolicyInv, FileInv
<1>3. PolicyTypes' /\ PolicyRead'
  BY <1>1 DEF PolicyTypes, PolicyRead, NoPolicy
<1> QED
  BY <1>2, <1>3 DEF PolicyInv

LEMMA PolicyReconciles ==
    ASSUME PolicyInv, ReconcileLoad \/ ReconcileWrite
    PROVE  PolicyInv'
<1>1. ASSUME ReconcileLoad PROVE PolicyInv'
  BY <1>1 DEF ReconcileLoad, PolicyInv, FileInv, PolicyTypes, PolicyRead, fileVars, history, Key
<1>2. ASSUME ReconcileWrite PROVE PolicyInv'
  <2>1. /\ process = "write" /\ process' = "ready" /\ file' = FileOf("ok", merged.entries)
        /\ version' \in {version, version + 1} /\ (version' = version => file' = file)
        /\ lost' = (lost \/ version # merged.from)
        /\ UNCHANGED <<registry, merged, policy, word, blind>>
    BY <1>2 DEF ReconcileWrite, PolicyInv, FileInv
  <2>2. policy = NoPolicy /\ ~policy.loaded /\ policy.step = "idle"
    BY <2>1 DEF PolicyInv, PolicyTypes, NoPolicy
  <2>3. PolicyTypes' /\ PolicyRead'
    BY <2>1, <2>2 DEF PolicyInv, PolicyTypes, PolicyRead, FileInv
  <2>4. file' # Missing /\ version' \in Nat /\ version' > 0
    BY <2>1 DEF PolicyInv, FileInv, FileOf, Missing
  <2>5. ASSUME ~lost' PROVE Overrides(file') = word'
    <3>1. ~lost /\ merged.entries = Merge(file.entries, ToSet(registry)) /\ Overrides(file) = word
      BY <2>1, <2>5 DEF PolicyInv, FileInv
    <3>2. file'.entries = merged.entries
      BY <2>1 DEF FileOf
    <3> QED
      BY <2>1, <3>1, <3>2, MergeKeeps DEF Overrides
  <2> QED
    BY <2>1, <2>3, <2>4, <2>5 DEF PolicyInv, FileInv
<1> QED
  BY <1>1, <1>2

LEMMA PolicyEdits ==
    ASSUME PolicyInv, Edit
    PROVE  PolicyInv'
<1>1. /\ version' = version + 1 /\ version \in Nat /\ word' = Overrides(file')
      /\ UNCHANGED <<process, merged, policy, blind>>
  BY DEF Edit, PolicyInv, FileInv
<1>2. FileInv'
  BY <1>1 DEF PolicyInv, FileInv
<1>3. PolicyTypes'
  BY <1>1 DEF PolicyInv, PolicyTypes
<1>4. ASSUME policy.loaded, ~blind, policy.key = Key'
      PROVE  policy.overrides = Overrides(file')
  <2>1. policy.key <= version /\ policy.key \in Nat
    BY <1>4 DEF PolicyInv, PolicyTypes
  <2>2. file' = Missing /\ policy.key = 0
    BY <1>1, <1>4, <2>1 DEF Key
  <2> QED
    BY <1>4, <2>2 DEF PolicyInv, PolicyRead
<1>5. policy.step = "first" => policy.seen <= version /\ policy.seen \in Nat
  BY DEF PolicyInv, PolicyTypes
<1>6. PolicyRead'
  BY <1>1, <1>4, <1>5 DEF PolicyInv, PolicyRead
<1> QED
  BY <1>2, <1>3, <1>6 DEF PolicyInv

LEMMA KeyOfFile ==
    ASSUME PolicyInv
    PROVE  /\ Key \in Nat /\ Key <= version
           /\ Key = 0 => file = Missing
           /\ Parses(file) => FirstOverrides(file) = Overrides(file)
           /\ Parses(Missing)
BY DEF PolicyInv, FileInv, Key, FirstOverrides, Parses, Missing, FileOf

LEMMA PolicyResolves ==
    ASSUME PolicyInv, FirstRead \/ FirstStat \/ ReloadStat \/ ReloadRead
    PROVE  PolicyInv'
<1>1. process = "ready" /\ UNCHANGED <<process, fileVars, merged, word, lost>>
  BY DEF FirstRead, FirstStat, ReloadStat, ReloadRead, Resolving, policyRest
<1>2. FileInv'
  BY <1>1 DEF PolicyInv, FileInv, fileVars
<1>3. Key' = Key /\ version' = version /\ file' = file
  BY <1>1 DEF Key, fileVars
<1>4. ASSUME FirstRead PROVE PolicyTypes' /\ PolicyRead'
  <2>1. /\ policy' = [policy EXCEPT !.step = "first", !.held = FirstOverrides(file), !.seen = version]
        /\ ~policy.loaded /\ version \in Nat
    BY <1>4 DEF FirstRead, PolicyInv, FileInv
  <2>2. PolicyTypes'
    <3> DEFINE o == policy.overrides
               f == FirstOverrides(file)
    <3>1. policy.key \in Nat /\ policy.loaded = FALSE
      BY <2>1 DEF PolicyInv, PolicyTypes
    <3>2. policy' = [loaded |-> FALSE, overrides |-> o, key |-> policy.key,
                     step |-> "first", held |-> f, seen |-> version]
      BY <2>1, <3>1 DEF PolicyInv, PolicyTypes
    <3>3. /\ policy'.loaded = FALSE /\ policy'.seen = version /\ policy'.key = policy.key
          /\ policy'.held = f /\ policy'.overrides = o /\ policy'.step = "first"
      BY <3>2
    <3>4. version \in Nat /\ version' = version /\ process' = "ready"
      BY <1>1, <1>3, <2>1
    <3> HIDE DEF o, f
    <3>5. policy' \in [loaded : BOOLEAN, overrides : {o}, key : Nat,
                       step : {"idle", "first", "reload"}, held : {f}, seen : Nat]
      BY <3>1, <3>2, <3>4
    <3> QED
      BY <3>3, <3>4, <3>5 DEF PolicyTypes
  <2>3. policy'.held = FirstOverrides(file) /\ ~policy'.loaded
    BY <2>1 DEF PolicyInv, PolicyTypes
  <2>4. PolicyRead'
    BY <1>3, <2>3 DEF PolicyRead
  <2> QED
    BY <2>2, <2>4
<1>5. ASSUME FirstStat PROVE PolicyTypes' /\ PolicyRead'
  <2>1. /\ policy' = [loaded |-> TRUE, overrides |-> policy.held, key |-> Key,
                      step |-> "idle", held |-> <<>>, seen |-> 0]
        /\ policy.step = "first" /\ blind' = (version # policy.seen)
    BY <1>5 DEF FirstStat, Resolving, NoPolicy
  <2>2. PolicyTypes'
    BY <1>1, <1>3, <2>1, KeyOfFile DEF PolicyTypes
  <2>3. ~blind' => policy'.overrides = FirstOverrides(file)
    BY <2>1 DEF PolicyInv, PolicyRead
  <2>4. PolicyRead'
    BY <1>3, <2>1, <2>3, KeyOfFile DEF PolicyRead
  <2> QED
    BY <2>2, <2>4
<1>6. ASSUME ReloadStat PROVE PolicyTypes' /\ PolicyRead'
  <2>1. /\ policy' = [policy EXCEPT !.step = "reload", !.seen = Key]
        /\ policy.loaded /\ blind' = blind
    BY <1>6 DEF ReloadStat
  <2> QED
    BY <1>1, <1>3, <2>1, KeyOfFile DEF PolicyInv, PolicyTypes, PolicyRead, Parses
<1>7. ASSUME ReloadRead PROVE PolicyTypes' /\ PolicyRead'
  <2>1. /\ policy' = [policy EXCEPT !.step = "idle", !.key = policy.seen, !.seen = 0,
                        !.overrides = IF Parses(file) THEN Overrides(file) ELSE @]
        /\ policy.step = "reload" /\ blind' = (Key # policy.seen)
    BY <1>7 DEF ReloadRead, Resolving
  <2>2. policy.seen \in Nat /\ policy.seen <= version
    BY <2>1 DEF PolicyInv, PolicyTypes
  <2>3. PolicyTypes'
    BY <1>1, <1>3, <2>1, <2>2 DEF PolicyInv, PolicyTypes
  <2>4. PolicyRead'
    BY <1>3, <2>1, KeyOfFile DEF PolicyInv, PolicyTypes, PolicyRead, Parses
  <2> QED
    BY <2>3, <2>4
<1> QED
  BY <1>2, <1>4, <1>5, <1>6, <1>7 DEF PolicyInv

LEMMA PolicyNext == ASSUME PolicyInv, [Next]_vars PROVE PolicyInv'
<1> USE DEF rest, Starting
<1>1. CASE SkipUnwired \/ OpenTransport \/ OpenFails \/ Initialized \/ Resume
  BY <1>1, PolicyElse DEF SkipUnwired, OpenTransport, OpenFails, Initialized, Resume
<1>2. ASSUME Fail PROVE PolicyInv'
  BY <1>2, PolicyElse DEF Fail
<1>3. CASE Deadline \/ Refused
  BY <1>2, <1>3 DEF Deadline, Refused
<1>4. CASE Answered
  BY <1>2, <1>4, PolicyElse DEF Answered, Rejected, Discovered
<1>5. CASE CancelStart \/ ReconcileFails \/ Close
  BY <1>5, PolicyElse DEF CancelStart, ReconcileFails, Close
<1>6. CASE UNCHANGED vars
  BY <1>6, PolicyElse DEF vars
<1> QED
  BY <1>1, <1>3, <1>4, <1>5, <1>6, PolicyRegister, PolicyAnew, PolicyReconciles, PolicyEdits,
     PolicyResolves DEF Next, StartStep

\* A policy that takes the file as unchanged resolves by the operator's last word,
\* but for the two races (tools/policy.py, tools/permissions_file.py).
THEOREM OperatorObeyed == Spec => []PolicyObeysOperator
<1>1. PolicyInv => PolicyObeysOperator
  BY DEF PolicyInv, FileInv, PolicyRead, PolicyObeysOperator
<1> QED
  BY <1>1, PolicyInit, PolicyNext, PTL DEF Spec

-----------------------------------------------------------------------------
(* The registry                                                             *)

\* Induction over the naturals, for a set in place of a predicate.
LEMMA SetInduction ==
    ASSUME NEW T \in SUBSET Nat, 0 \in T, \A n \in T : n + 1 \in T
    PROVE  T = Nat
<1> SUFFICES ASSUME Nat \ T # {} PROVE FALSE
  OBVIOUS
<1> DEFINE R == OpToRel(<, Nat)
<1>1. IsWellFoundedOn(R, Nat)
  BY NatLessThanWellFounded
<1>2. \A x, y \in Nat : <<y, x>> \in R <=> y < x
  BY DEF OpToRel
<1> HIDE DEF R
<1>3. PICK x \in Nat \ T : \A y \in Nat \ T : ~ (<<y, x>> \in R)
  BY <1>1, WFMin
<1>4. x \in Nat /\ x # 0
  OBVIOUS
<1>5. x - 1 \in Nat /\ x - 1 < x
  BY <1>4
<1>6. x - 1 \in T
  BY <1>2, <1>3, <1>4, <1>5
<1>7. x \in T
  BY <1>4, <1>5, <1>6
<1> QED
  BY <1>7

\* g[i] is what the first i sequences make when they are joined.
Joins(g, seqs, n) == g = [i \in 1 .. n |-> IF i = 1 THEN seqs[i] ELSE g[i - 1] \o seqs[i]]

LEMMA JoinsExist ==
    ASSUME NEW seqs
    PROVE  \A n \in Nat : \E g : Joins(g, seqs, n)
<1> DEFINE T == {n \in Nat : \E g : Joins(g, seqs, n)}
<1>1. 0 \in T
  <2> DEFINE e == [i \in 1 .. 0 |-> IF i = 1 THEN seqs[i] ELSE <<>>]
  <2>1. Joins(e, seqs, 0)
    BY DEF Joins
  <2> QED
    BY <2>1
<1>2. ASSUME NEW n \in T PROVE n + 1 \in T
  <2>1. PICK g : Joins(g, seqs, n)
    OBVIOUS
  <2>2. n \in Nat
    OBVIOUS
  <2> HIDE DEF T
  <2> DEFINE h == [i \in 1 .. n + 1 |-> IF i = 1 THEN seqs[i] ELSE g[i - 1] \o seqs[i]]
  <2>3. ASSUME NEW i \in 1 .. n PROVE h[i] = g[i]
    <3>1. g[i] = IF i = 1 THEN seqs[i] ELSE g[i - 1] \o seqs[i]
      BY <2>1 DEF Joins
    <3>2. i \in 1 .. n + 1
      BY <2>2
    <3> QED
      BY <3>1, <3>2
  <2>4. ASSUME NEW i \in 1 .. n + 1
        PROVE  h[i] = IF i = 1 THEN seqs[i] ELSE h[i - 1] \o seqs[i]
    <3>1. i # 1 => i - 1 \in 1 .. n
      BY <2>2
    <3>2. i # 1 => h[i - 1] = g[i - 1]
      BY <2>3, <3>1
    <3>3. h[i] = IF i = 1 THEN seqs[i] ELSE g[i - 1] \o seqs[i]
      OBVIOUS
    <3> HIDE DEF h
    <3> QED
      BY <3>2, <3>3
  <2>5. DOMAIN h = 1 .. n + 1 /\ h = [i \in DOMAIN h |-> h[i]]
    OBVIOUS
  <2> HIDE DEF h
  <2>6. Joins(h, seqs, n + 1)
    BY <2>4, <2>5 DEF Joins
  <2>7. n + 1 \in Nat
    BY <2>2
  <2> QED
    BY <2>6, <2>7 DEF T
<1> HIDE DEF T
<1>3. T = Nat
  <2>1. T \in SUBSET Nat
    BY DEF T
  <2> QED
    BY <2>1, <1>1, <1>2, SetInduction
<1> QED
  BY <1>3 DEF T

LEMMA FlattenJoins ==
    ASSUME NEW seqs, Len(seqs) \in Nat, Len(seqs) # 0
    PROVE  \E g : Joins(g, seqs, Len(seqs)) /\ FlattenSeq(seqs) = g[Len(seqs)]
<1> DEFINE g == CHOOSE f : Joins(f, seqs, Len(seqs))
<1>1. Joins(g, seqs, Len(seqs))
  BY JoinsExist
<1>2. FlattenSeq(seqs) = g[Len(seqs)]
  BY DEF FlattenSeq, Joins
<1> QED
  BY <1>1, <1>2

LEMMA ConcatDistinct ==
    ASSUME NEW N, NEW s \in Seq(N), NEW t \in Seq(N), IsInjective(s), IsInjective(t),
           ToSet(s) \cap ToSet(t) = {}
    PROVE  /\ s \o t \in Seq(N)
           /\ IsInjective(s \o t)
           /\ ToSet(s \o t) = ToSet(s) \cup ToSet(t)
<1> DEFINE u == s \o t
           m == Len(s)
           n == Len(t)
<1>1. /\ m \in Nat /\ n \in Nat /\ DOMAIN s = 1 .. m /\ DOMAIN t = 1 .. n
      /\ u \in Seq(N) /\ Len(u) = m + n /\ DOMAIN u = 1 .. (m + n)
      /\ \A i \in 1 .. (m + n) : u[i] = IF i <= m THEN s[i] ELSE t[i - m]
  OBVIOUS
<1> HIDE DEF u, m, n
<1>0. /\ \A i \in 1 .. m : s[i] \in ToSet(s)
      /\ \A i \in 1 .. n : t[i] \in ToSet(t)
      /\ \A x \in ToSet(s) : \E i \in 1 .. m : x = s[i]
      /\ \A x \in ToSet(t) : \E i \in 1 .. n : x = t[i]
      /\ \A i \in 1 .. (m + n) : u[i] \in ToSet(u)
      /\ \A x \in ToSet(u) : \E i \in 1 .. (m + n) : x = u[i]
  BY <1>1 DEF ToSet
<1>2. \A i \in 1 .. (m + n) : i <= m => i \in 1 .. m /\ u[i] = s[i] /\ s[i] \in ToSet(s)
  BY <1>0, <1>1
<1>3. \A i \in 1 .. (m + n) :
        ~ (i <= m) => i - m \in 1 .. n /\ u[i] = t[i - m] /\ t[i - m] \in ToSet(t)
  BY <1>0, <1>1
<1>4. ASSUME NEW i \in 1 .. (m + n), NEW j \in 1 .. (m + n), u[i] = u[j]
      PROVE  i = j
  <2>1. i <= m <=> j <= m
    BY <1>2, <1>3, <1>4
  <2>2. CASE i <= m
    BY <1>1, <1>2, <1>4, <2>1, <2>2 DEF IsInjective
  <2>3. CASE ~ (i <= m)
    <3>1. t[i - m] = t[j - m]
      BY <1>3, <1>4, <2>1, <2>3
    <3>2. i - m = j - m
      BY <1>1, <1>3, <2>1, <2>3, <3>1 DEF IsInjective
    <3> QED
      BY <1>1, <3>2
  <2> QED
    BY <2>2, <2>3
<1>5. IsInjective(u)
  BY <1>1, <1>4 DEF IsInjective
<1>6. ToSet(u) \subseteq ToSet(s) \cup ToSet(t)
  BY <1>0, <1>2, <1>3
<1>7. \A i \in 1 .. m : i \in 1 .. (m + n) /\ u[i] = s[i]
  BY <1>1
<1>8. \A i \in 1 .. n : i + m \in 1 .. (m + n) /\ u[i + m] = t[i]
  BY <1>1
<1>9. ToSet(s) \subseteq ToSet(u) /\ ToSet(t) \subseteq ToSet(u)
  BY <1>0, <1>7, <1>8
<1>10. u \in Seq(N) /\ IsInjective(u) /\ ToSet(u) = ToSet(s) \cup ToSet(t)
  BY <1>1, <1>5, <1>6, <1>9
<1> QED
  BY <1>10 DEF u

LEMMA UnionOfOneMore ==
    ASSUME NEW f, NEW A, NEW k
    PROVE  UNION {ToSet(f[i]) : i \in A \cup {k}} = (UNION {ToSet(f[i]) : i \in A}) \cup ToSet(f[k])
OBVIOUS

\* Joining lists without repetition that share nothing makes one without repetition.
LEMMA FlattenDistinct ==
    ASSUME NEW N, NEW seqs \in Seq(Seq(N)),
           \A i \in DOMAIN seqs : IsInjective(seqs[i]),
           \A i, j \in DOMAIN seqs : i # j => ToSet(seqs[i]) \cap ToSet(seqs[j]) = {}
    PROVE  /\ IsInjective(FlattenSeq(seqs))
           /\ ToSet(FlattenSeq(seqs)) = UNION {ToSet(seqs[i]) : i \in DOMAIN seqs}
<1> DEFINE n == Len(seqs)
<1>1. n \in Nat /\ DOMAIN seqs = 1 .. n /\ \A i \in 1 .. n : seqs[i] \in Seq(N)
  BY LenProperties, ElementOfSeq
<1>2. CASE n = 0
  <2>1. FlattenSeq(seqs) = seqs
    BY <1>2 DEF FlattenSeq
  <2> QED
    BY <1>1, <1>2, <2>1 DEF IsInjective, ToSet
<1>3. CASE n # 0
  <2>1. PICK g : Joins(g, seqs, n) /\ FlattenSeq(seqs) = g[n]
    BY <1>1, <1>3, FlattenJoins
  <2> HIDE DEF n
  <2>2. \A i \in 1 .. n : g[i] = IF i = 1 THEN seqs[i] ELSE g[i - 1] \o seqs[i]
    BY <2>1 DEF Joins
  <2> DEFINE Good(k) == /\ g[k] \in Seq(N) /\ IsInjective(g[k])
                        /\ ToSet(g[k]) = UNION {ToSet(seqs[i]) : i \in 1 .. k}
             T == {k \in Nat : k + 1 \in 1 .. n => Good(k + 1)}
  <2>3. 0 \in T
    <3>1. 1 .. 1 = {1} /\ 1 \in 1 .. n
      BY <1>1, <1>3
    <3>2. g[1] = seqs[1]
      BY <2>2, <3>1
    <3>3. UNION {ToSet(seqs[i]) : i \in 1 .. 1} = ToSet(seqs[1])
      BY <3>1
    <3>4. Good(1)
      BY <1>1, <3>1, <3>2, <3>3
    <3> QED
      BY <3>4
  <2>4. ASSUME NEW k \in T PROVE k + 1 \in T
    <3>1. k \in Nat /\ (k + 1 \in 1 .. n => Good(k + 1))
      OBVIOUS
    <3> HIDE DEF T
    <3>2. SUFFICES ASSUME k + 2 \in 1 .. n PROVE Good(k + 2)
      <4>1. k + 1 \in Nat /\ (k + 1) + 1 = k + 2
        BY <3>1
      <4> QED
        BY <3>2, <4>1 DEF T
    <3>3. k + 1 \in 1 .. n /\ k + 2 # 1 /\ (k + 2) - 1 = k + 1
      BY <3>1, <3>2, <1>1
    <3>4. Good(k + 1) /\ seqs[k + 2] \in Seq(N) /\ IsInjective(seqs[k + 2])
      BY <3>1, <3>2, <3>3, <1>1
    <3>5. g[k + 2] = g[k + 1] \o seqs[k + 2]
      BY <2>2, <3>2, <3>3
    <3>6. \A i \in 1 .. (k + 1) : i \in DOMAIN seqs /\ i # k + 2
      BY <3>1, <3>3, <1>1
    <3>7. \A i \in 1 .. (k + 1) : ToSet(seqs[i]) \cap ToSet(seqs[k + 2]) = {}
      BY <3>2, <3>6, <1>1
    <3>8. ToSet(g[k + 1]) \cap ToSet(seqs[k + 2]) = {}
      BY <3>4, <3>7
    <3>9. /\ g[k + 2] \in Seq(N) /\ IsInjective(g[k + 2])
          /\ ToSet(g[k + 2]) = ToSet(g[k + 1]) \cup ToSet(seqs[k + 2])
      BY <3>4, <3>5, <3>8, ConcatDistinct
    <3>10. 1 .. (k + 2) = (1 .. (k + 1)) \cup {k + 2}
      BY <3>1
    <3>11. UNION {ToSet(seqs[i]) : i \in 1 .. (k + 2)} =
             (UNION {ToSet(seqs[i]) : i \in 1 .. (k + 1)}) \cup ToSet(seqs[k + 2])
      BY <3>10, UnionOfOneMore
    <3>12. ToSet(g[k + 2]) = UNION {ToSet(seqs[i]) : i \in 1 .. (k + 2)}
      BY <3>4, <3>9, <3>11
    <3> QED
      BY <3>9, <3>12
  <2> HIDE DEF T, Good
  <2>5. T = Nat
    <3>1. T \in SUBSET Nat
      BY DEF T
    <3> QED
      BY <3>1, <2>3, <2>4, SetInduction
  <2>6. n - 1 \in Nat /\ (n - 1) + 1 = n /\ n \in 1 .. n
    BY <1>1, <1>3
  <2>7. Good(n)
    BY <2>5, <2>6 DEF T
  <2> QED
    BY <1>1, <2>1, <2>7 DEF Good
<1> QED
  BY <1>2, <1>3

\* A list is kept only when it repeats no name, its own or another's, so those
\* that start has kept share nothing, with each other or with the built-in tools.
ListsApart ==
    /\ \A i \in DOMAIN tools : IsInjective(tools[i]) /\ ToSet(tools[i]) \cap Existing = {}
    /\ \A i, j \in DOMAIN tools : i # j => ToSet(tools[i]) \cap ToSet(tools[j]) = {}

RegisterInv == StartTypes /\ ListsApart /\ RegisterSafe

LEMMA RegisterInit == Init => RegisterInv
BY StartInit DEF Init, StartInv, RegisterInv, ListsApart, RegisterSafe, IsInjective, ToSet

Locals == UNION {ToSet(c) : c \in Names}

LEMMA NamesAreLists == Names \subseteq Seq(Locals)
<1>1. ASSUME NEW s \in ServerSet, NEW c \in Catalogs[s] PROVE c \in Seq(Locals)
  <2> DEFINE L == UNION {ToSet(d) : d \in Catalogs[s]}
  <2>1. c \in Seq(L)
    BY StartupAssumption
  <2>2. L \subseteq Locals
    BY DEF Locals, Names
  <2> HIDE DEF L
  <2> QED
    BY <2>1, <2>2
<1>2. <<>> \in Seq(Locals)
  BY EmptySeq
<1> QED
  BY <1>1, <1>2 DEF Names

\* start passes a server with a list that is empty, or apart from the others.
LEMMA PassedApart ==
    ASSUME RegisterInv, NEW c \in Names, tools' = Append(tools, c),
           IsInjective(c), ToSet(c) \cap Taken = {}
    PROVE  ListsApart'
<1>1. tools \in Seq(Names)
  BY DEF RegisterInv, StartTypes
<1> DEFINE n == Len(tools)
<1>2. /\ n \in Nat /\ DOMAIN tools = 1 .. n /\ DOMAIN tools' = 1 .. (n + 1)
      /\ tools'[n + 1] = c /\ \A i \in 1 .. n : tools'[i] = tools[i]
  BY <1>1
<1> HIDE DEF n
<1>3. \A i \in 1 .. (n + 1) : i \in 1 .. n \/ i = n + 1
  BY <1>2
<1>4. \A i \in 1 .. n : ToSet(tools[i]) \subseteq Taken
  BY <1>2 DEF Taken, Range
<1>5. Existing \subseteq Taken
  BY DEF Taken
<1>6. \A i \in DOMAIN tools' : IsInjective(tools'[i]) /\ ToSet(tools'[i]) \cap Existing = {}
  BY <1>2, <1>3, <1>5 DEF RegisterInv, ListsApart
<1>7. ASSUME NEW i \in DOMAIN tools', NEW j \in DOMAIN tools', i # j
      PROVE  ToSet(tools'[i]) \cap ToSet(tools'[j]) = {}
  <2>1. CASE i \in 1 .. n /\ j \in 1 .. n
    BY <1>2, <1>7, <2>1 DEF RegisterInv, ListsApart
  <2>2. CASE i \in 1 .. n /\ j = n + 1
    BY <1>2, <1>4, <2>2
  <2>3. CASE i = n + 1 /\ j \in 1 .. n
    BY <1>2, <1>4, <2>3
  <2> QED
    BY <1>2, <1>3, <1>7, <2>1, <2>2, <2>3
<1> QED
  BY <1>6, <1>7 DEF ListsApart

LEMMA EmptyListApart == <<>> \in Names /\ IsInjective(<<>>) /\ ToSet(<<>>) = {}
BY DEF Names, IsInjective, ToSet

LEMMA RegisterNext == ASSUME StartInv, RegisterInv, [Next]_vars PROVE RegisterInv'
<1> USE DEF rest, managerVars
<1>1. StartTypes'
  BY StartNext DEF StartInv
<1>2. ASSUME UNCHANGED <<tools, registry>> PROVE RegisterInv'
  BY <1>1, <1>2 DEF RegisterInv, ListsApart, RegisterSafe
<1>3. ASSUME Passed(<<>>), UNCHANGED registry PROVE RegisterInv'
  <2>1. ListsApart'
    BY <1>3, EmptyListApart, PassedApart DEF Passed
  <2> QED
    BY <1>1, <1>3, <2>1 DEF RegisterInv, RegisterSafe
<1>4. CASE SkipUnwired \/ OpenFails
  BY <1>3, <1>4 DEF SkipUnwired, OpenFails
<1>5. ASSUME Fail PROVE RegisterInv'
  BY <1>3, <1>5 DEF Fail
<1>6. CASE Deadline \/ Refused
  BY <1>5, <1>6 DEF Deadline, Refused
<1>7. CASE Answered
  <2>1. PICK c \in Catalogs[Server] : Discovered(c) \/ Rejected(c)
    BY <1>7 DEF Answered
  <2>2. ASSUME Discovered(c) PROVE RegisterInv'
    <3>1. c \in Names
      <4>1. at \in 1 .. Len(Servers)
        BY <2>2, ServersDistinct DEF Discovered, Starting, StartInv, StartTypes
      <4> QED
        BY <4>1, ServersDistinct DEF Names, Server
    <3>2. IsInjective(c) /\ ToSet(c) \cap (Malformed \cup Taken) = {}
      BY <2>2 DEF Discovered, BuildTools
    <3>3. tools' = Append(tools, c) /\ registry' = registry
      BY <2>2 DEF Discovered
    <3>4. ListsApart'
      BY <3>1, <3>2, <3>3, PassedApart
    <3> QED
      BY <1>1, <3>3, <3>4 DEF RegisterInv, RegisterSafe
  <2> QED
    BY <1>5, <2>1, <2>2 DEF Rejected
<1>8. CASE Register
  <2>1. registry' = FlattenSeq(tools) /\ tools' = tools
    BY <1>8 DEF Register
  <2>2. tools \in Seq(Seq(Locals))
    BY NamesAreLists DEF RegisterInv, StartTypes
  <2>3. /\ IsInjective(FlattenSeq(tools))
        /\ ToSet(FlattenSeq(tools)) = UNION {ToSet(tools[i]) : i \in DOMAIN tools}
    BY <2>2, FlattenDistinct DEF RegisterInv, ListsApart
  <2>4. RegisterSafe'
    BY <2>1, <2>3 DEF RegisterInv, ListsApart, RegisterSafe
  <2> QED
    BY <1>1, <2>1, <2>4 DEF RegisterInv, ListsApart
<1>9. CASE Boot \/ Exit
  <2>1. tools' = <<>> /\ registry' = <<>>
    BY <1>9 DEF Boot, Exit
  <2> QED
    BY <1>1, <2>1 DEF RegisterInv, ListsApart, RegisterSafe, IsInjective, ToSet
<1>10. CASE \/ OpenTransport \/ Initialized \/ Resume \/ CancelStart \/ Close
            \/ ReconcileLoad \/ ReconcileWrite \/ ReconcileFails
  BY <1>2, <1>10 DEF OpenTransport, Initialized, Resume, CancelStart, Close,
                     ReconcileLoad, ReconcileWrite, ReconcileFails
<1>11. CASE Edit \/ FirstRead \/ FirstStat \/ ReloadStat \/ ReloadRead \/ UNCHANGED vars
  BY <1>2, <1>11 DEF Edit, FirstRead, FirstStat, ReloadStat, ReloadRead, policyRest, vars
<1> QED
  BY <1>4, <1>6, <1>7, <1>8, <1>9, <1>10, <1>11 DEF Next, StartStep

\* What start leaves in the registry is free of duplicates and hides no built-in
\* tool (mcp/manager.py, _build_tools; main.py, _post_init).
THEOREM RegistryIsSafe == Spec => []RegisterSafe
<1>1. RegisterInv => RegisterSafe
  BY DEF RegisterInv
<1>2. Spec => []StartInv
  BY StartInit, StartNext, PTL DEF Spec
<1>3. StartInv /\ RegisterInv /\ [Next]_vars => RegisterInv'
  BY RegisterNext
<1> QED
  BY <1>1, <1>2, <1>3, RegisterInit, PTL DEF Spec
=============================================================================
