------------------------------- MODULE Startup -------------------------------
(***************************************************************************)
(* Where tools and their permissions come from: AgentBackend brings up the *)
(* configured MCP servers one after the other, registers their tools,      *)
(* reconciles the permissions file, and from then on every call resolves   *)
(* against a policy that reloads that file when it changes.  An operator   *)
(* edits the file at any time; the process stops, also in the middle of a  *)
(* start, and starts again.                                                *)
(*                                                                         *)
(* A tool is its local name (mcp_<server>__<remote>); two servers may      *)
(* arrive at one name, since both parts may hold underscores.  The version *)
(* of the file stands for its pair (mtime, size), which every change is    *)
(* taken to alter.                                                         *)
(***************************************************************************)
EXTENDS Naturals, Sequences, SequencesExt

CONSTANTS
    Servers,     \* the configured servers, a sequence
    Unwired,     \* OAuth servers, in a process without OAuth infrastructure
    Catalogs,    \* the tool lists each server may answer with, as local names
    Existing,    \* the names registered before: the built-in tools
    Malformed,   \* names of tools with an illegal name or schema
    Foreign,     \* names with letters outside ASCII: legal for a tool
                 \* (str.isalnum), illegal in the permissions file
    Permissions, \* what an operator may fill in
    MaxEdits,    \* bound: edits of the file
    MaxBoots     \* bound: process starts

ServerSet == ToSet(Servers)
Tools     == UNION {ToSet(c) : c \in UNION {Catalogs[s] : s \in ServerSet}} \ Malformed
Unfilled  == ""

ASSUME StartupAssumption ==
    /\ Servers \in Seq(ServerSet) /\ IsInjective(Servers)
    /\ \A s \in ServerSet : Catalogs[s] \subseteq Seq(UNION {ToSet(c) : c \in Catalogs[s]})
    /\ Unwired \subseteq ServerSet
    /\ Unfilled \notin Permissions
    /\ MaxEdits \in Nat /\ MaxBoots \in Nat

VARIABLES
    process, \* "off", "mcp", "load", "write", "ready" or "closed"
    boots,   \* process starts so far
    at,      \* index of the server McpManager.start is at
    phase,   \* of its handshake: "next", "initialize", "discover", "kept"
    tools,   \* _ServerState.tools of the servers that start has passed
    started, \* McpManager._started
    stacks,  \* McpManager._stacks: servers whose transport the manager owns
    open,    \* servers with a transport nobody has asked to close
    registry,\* the ToolRegistry's MCP tools, in order
    file,    \* the permissions file
    version, \* its version
    merged,  \* reconcile: what it is about to write, and the version it read
    policy,  \* FileBackedToolPolicy, and the resolution in progress
    edits,   \* edits so far
    word,    \* history: the permissions the operator last filled in
    lost,    \* history: reconcile wrote over an edit it had not read
    blind    \* history: the policy took the key of another version than it read

managerVars == <<at, phase, tools, started, stacks, open>>
fileVars    == <<file, version>>
history     == <<edits, word, lost, blind>>
vars == <<process, boots, managerVars, registry, fileVars, merged, policy, history>>

Filled(f) == {t \in DOMAIN f : f[t] # Unfilled}

\* The permissions file: its entries, if it is there and parses.  A blank file
\* has no entries; a malformed one makes load_permissions_file raise.
FileOf(kind, entries) == [kind |-> kind, entries |-> entries]
Missing == FileOf("missing", <<>>)
Broken  == FileOf("broken", <<>>)
Files   == {Missing, Broken} \cup
           {FileOf("ok", f) : f \in UNION {[S -> Permissions \cup {Unfilled}] :
                                          S \in SUBSET (Tools \ Foreign)}}

\* parse_permissions_json raises on bad JSON, and on a name it does not take.
Parses(f) == f.kind # "broken" /\ DOMAIN f.entries \cap Foreign = {}

\* _stat_key
Key == IF file = Missing THEN 0 ELSE version

\* _build_overrides: unfilled entries fall through to the declared default.
Overrides(f) == [t \in Filled(f.entries) |-> f.entries[t]]

\* _initial_load: a file that does not parse counts as no overrides.
FirstOverrides(f) == IF Parses(f) THEN Overrides(f) ELSE <<>>

\* Mutant: an entry of a tool that is gone is dropped, filled or not.
MergeCurrentOnly(old, current) ==
    [t \in current |-> IF t \in DOMAIN old THEN old[t] ELSE Unfilled]

\* merge_permissions: the current tools, then the filled entries of the others.
Merge(old, current) ==
    [t \in current \cup Filled(old) |-> IF t \in DOMAIN old THEN old[t] ELSE Unfilled]

NoPolicy == [loaded |-> FALSE, overrides |-> <<>>, key |-> 0,
             step |-> "idle", held |-> <<>>, seen |-> 0]

-----------------------------------------------------------------------------
Init ==
    /\ process = "off" /\ boots = 0
    /\ at = 1 /\ phase = "next"
    /\ tools = <<>>
    /\ started = FALSE
    /\ stacks = {} /\ open = {}
    /\ registry = <<>>
    /\ file = Missing /\ version = 0
    /\ merged = [entries |-> <<>>, from |-> 0]
    /\ policy = NoPolicy
    /\ edits = 0
    /\ word = <<>>
    /\ lost = FALSE /\ blind = FALSE

\* load_config refuses a malformed file; otherwise a fresh process begins.
Boot ==
    /\ process = "off" /\ boots < MaxBoots
    /\ Parses(file)
    /\ process' = "mcp"
    /\ boots' = boots + 1
    /\ at' = 1 /\ phase' = "next"
    /\ tools' = <<>>
    /\ started' = FALSE
    /\ stacks' = {} /\ open' = {}
    /\ registry' = <<>>
    /\ policy' = NoPolicy
    /\ blind' = FALSE
    /\ UNCHANGED <<fileVars, merged, edits, word, lost>>

-----------------------------------------------------------------------------
(* McpManager.start: each server's handshake runs in a child task           *)

Starting == process = "mcp" /\ at <= Len(Servers)
Server   == Servers[at]
Taken    == Existing \cup UNION {ToSet(c) : c \in Range(tools)}

\* start goes to the next server; found is what this one contributes.
Passed(found) ==
    /\ tools' = Append(tools, found)
    /\ at' = at + 1
    /\ phase' = "next"

rest == <<process, boots, registry, fileVars, merged, policy, history>>

\* Without OAuth infrastructure an OAuth server is never contacted.
SkipUnwired ==
    /\ Starting /\ phase = "next"
    /\ Server \in Unwired
    /\ Passed(<<>>)
    /\ UNCHANGED <<rest, started, stacks, open>>

OpenTransport ==
    /\ Starting /\ phase = "next"
    /\ Server \notin Unwired
    /\ open' = open \cup {Server}
    /\ phase' = "initialize"
    /\ UNCHANGED <<rest, at, tools, started, stacks>>

\* The process cannot be spawned, or the client cannot be built.
OpenFails ==
    /\ Starting /\ phase = "next"
    /\ Server \notin Unwired
    /\ Passed(<<>>)
    /\ UNCHANGED <<rest, started, stacks, open>>

Initialized ==
    /\ Starting /\ phase = "initialize"
    /\ phase' = "discover"
    /\ UNCHANGED <<rest, at, tools, started, stacks, open>>

\* Mutant: a handshake that runs into its deadline keeps what it has opened.
FailKeepingOpen ==
    /\ Starting /\ phase \in {"initialize", "discover"}
    /\ Passed(<<>>)
    /\ UNCHANGED <<rest, started, stacks, open>>

\* A handshake that fails closes the stack it opened; the server is unavailable.
Fail ==
    /\ Starting /\ phase \in {"initialize", "discover"}
    /\ open' = open \ {Server}
    /\ Passed(<<>>)
    /\ UNCHANGED <<rest, started, stacks>>

\* Mutant: nothing bounds a round-trip.
DeadlineNever == FALSE

\* wait_for(connect_timeout) around each round-trip of the handshake.
Deadline == Fail

\* An error answer, or a CancelledError the SDK leaks out of its own scope.
Refused == Fail

\* Mutant: the list is only compared with itself, not with the names taken.
BuildToolsAlone(c) == IF IsInjective(c) /\ ToSet(c) \cap Malformed = {} THEN {c} ELSE {}

\* _build_tools: all tools of the list, or none of them.
BuildTools(c) ==
    IF IsInjective(c) /\ ToSet(c) \cap (Malformed \cup Taken) = {} THEN {c} ELSE {}

\* The child task is done and the manager owns the stack; start has not resumed.
Discovered(c) ==
    /\ Starting /\ phase = "discover"
    /\ c \in BuildTools(c)
    /\ phase' = "kept"
    /\ stacks' = stacks \cup {Server}
    /\ tools' = Append(tools, c)
    /\ UNCHANGED <<rest, at, started, open>>

\* A list with an invalid, a repeated or a taken name: the whole server is out.
Rejected(c) ==
    /\ BuildTools(c) = {}
    /\ phase = "discover"
    /\ Fail

Resume ==
    /\ Starting /\ phase = "kept"
    /\ at' = at + 1
    /\ phase' = "next"
    /\ UNCHANGED <<rest, tools, started, stacks, open>>

Answered == Starting /\ \E c \in Catalogs[Server] : Discovered(c) \/ Rejected(c)

\* The start-up task is cancelled.  The child, cancelled with it, closes its
\* stack, unless it is done already; start raises and _started stays false.
\* _post_shutdown follows, whose close returns at once.
CancelStart ==
    /\ Starting
    /\ open' = IF phase \in {"initialize", "discover"} THEN open \ {Server} ELSE open
    /\ process' = "closed"
    /\ UNCHANGED <<boots, at, phase, tools, started, stacks, registry,
                   fileVars, merged, policy, history>>

\* start returns, and registry.add takes every tool, without an await between.
Register ==
    /\ process = "mcp" /\ at > Len(Servers)
    /\ started' = TRUE
    /\ registry' = FlattenSeq(tools)
    /\ process' = "load"
    /\ UNCHANGED <<boots, at, phase, tools, stacks, open, fileVars, merged, policy, history>>

-----------------------------------------------------------------------------
(* reconcile_permissions_file                                               *)

\* Read and merge; a malformed file raises, which is logged.
ReconcileLoad ==
    /\ process = "load"
    /\ IF Parses(file)
       THEN /\ process' = "write"
            /\ merged' = [entries |-> Merge(file.entries, ToSet(registry)), from |-> version]
       ELSE process' = "ready" /\ UNCHANGED merged
    /\ UNCHANGED <<boots, managerVars, registry, fileVars, policy, history>>

\* atomic_write replaces the file unless its text is the same already.
ReconcileWrite ==
    /\ process = "write"
    /\ process' = "ready"
    /\ file' = FileOf("ok", merged.entries)
    /\ version' \in IF file = file' THEN {version, version + 1} ELSE {version + 1}
    /\ lost' = (lost \/ version # merged.from)
    /\ UNCHANGED <<boots, managerVars, registry, merged, policy, edits, word, blind>>

\* The write fails and is logged; the temporary file is removed.
ReconcileFails ==
    /\ process = "write"
    /\ process' = "ready"
    /\ UNCHANGED <<boots, managerVars, registry, fileVars, merged, policy, history>>

\* The operator saves, breaks or deletes the file.
Edit ==
    /\ edits < MaxEdits
    /\ file' \in Files \ {file}
    /\ version' = version + 1
    /\ edits' = edits + 1
    /\ word' = Overrides(file')
    /\ lost' = FALSE
    /\ UNCHANGED <<process, boots, managerVars, registry, merged, policy, blind>>

-----------------------------------------------------------------------------
(* FileBackedToolPolicy.resolve: the file may change between its two calls  *)

Resolving(step) == process = "ready" /\ policy.step = step

policyRest == <<process, boots, managerVars, registry, fileVars, merged, edits, word, lost>>

\* _initial_load reads first.
FirstRead ==
    /\ Resolving("idle") /\ ~policy.loaded
    /\ policy' = [policy EXCEPT !.step = "first", !.held = FirstOverrides(file), !.seen = version]
    /\ UNCHANGED <<policyRest, blind>>

FirstStat ==
    /\ Resolving("first")
    /\ policy' = [NoPolicy EXCEPT !.loaded = TRUE, !.overrides = policy.held, !.key = Key]
    /\ blind' = (version # policy.seen)
    /\ UNCHANGED policyRest

\* _maybe_reload takes the key first; an unchanged one ends the resolution.
ReloadStat ==
    /\ Resolving("idle") /\ policy.loaded
    /\ Key # policy.key
    /\ policy' = [policy EXCEPT !.step = "reload", !.seen = Key]
    /\ UNCHANGED <<policyRest, blind>>

\* A malformed file keeps the last good overrides, and its key is marked seen.
ReloadRead ==
    /\ Resolving("reload")
    /\ policy' = [policy EXCEPT !.step = "idle", !.key = policy.seen, !.seen = 0,
                     !.overrides = IF Parses(file) THEN Overrides(file) ELSE @]
    /\ blind' = (Key # policy.seen)
    /\ UNCHANGED policyRest

-----------------------------------------------------------------------------
(* The end of a process                                                     *)

\* McpManager.close, in _post_shutdown.
Close ==
    /\ process = "ready" /\ policy.step = "idle"
    /\ process' = "closed"
    /\ open' = open \ stacks
    /\ stacks' = {}
    /\ UNCHANGED <<boots, at, phase, tools, started, registry, fileVars, merged, policy, history>>

\* The process exits, or is killed, and its transports go with it.
Exit ==
    /\ process # "off"
    /\ process' = "off"
    /\ at' = 1 /\ phase' = "next"
    /\ tools' = <<>>
    /\ started' = FALSE
    /\ stacks' = {} /\ open' = {}
    /\ registry' = <<>>
    /\ merged' = [entries |-> <<>>, from |-> 0]
    /\ policy' = NoPolicy
    /\ blind' = FALSE
    /\ UNCHANGED <<boots, fileVars, edits, word, lost>>

StartStep == SkipUnwired \/ OpenTransport \/ OpenFails \/ Deadline \/ Resume \/ Register
             \/ ReconcileLoad \/ ReconcileWrite \/ ReconcileFails

Next ==
    \/ Boot \/ Initialized \/ Refused \/ Answered \/ CancelStart
    \/ StartStep
    \/ Edit
    \/ FirstRead \/ FirstStat \/ ReloadStat \/ ReloadRead
    \/ Close \/ Exit

Spec == Init /\ [][Next]_vars

\* The process schedules its own task and its deadlines expire; a server need
\* not answer, and the operator need not edit.
FairSpec == Spec /\ WF_vars(StartStep)

-----------------------------------------------------------------------------
(* Properties                                                               *)

StartupTypeOK ==
    /\ process \in {"off", "mcp", "load", "write", "ready", "closed"}
    /\ boots \in 0 .. MaxBoots /\ edits \in 0 .. MaxEdits
    /\ at \in 1 .. Len(Servers) + 1
    /\ phase \in {"next", "initialize", "discover", "kept"}
    /\ tools \in Seq(Seq(Tools)) /\ registry \in Seq(Tools)
    /\ stacks \subseteq ServerSet /\ open \subseteq ServerSet
    /\ Parses(file) => file \in Files
    /\ version \in Nat
    /\ policy.step \in {"idle", "first", "reload"}
    /\ {started, lost, blind, policy.loaded} \subseteq BOOLEAN

\* Every open transport has an owner: the manager, whose close ends it, or the
\* handshake in progress, which closes it when it fails or is cancelled; a tool
\* that was registered has its transport open; and nothing is left open by the
\* shutdown that follows a complete start (mcp/manager.py, _handshake and close).
TransportsOwned ==
    /\ open \subseteq stacks \cup (IF phase \in {"initialize", "discover"} THEN {Server} ELSE {})
    /\ process \in {"load", "write", "ready"} =>
          \A i \in DOMAIN tools : tools[i] # <<>> => Servers[i] \in open
    /\ process = "closed" /\ started => open = {}

\* What start leaves in the registry is free of duplicates, whatever the servers
\* answer, so registry.add, which nothing guards, does not raise in _post_init and
\* abort the boot; and no tool of a server hides a built-in one.
RegisterSafe ==
    IsInjective(registry) /\ ToSet(registry) \cap Existing = {}

\* A policy that takes the file as unchanged resolves by what the operator last
\* filled in, across reloads, restarts and servers that come and go, unless one of
\* two races hit: reconcile replaced the file between its read and its write
\* (lost), or an edit fell between the read of the last load and its key (blind),
\* which a deletion can make current again, since a missing file has no key
\* (tools/policy.py, tools/permissions_file.py).
PolicyObeysOperator ==
    process = "ready" /\ policy.loaded /\ policy.step = "idle" /\ policy.key = Key
       /\ Parses(file) /\ ~lost /\ ~blind
    => policy.overrides = word

\* A start-up ends although servers never answer: the deadlines bound it.
BootEnds == []<>(process \in {"off", "ready", "closed"})
=============================================================================
