------------------------------- MODULE Config -------------------------------
(***************************************************************************)
(* load_config: which configurations the program accepts, and what the     *)
(* composition root then does with them.  Every violation raises a         *)
(* ConfigError before anything starts, so the order of the checks does not *)
(* matter: a part is accepted when none of them fails.                     *)
(*                                                                         *)
(* A JSON value is "absent" (or null), "bad" (of a wrong type, or illegal  *)
(* by its grammar), or one of the values the program tells apart.  A file  *)
(* of settings is "missing", "blank" or holds "text".                      *)
(***************************************************************************)
EXTENDS Cron, SequencesExt

CONSTANTS
    LegalNames,   \* names that match [a-z][a-z0-9_-]{0,31}
    MaxSchedules, \* _SCHEDULE_MAX_COUNT
    MaxTargets,   \* _INFRA_MAX_TARGETS
    MaxPaths      \* _INFRA_MAX_MOUNTS, _INFRA_MAX_SERVICES

Ports == 1 .. 65535

\* Entries of a list must have legal, distinct names, and no unknown field.
NamedApart(entries) ==
    /\ \A i \in DOMAIN entries : entries[i].name \in LegalNames /\ ~entries[i].unknown
    /\ \A i, j \in DOMAIN entries : entries[i].name = entries[j].name => i = j

-----------------------------------------------------------------------------
(* Where a list of settings is read from                                    *)

Source == [explicit : {"absent", "missing", "blank", "text"},
           default : {"missing", "blank", "text"}]

\* _load_schedules_text, _load_infra_targets_text: a file that is named must be
\* there and say something; the default file only counts when it exists.
ListSource(s) ==
    CASE s.explicit = "text" -> "explicit"
      [] s.explicit \in {"missing", "blank"} -> "refused"
      [] s.explicit = "absent" /\ s.default = "text" -> "default"
      [] s.explicit = "absent" /\ s.default = "blank" -> "refused"
      [] OTHER -> "inline"

\* _load_mcp_servers_text knows no default file.
ServerSource(s) == ListSource([s EXCEPT !.default = "missing"])

\* _load_mcp_permissions_file: a file that is not there is seeded later.
PermissionsAccepted(p, tools) == p = "bad" => ~tools

-----------------------------------------------------------------------------
(* _parse_schedules                                                         *)

\* Mutant: any receiver will do.
IdentityServedByAny(s) == s.telegram.kind = "ok" \/ s.qq.kind = "ok"

\* The channel a run executes under must be one of its receivers.
IdentityServed(s) ==
    \/ s.identity = "telegram" /\ s.telegram.kind = "ok"
    \/ s.identity = "qq" /\ s.qq.kind = "ok"

\* _parse_schedule_telegram_receiver, _parse_schedule_qq_receiver
ReceiversAccepted(s) ==
    /\ ~s.unknownReceiver
    /\ s.telegram.kind \in {"absent", "ok"} /\ s.qq.kind \in {"absent", "ok"}
    /\ s.telegram.kind = "ok" => s.telegram.chat > 0 /\ s.telegram.user > 0

ScheduleAccepted(s) ==
    /\ ParseCron(s.cron).ok
    /\ s.identity \in {"telegram", "qq"}
    /\ ReceiversAccepted(s)
    /\ IdentityServed(s)
    /\ s.prompt = "text"

SchedulesAccepted(list) ==
    /\ Len(list) <= MaxSchedules
    /\ NamedApart(list)
    /\ \A i \in DOMAIN list : ScheduleAccepted(list[i])

-----------------------------------------------------------------------------
(* _parse_mcp_servers                                                       *)

\* _validate_mcp_url: plain http only under MCP_ALLOW_INSECURE_HTTP; "bad" is a
\* url with another scheme, no host, credentials, a query or a fragment.
UrlAccepted(url, insecure) == url = "https" \/ (url = "http" /\ insecure)

\* _parse_mcp_authentication: a provider and oauth require each other, and
\* oauth excludes an operator's bearer token.
AuthAccepted(s) ==
    CASE s.auth = "absent" -> TRUE
      [] s.auth = "none"   -> s.provider = "absent"
      [] s.auth = "oauth"  -> s.provider \notin {"absent", "bad"} /\ s.bearer = "absent"
      [] OTHER             -> FALSE

\* The variable that holds the token is set, or no token is named.
BearerAccepted(s) == s.bearer \in {"absent", "set"}

HttpAccepted(s, insecure) ==
    /\ UrlAccepted(s.url, insecure)
    /\ {s.command, s.args, s.env, s.cwd} = {"absent"}
    /\ BearerAccepted(s)
    /\ AuthAccepted(s)

\* The executable and what is passed to it; any credential goes into env.
StdioAccepted(s) ==
    /\ {s.url, s.bearer, s.auth} = {"absent"}
    /\ s.command = "text"
    /\ {s.args, s.env, s.cwd} \subseteq {"absent", "text"}

ServerAccepted(s, insecure) ==
    \/ s.transport \in {"absent", "http"} /\ HttpAccepted(s, insecure)
    \/ s.transport = "stdio" /\ StdioAccepted(s)

ServersAccepted(list, insecure) ==
    /\ NamedApart(list)
    /\ \A i \in DOMAIN list : ServerAccepted(list[i], insecure)

-----------------------------------------------------------------------------
(* _parse_infra_targets                                                     *)

\* _validate_infra_host: no user, no port, no path, no white space.
HostAccepted(host) == host \in {"name", "ipv4", "ipv6", "bracketed ipv6"}

\* _validate_infra_file: a regular file that is there and readable, not a link,
\* named without ~ and ..; an empty known_hosts file pins nothing.
FileAccepted(file, nonempty) == file = "text" \/ (file = "blank" /\ ~nonempty)

\* _parse_infra_mounts, _parse_infra_services: repeated entries are dropped.
PathsAccepted(paths) ==
    /\ paths # <<>> /\ Len(paths) <= MaxPaths
    /\ \A i \in DOMAIN paths : paths[i] # "bad"

TargetAccepted(t) ==
    /\ HostAccepted(t.host)
    /\ t.port \in Ports
    /\ t.username = "text"
    /\ FileAccepted(t.key, FALSE) /\ FileAccepted(t.knownHosts, TRUE)
    /\ PathsAccepted(t.mounts) /\ PathsAccepted(t.services)

TargetsAccepted(list) ==
    /\ Len(list) <= MaxTargets
    /\ NamedApart(list)
    /\ \A i \in DOMAIN list : TargetAccepted(list[i])

-----------------------------------------------------------------------------
(* Config.__post_init__                                                     *)

\* _validate_oauth_callback_base: a bare origin, or none.
CallbackAccepted(k) == k.callback \in {"absent", "origin"} /\ k.callbackPort \in Ports

\* counts stands for the knobs that must be at least one, each on its own.
KnobsAccepted(k) ==
    /\ k.users # {} /\ k.credentials = "text"
    /\ k.counts >= 1
    /\ k.contextTokens >= 1 /\ k.memoryTokens >= 1
    /\ k.memoryTokens <= k.contextTokens
    /\ k.toolTimeout > 0 /\ k.approvalTimeout > 0 /\ k.connectTimeout > 0 /\ k.stateTtl > 0
    /\ k.sshTimeout > 0 /\ k.sshTimeout <= k.toolTimeout
    /\ CallbackAccepted(k)
    /\ k.timezone # "bad"

\* The exec tool may run without a directory of its own, the file tools may not.
ToolKnobsAccepted(k) ==
    /\ k.denyPatterns # "bad"
    /\ k.exec => k.execDir \in {"absent", "directory"} /\ k.execCap >= 1
    /\ k.files => k.fileDir = "directory" /\ k.fileCap >= 1

\* load_config: everything is parsed, whether it will be used or not.
Accepted(c) ==
    /\ PermissionsAccepted(c.permissions, c.knobs.tools)
    /\ \A s \in {c.scheduleSource, c.targetSource} : ListSource(s) # "refused"
    /\ ServerSource(c.serverSource) # "refused"
    /\ SchedulesAccepted(c.schedules)
    /\ ServersAccepted(c.servers, c.insecure)
    /\ TargetsAccepted(c.targets)
    /\ KnobsAccepted(c.knobs) /\ ToolKnobsAccepted(c.knobs)

-----------------------------------------------------------------------------
(* What the program does with what it accepted                              *)

\* memory_scope and approval_delivery_chat_id read the receiver of the identity
\* without looking whether it is there.
ScopeOf(s) == IF s.identity = "telegram" THEN s.telegram.kind ELSE s.qq.kind

\* AgentBackend and Scheduler: a run has a scope and a place to ask for approval,
\* its cron parses again, and its venue is its own.
SchedulesRun(list) ==
    /\ \A i \in DOMAIN list : ScopeOf(list[i]) = "ok" /\ LegalCron(list[i].cron)
    /\ Cardinality({list[i].name : i \in DOMAIN list}) = Len(list)

\* McpManager._handshake: one transport per server, and at most one credential:
\* what http sends without TLS, and what a token would be sent with, is chosen.
ServersConnect(list, insecure) ==
    \A i \in DOMAIN list :
        LET s == list[i] IN
        /\ (s.transport = "stdio") = (s.command # "absent")
        /\ (s.transport # "stdio") = (s.url # "absent")
        /\ s.url = "http" => insecure
        /\ ~(s.bearer # "absent" /\ s.auth = "oauth")
        /\ s.auth = "oauth" => s.transport # "stdio" /\ s.provider # "absent"

\* build_infra_tools registers infra_<target>__<observation>: a second target of
\* a name would make registry.add raise in _post_init.
TargetsRegister(list) ==
    /\ Cardinality({list[i].name : i \in DOMAIN list}) = Len(list)
    /\ \A i \in DOMAIN list : list[i].knownHosts = "text"

\* The SSH connect ends inside the call's own deadline, the memories leave the
\* request its budget, and the file tools are confined to a directory.
LimitsNest(k) ==
    /\ 0 < k.sshTimeout /\ k.sshTimeout <= k.toolTimeout
    /\ k.memoryTokens <= k.contextTokens
    /\ k.files => k.fileDir = "directory"

\* A file an operator names is what the program runs on.
NothingIgnored(c) ==
    /\ \A s \in {c.scheduleSource, c.targetSource} :
          (s.explicit # "absent" => ListSource(s) = "explicit")
          /\ (s.explicit = "absent" /\ s.default # "missing" => ListSource(s) = "default")
    /\ c.serverSource.explicit # "absent" => ServerSource(c.serverSource) = "explicit"
    /\ c.permissions = "bad" => ~c.knobs.tools
=============================================================================
