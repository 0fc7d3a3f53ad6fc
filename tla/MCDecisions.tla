----------------------------- MODULE MCDecisions -----------------------------
(* Inputs for the decisions: histories of up to four messages, expressions   *)
(* around a leap day, and configurations that vary one part at a time.       *)
EXTENDS Decisions

\* Planning: texts of 1 to 4 units, with an envelope of one unit.
short == <<"wide">>
words == <<Ascii, Ascii, Ascii, Ascii, Ascii>>
mixed == <<Ascii, "wide", Ascii>>
lines == [i \in 1 .. 14 |-> Ascii]
Said(role, text, images) == [role |-> role, text |-> text, images |-> images]
Kept(id, text, terms, whole, updated) ==
    [id |-> id, text |-> text, terms |-> terms, whole |-> whole, updated |-> updated]

MCHeader    == <<"wide">>
MCBullet    == <<Ascii, Ascii>>
MCMessages  == {Said("user", short, 0), Said("user", mixed, 1), Said("assistant", words, 0)}
MCMemories  == {Kept(1, short, {"tea"}, TRUE, 1), Kept(2, lines, {"tea", "milk"}, FALSE, 2),
                Kept(3, mixed, {"tea"}, FALSE, 3), Kept(4, short, {"rain"}, FALSE, 4)}
MCRequests ==
    [system : {short}, current : {Said("user", short, 0), Said("user", short, 1)},
     history : UNION {[1 .. n -> MCMessages] : n \in 0 .. 3},
     memories : {{}, MCMemories}, query : {{}, {"tea", "milk"}}, limit : {2, 3},
     cap : {1, 3, 4}, budget : {4, 10, 14, 20}, subBudget : {8, 13}]

\* Firing: Tuesday 27 February to Saturday 2 March of a leap year.
MCCalendar == << [month |-> 2, dom |-> 27, dow |-> 2], [month |-> 2, dom |-> 28, dow |-> 3],
                 [month |-> 2, dom |-> 29, dow |-> 4], [month |-> 3, dom |-> 1, dow |-> 5],
                 [month |-> 3, dom |-> 2, dow |-> 6], [month |-> 3, dom |-> 3, dow |-> 0] >>
MCFires ==
    [expr : {<<mi, h, dom, mo, dow>> :
               mi  \in {<<Value(30)>>, <<Every(20)>>, <<Stepped(FromTo(50, 59), 4), Value(0)>>,
                        <<Value(60)>>, <<>>},
               h   \in {<<Star>>, <<Value(0), Value(23)>>, <<FromTo(9, 7)>>},
               dom \in {<<Star>>, <<Value(29)>>, <<Every(2)>>, <<Value(31), Junk>>},
               mo  \in {<<Star>>, <<Value(3)>>},
               dow \in {<<Star>>, <<FromTo(5, 7)>>, <<Value(0)>>, <<Stepped(Value(1), 2)>>}},
     after : {<<1, 0, 0>>, <<1, 23, 59>>, <<3, 23, 30>>}]

\* Configurations.
MCSource   == [explicit |-> "absent", default |-> "missing"]
MCTelegram == [kind |-> "ok", chat |-> 1, user |-> 1]
MCSchedule == [unknown |-> FALSE, name |-> "a", identity |-> "telegram", prompt |-> "text",
               cron |-> <<<<Star>>, <<Star>>, <<Star>>, <<Star>>, <<Star>>>>,
               unknownReceiver |-> FALSE, telegram |-> MCTelegram, qq |-> [kind |-> "absent"]]
MCServer   == [unknown |-> FALSE, name |-> "a", transport |-> "absent", url |-> "https",
               bearer |-> "absent", auth |-> "absent", provider |-> "absent",
               command |-> "absent", args |-> "absent", env |-> "absent", cwd |-> "absent"]
MCTarget   == [unknown |-> FALSE, name |-> "a", host |-> "name", port |-> 22,
               username |-> "text", key |-> "text", knownHosts |-> "text",
               mounts |-> <<"root">>, services |-> <<"ssh">>]
MCKnobs    == [users |-> {1}, credentials |-> "text", counts |-> 1,
               contextTokens |-> 2, memoryTokens |-> 1, toolTimeout |-> 2,
               approvalTimeout |-> 1, connectTimeout |-> 1, stateTtl |-> 1, sshTimeout |-> 1,
               callback |-> "absent", callbackPort |-> 8090, timezone |-> "absent",
               tools |-> TRUE, denyPatterns |-> "text", exec |-> FALSE, execDir |-> "absent",
               execCap |-> 1, files |-> FALSE, fileDir |-> "absent", fileCap |-> 1]
MCSetup    == [permissions |-> "absent", scheduleSource |-> MCSource, targetSource |-> MCSource,
               serverSource |-> MCSource, schedules |-> <<>>, servers |-> <<>>,
               targets |-> <<>>, insecure |-> FALSE, knobs |-> MCKnobs]

MCSchedules ==
    {[MCSchedule EXCEPT !.name = n, !.identity = i, !.prompt = p, !.unknownReceiver = u,
                        !.telegram.kind = t, !.telegram.user = id, !.qq.kind = q,
                        !.cron[1] = m] :
       n \in {"a", "Bad"}, i \in {"telegram", "qq", "bad"}, p \in {"text", "blank"},
       u \in BOOLEAN, t \in {"absent", "bad", "ok"}, id \in {0, 1},
       q \in {"absent", "bad", "ok"}, m \in {<<Star>>, <<Junk>>}}
MCServers ==
    {[MCServer EXCEPT !.transport = t, !.url = u, !.bearer = b, !.auth = a, !.provider = p,
                      !.command = c, !.env = e] :
       t \in {"absent", "http", "stdio", "bad"}, u \in {"absent", "bad", "http", "https"},
       b \in {"absent", "set", "unset"}, a \in {"absent", "none", "oauth", "bad"},
       p \in {"absent", "google"}, c \in {"absent", "bad", "text"}, e \in {"absent", "text"}}
MCTargets ==
    {[MCTarget EXCEPT !.host = h, !.port = p, !.key = k, !.knownHosts = f, !.mounts = m] :
       h \in {"name", "ipv6", "with port"}, p \in {0, 22, 65535, 65536},
       k \in {"text", "blank", "missing"}, f \in {"text", "blank", "link"},
       m \in {<<>>, <<"root">>, <<"root", "root">>, <<"root", "bad">>}}
MCKnobSets ==
    {[MCKnobs EXCEPT !.contextTokens = c, !.memoryTokens = m, !.toolTimeout = t,
                     !.sshTimeout = s, !.tools = o, !.files = f, !.fileDir = d, !.exec = e] :
       c \in 0 .. 2, m \in 0 .. 2, t \in 0 .. 2, s \in 0 .. 2, o \in BOOLEAN, f \in BOOLEAN,
       d \in {"absent", "missing", "directory"}, e \in BOOLEAN}
MCSources == [explicit : {"absent", "missing", "blank", "text"},
              default : {"missing", "blank", "text"}]

MCSetups ==
    {[MCSetup EXCEPT !.schedules = <<s>>] : s \in MCSchedules}
    \cup {[MCSetup EXCEPT !.schedules = <<MCSchedule, [MCSchedule EXCEPT !.name = n]>>] :
            n \in {"a", "b"}}
    \cup {[MCSetup EXCEPT !.servers = <<s>>, !.insecure = i] : s \in MCServers, i \in BOOLEAN}
    \cup {[MCSetup EXCEPT !.servers = <<MCServer, [MCServer EXCEPT !.name = n]>>] :
            n \in {"a", "b"}}
    \cup {[MCSetup EXCEPT !.targets = <<t>>] : t \in MCTargets}
    \cup {[MCSetup EXCEPT !.targets = <<MCTarget, [MCTarget EXCEPT !.name = n]>>] :
            n \in {"a", "b"}}
    \cup {[MCSetup EXCEPT !.knobs = k] : k \in MCKnobSets}
    \cup {[MCSetup EXCEPT !.scheduleSource = s, !.serverSource = t, !.permissions = p,
                          !.knobs.tools = o] :
            s \in MCSources, t \in MCSources, p \in {"absent", "bad", "text"}, o \in BOOLEAN}
=============================================================================
