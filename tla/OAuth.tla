------------------------------- MODULE OAuth -------------------------------
(***************************************************************************)
(* User-level OAuth credentials for MCP servers: the authorizations a user *)
(* starts (/mcp auth), the callbacks a browser sends for them, and the     *)
(* calls that ask for a valid access token and refresh an expired one.     *)
(*                                                                         *)
(* There is one MCP server.  A state is named by its authorization, and a  *)
(* token by its number of issue: the authorization server, which is        *)
(* external, issues an access token with or without a refresh token, takes *)
(* a code once, and may rotate a refresh token, after which it no longer   *)
(* honours the old one.  Every database statement is an await.             *)
(***************************************************************************)
EXTENDS Naturals, FiniteSets, Sequences

CONSTANTS
    Users,
    Flows,      \* authorizations, and the states that name them
    Callbacks,  \* GET /oauth/callback requests
    Callers,    \* valid_access_token calls
    UserOf,     \* the user of each flow and of each caller
    StateOf,    \* the state each callback carries
    Ttl,        \* OAUTH_STATE_TTL_SECONDS
    Lifetime,   \* expires_in of an access token
    Skew,       \* _EXPIRY_SKEW
    MaxTime,    \* bound: the clock
    MaxTokens,  \* bound: tokens ever issued
    MaxCrashes, \* bound: process crashes
    None

Tasks  == Callbacks \cup Callers
Tokens == 1 .. MaxTokens
Times  == 0 .. MaxTime + Ttl + Lifetime
Credential == [access : Tokens, refresh : Tokens \cup {None}, expires : Times \cup {None}]

ASSUME OAuthAssumption ==
    /\ Callbacks \cap Callers = {}
    /\ UserOf \in [Flows \cup Callers -> Users]
    /\ StateOf \in [Callbacks -> Flows]
    /\ {Ttl, Lifetime, Skew, MaxTime, MaxTokens, MaxCrashes} \subseteq Nat
    /\ None \notin Callers \cup Nat \cup Credential

VARIABLES
    now,
    deadline,  \* the expiry of each state, or None before it is initiated
    pending,   \* oauth_authorization_states
    cred,      \* oauth_credentials: the credential of each user, or None
    pc,        \* where each callback and caller is
    view,      \* the credential a task has read or received, or None
    holder,    \* the caller inside each user's refresh lock, or None
    answer,    \* the access token a caller was given, or None
    owner,     \* authorization server: the user of each access token issued
    honoured,  \* authorization server: the refresh tokens it takes
    spent,     \* authorization server: the flows whose code it has taken
    upset,     \* history: users with a response lost, a save failed, or two
               \* tokens on their way to the table
    crashes

states == <<deadline, pending>>
server == <<owner, honoured, spent>>
vars   == <<now, states, cred, pc, view, holder, answer, server, upset, crashes>>

Goto(t, from, to) ==
    /\ pc[t] = from
    /\ pc' = [pc EXCEPT ![t] = to]

\* The user a callback or a caller works for.
For(t) == IF t \in Callbacks THEN UserOf[StateOf[t]] ELSE UserOf[t]

\* _is_valid: no known expiry, or one later than now - Skew.
Valid(c) == ~ (c.expires # None /\ c.expires + Skew <= now)

\* The process returns from a call or a request: its local variables are gone.
Leave(t, from) ==
    /\ Goto(t, from, "over")
    /\ view' = [view EXCEPT ![t] = None]

\* Mutant: milliseconds where seconds are meant.
IssueInMillis(t, given) ==
    /\ Len(owner) < MaxTokens
    /\ owner' = Append(owner, For(t))
    /\ \E refresh \in {Len(owner'), given} :
          /\ view' = [view EXCEPT ![t] =
                [access |-> Len(owner'), refresh |-> refresh, expires |-> now + Lifetime * 1000]]
          /\ honoured' = honoured \cup ({refresh} \ {None})
    /\ UNCHANGED upset

\* The authorization server answers with the next access token of the user,
\* with or without a known expiry; its refresh token, too, is new, or as given.
Issue(t, given) ==
    /\ Len(owner) < MaxTokens
    /\ owner' = Append(owner, For(t))
    /\ \E refresh \in {Len(owner'), given}, expires \in {now + Lifetime, None} :
          /\ view' = [view EXCEPT ![t] =
                [access |-> Len(owner'), refresh |-> refresh, expires |-> expires]]
          /\ honoured' = IF refresh = given THEN honoured
                         ELSE (honoured \ {given}) \cup {refresh}
    /\ upset' = upset \cup {u \in Users : u = For(t)
                              /\ \E s \in Tasks : pc[s] = "save" /\ For(s) = u}

-----------------------------------------------------------------------------
Init ==
    /\ now = 0
    /\ deadline = [f \in Flows |-> None]
    /\ pending = {}
    /\ cred = [u \in Users |-> None]
    /\ pc = [t \in Tasks |-> "idle"]
    /\ view = [t \in Tasks |-> None]
    /\ holder = [u \in Users |-> None]
    /\ answer = [c \in Callers |-> None]
    /\ owner = <<>>
    /\ honoured = {}
    /\ spent = {}
    /\ upset = {}
    /\ crashes = 0

Tick ==
    /\ now < MaxTime
    /\ now' = now + 1
    /\ UNCHANGED <<states, cred, pc, view, holder, answer, server, upset, crashes>>

\* A user starts an authorization: its state is stored with an expiry.
Initiate(f) ==
    /\ deadline[f] = None
    /\ deadline' = [deadline EXCEPT ![f] = now + Ttl]
    /\ pending' = pending \cup {f}
    /\ UNCHANGED <<now, cred, pc, view, holder, answer, server, upset, crashes>>

-----------------------------------------------------------------------------
(* A callback                                                               *)

\* The user refused, or the query has no code: the state is discarded.
Denied(b) ==
    /\ deadline[StateOf[b]] # None
    /\ Leave(b, "idle")
    /\ pending' = pending \ {StateOf[b]}
    /\ UNCHANGED <<now, deadline, cred, holder, answer, server, upset, crashes>>

\* consume_pending selects the row, or finds none.
LookUp(b) ==
    /\ deadline[StateOf[b]] # None
    /\ Goto(b, "idle", IF StateOf[b] \in pending THEN "found" ELSE "over")
    /\ UNCHANGED <<now, states, cred, view, holder, answer, server, upset, crashes>>

\* It deletes the row it has read, which may be gone by now: only a warning.
Consume(b) ==
    /\ Goto(b, "found", IF deadline[StateOf[b]] < now THEN "over" ELSE "exchange")
    /\ pending' = pending \ {StateOf[b]}
    /\ UNCHANGED <<now, deadline, cred, view, holder, answer, server, upset, crashes>>

Exchange(b) ==
    /\ Goto(b, "exchange", "save")
    /\ StateOf[b] \notin spent
    /\ spent' = spent \cup {StateOf[b]}
    /\ Issue(b, None)
    /\ UNCHANGED <<now, states, cred, holder, answer, crashes>>

\* The code is refused, or the request fails on its way there or back.
ExchangeFails(b) ==
    /\ Leave(b, "exchange")
    /\ spent' \in {spent, spent \cup {StateOf[b]}}
    /\ UNCHANGED <<now, states, cred, holder, answer, owner, honoured, upset, crashes>>

\* save_credential overwrites every field; the notification may fail unnoticed.
SaveAuthorization(b) ==
    /\ Leave(b, "save")
    /\ cred' = [cred EXCEPT ![For(b)] = view[b]]
    /\ UNCHANGED <<now, states, holder, answer, server, upset, crashes>>

\* A database error is the callback's own: the browser sees a failure.
CallbackFails(b) ==
    /\ b \in Callbacks
    /\ \E from \in {"found", "save"} : Leave(b, from)
    /\ upset' = IF pc[b] = "save" THEN upset \cup {For(b)} ELSE upset
    /\ UNCHANGED <<now, states, cred, holder, answer, server, crashes>>

-----------------------------------------------------------------------------
(* valid_access_token                                                       *)

\* Mutant: an exception or an early return leaves the lock taken.
GiveKeepingLock(c, from, token) ==
    /\ Leave(c, from)
    /\ answer' = [answer EXCEPT ![c] = token]
    /\ UNCHANGED holder

\* The call returns, or raises (token None): "async with" lets go of the lock.
Give(c, from, token) ==
    /\ Leave(c, from)
    /\ answer' = [answer EXCEPT ![c] = token]
    /\ holder' = [holder EXCEPT ![UserOf[c]] = IF @ = c THEN None ELSE @]

\* Mutant: the query forgets the user.
ReadAnyUsers(c) ==
    /\ Goto(c, "idle", "check")
    /\ \E u \in Users : cred[u] # None /\ view' = [view EXCEPT ![c] = cred[u]]
    /\ UNCHANGED <<now, states, cred, holder, answer, server, upset, crashes>>

\* get_credential: the user is in the query.
Read(c) ==
    /\ Goto(c, "idle", "check")
    /\ view' = [view EXCEPT ![c] = cred[UserOf[c]]]
    /\ UNCHANGED <<now, states, cred, holder, answer, server, upset, crashes>>

\* No credential, an expired one without a refresh token, or a valid one.
Usable(c)   == view[c] # None /\ Valid(view[c])
Hopeless(c) == view[c] # None => ~ Valid(view[c]) /\ view[c].refresh = None

Check(c) ==
    /\ \/ Usable(c) /\ Give(c, "check", view[c].access)
       \/ Hopeless(c) /\ Give(c, "check", None)
       \/ /\ ~ Usable(c) /\ ~ Hopeless(c)
          /\ Goto(c, "check", "lock")
          /\ UNCHANGED <<view, holder, answer>>
    /\ UNCHANGED <<now, states, cred, server, upset, crashes>>

\* Mutant: the credential read before the lock is trusted.
AcquireNoReread(c) ==
    /\ holder[UserOf[c]] = None
    /\ Goto(c, "lock", "recheck")
    /\ holder' = [holder EXCEPT ![UserOf[c]] = c]
    /\ UNCHANGED <<now, states, cred, view, answer, server, upset, crashes>>

\* The refresh lock of the user, and the second get_credential.
Acquire(c) ==
    /\ holder[UserOf[c]] = None
    /\ Goto(c, "lock", "recheck")
    /\ holder' = [holder EXCEPT ![UserOf[c]] = c]
    /\ view' = [view EXCEPT ![c] = cred[UserOf[c]]]
    /\ UNCHANGED <<now, states, cred, answer, server, upset, crashes>>

Recheck(c) ==
    /\ \/ Usable(c) /\ Give(c, "recheck", view[c].access)
       \/ Hopeless(c) /\ Give(c, "recheck", None)
       \/ /\ ~ Usable(c) /\ ~ Hopeless(c)
          /\ Goto(c, "recheck", "refresh")
          /\ UNCHANGED <<view, holder, answer>>
    /\ UNCHANGED <<now, states, cred, server, upset, crashes>>

Refresh(c) ==
    /\ Goto(c, "refresh", "save")
    /\ view[c].refresh \in honoured
    /\ Issue(c, view[c].refresh)
    /\ UNCHANGED <<now, states, cred, holder, answer, spent, crashes>>

\* A request that got no answer may have rotated the token all the same.
Unanswered(K) ==
    \E lost \in SUBSET K :
        /\ honoured' = honoured \ {view[c].refresh : c \in lost}
        /\ upset' = upset \cup {UserOf[c] : c \in lost}

RefreshFails(c) ==
    /\ Give(c, "refresh", None)
    /\ Unanswered({c})
    /\ UNCHANGED <<now, states, cred, owner, spent, crashes>>

\* Mutant: the new token is returned but not stored.
SaveForgotten(c) ==
    /\ Give(c, "save", view[c].access)
    /\ UNCHANGED <<now, states, cred, server, upset, crashes>>

SaveRefreshed(c) ==
    /\ Give(c, "save", view[c].access)
    /\ cred' = [cred EXCEPT ![UserOf[c]] = view[c]]
    /\ UNCHANGED <<now, states, server, upset, crashes>>

\* A cancelled turn, or a database error; what was being stored may be lost.
CallFails(c) ==
    /\ \/ /\ \E from \in {"check", "lock", "recheck"} : Give(c, from, None)
          /\ UNCHANGED <<cred, upset>>
       \/ /\ Give(c, "save", None)
          /\ \/ cred' = [cred EXCEPT ![UserOf[c]] = view[c]] /\ UNCHANGED upset
             \/ upset' = upset \cup {UserOf[c]} /\ UNCHANGED cred
    /\ UNCHANGED <<now, states, server, crashes>>

-----------------------------------------------------------------------------
\* The process dies; the tables and the authorization server do not.
Crash ==
    /\ crashes < MaxCrashes
    /\ crashes' = crashes + 1
    /\ \E lost \in SUBSET {c \in Callers : pc[c] = "refresh"} :
          /\ honoured' = honoured \ {view[c].refresh : c \in lost}
          /\ upset' = upset \cup {UserOf[c] : c \in lost}
                            \cup {For(t) : t \in {s \in Tasks : pc[s] = "save"}}
    /\ pc' = [t \in Tasks |-> IF pc[t] = "idle" THEN "idle" ELSE "over"]
    /\ view' = [t \in Tasks |-> None]
    /\ holder' = [u \in Users |-> None]
    /\ UNCHANGED <<now, states, cred, answer, owner, spent>>

CallbackStep(b) ==
    \/ Denied(b) \/ LookUp(b) \/ Consume(b) \/ Exchange(b) \/ ExchangeFails(b)
    \/ SaveAuthorization(b) \/ CallbackFails(b)

CallStep(c) ==
    \/ Check(c) \/ Acquire(c) \/ Recheck(c) \/ Refresh(c) \/ RefreshFails(c)
    \/ SaveRefreshed(c) \/ CallFails(c)

Next ==
    \/ Tick
    \/ \E f \in Flows : Initiate(f)
    \/ \E b \in Callbacks : CallbackStep(b)
    \/ \E c \in Callers : Read(c) \/ CallStep(c)
    \/ Crash

Spec == Init /\ [][Next]_vars

-----------------------------------------------------------------------------
(* Properties                                                               *)

\* Types of the tables, the tasks and the authorization server.
OAuthTypeOK ==
    /\ now \in 0 .. MaxTime
    /\ deadline \in [Flows -> Times \cup {None}]
    /\ pending \subseteq {f \in Flows : deadline[f] # None}
    /\ cred \in [Users -> Credential \cup {None}]
    /\ pc \in [Tasks -> {"idle", "found", "exchange", "check", "lock", "recheck",
                         "refresh", "save", "over"}]
    /\ view \in [Tasks -> Credential \cup {None}]
    /\ holder \in [Users -> Callers \cup {None}]
    /\ answer \in [Callers -> Tokens \cup {None}]
    /\ owner \in Seq(Users)
    /\ honoured \subseteq Tokens
    /\ spent \subseteq Flows
    /\ upset \subseteq Users
    /\ crashes \in 0 .. MaxCrashes

\* A credential never crosses users: what a call returns, and what the table
\* holds for a user, was issued for an authorization of that user.
TokenOfUser ==
    /\ \A c \in Callers : answer[c] # None => owner[answer[c]] = UserOf[c]
    /\ \A u \in Users : cred[u] # None => owner[cred[u].access] = u

\* "concurrent callers refresh exactly once" (developer-reference.md): a refresh
\* is asked for with a token the provider honours, so never with one that
\* another call has used up, unless a response was lost or not stored.
RefreshTokenLive ==
    \A c \in Callers :
        pc[c] = "refresh" /\ UserOf[c] \notin upset => view[c].refresh \in honoured

\* The newest token issued to a user is the one stored, or it is being stored:
\* no call and no callback puts an older one back, unless two were under way.
StoredIsNewest ==
    \A g \in 1 .. Len(owner) :
        LET u == owner[g] IN
        u \notin upset /\ (\A h \in g + 1 .. Len(owner) : owner[h] # u) =>
            \/ cred[u] # None /\ cred[u].access = g
            \/ \E t \in Tasks : pc[t] = "save" /\ view[t].access = g

\* The refresh lock of a user is never left behind, and its holder is the only
\* call of the user on its way to the provider: whatever fails, is cancelled or
\* crashes, the next call gets its turn.
LockHeldInside ==
    \A c \in Callers :
        holder[UserOf[c]] = c <=> pc[c] \in {"recheck", "refresh", "save"}

-----------------------------------------------------------------------------
(* What the comments claim and the code does not do                         *)

\* manager.py:58-60: "A refresh is attempted this far before the real expiry, so
\* a token that is still valid by the clock but about to die is not handed to a
\* request": a token that is handed out has not expired.
LiveTokens ==
    [][\A c \in Callers :
          answer[c] = None /\ answer'[c] # None =>
              view[c].expires = None \/ view[c].expires >= now]_vars

\* oauth.py:149: "a state is single-use: a second call (a replay) returns None".
SingleUse ==
    \A a, b \in Callbacks :
        {pc[a], pc[b]} \subseteq {"exchange", "save"} /\ StateOf[a] = StateOf[b] => a = b
=============================================================================
