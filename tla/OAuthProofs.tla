----------------------------- MODULE OAuthProofs -----------------------------
(***************************************************************************)
(* Proofs about OAuth, for any users, authorizations, callbacks, calls,    *)
(* lifetimes and crashes.                                                  *)
(***************************************************************************)
EXTENDS OAuth, SequenceTheorems, TLAPS

\* A credential whose tokens the provider has issued for u, o being its log.
OwnedIn(o, c, u) ==
    /\ c \in Credential
    /\ c.access \in 1 .. Len(o) /\ o[c.access] = u
    /\ c.refresh # None => c.refresh \in 1 .. Len(o) /\ o[c.refresh] = u

\* What a task works with was issued for its user.
ViewOwned ==
    \A t \in Tasks : view[t] # None \/ pc[t] \in {"refresh", "save"} =>
                        OwnedIn(owner, view[t], For(t))

CredOwned == \A u \in Users : cred[u] # None => OwnedIn(owner, cred[u], u)

AnswerOwned ==
    \A c \in Callers : answer[c] # None =>
                          answer[c] \in 1 .. Len(owner) /\ owner[answer[c]] = UserOf[c]

TokenInv ==
    /\ OAuthTypeOK
    /\ Len(owner) <= MaxTokens
    /\ ViewOwned
    /\ CredOwned
    /\ AnswerOwned

-----------------------------------------------------------------------------
(* Facts about the constants and the log of the provider                    *)

LEMMA ForUser ==
    /\ \A t \in Tasks : For(t) \in Users
    /\ \A c \in Callers : For(c) = UserOf[c] /\ c \in Tasks /\ c \notin Callbacks
    /\ \A b \in Callbacks : b \in Tasks /\ b \notin Callers /\ StateOf[b] \in Flows
BY OAuthAssumption DEF For, Tasks

LEMMA TimesClosed ==
    ASSUME now \in 0 .. MaxTime
    PROVE  now + Ttl \in Times /\ now + Lifetime \in Times
BY OAuthAssumption DEF Times

LEMMA NoneIsNoToken == None \notin Tokens /\ None \notin Times /\ None \notin Nat
BY OAuthAssumption DEF Tokens, Times

\* The log only grows, by the token that was issued.
LEMMA LogGrows ==
    ASSUME TokenInv, NEW t \in Tasks, NEW given, Issue(t, given)
    PROVE  /\ owner' \in Seq(Users)
           /\ Len(owner') = Len(owner) + 1
           /\ Len(owner') \in Tokens /\ Len(owner') <= MaxTokens
           /\ owner'[Len(owner')] = For(t)
           /\ \A i \in 1 .. Len(owner) : owner'[i] = owner[i]
<1>1. owner \in Seq(Users) /\ For(t) \in Users /\ owner' = Append(owner, For(t))
  BY ForUser DEF TokenInv, OAuthTypeOK, Issue
<1>2. Len(owner) < MaxTokens /\ Len(owner) \in Nat /\ MaxTokens \in Nat
  BY <1>1, OAuthAssumption DEF Issue
<1> QED
  BY <1>1, <1>2 DEF Tokens

LEMMA OwnedStays ==
    ASSUME TokenInv, NEW t \in Tasks, NEW given, Issue(t, given),
           NEW c, NEW u, OwnedIn(owner, c, u)
    PROVE  OwnedIn(owner', c, u)
<1>1. Len(owner) \in Nat
  BY DEF TokenInv, OAuthTypeOK
<1> QED
  BY <1>1, LogGrows DEF OwnedIn

\* What the provider hands out: a credential of the user, and what it honours.
LEMMA Issued ==
    ASSUME TokenInv, NEW t \in Tasks, NEW given, Issue(t, given),
           given = None \/ (given \in 1 .. Len(owner) /\ owner[given] = For(t))
    PROVE  \E c \in Credential :
              /\ view' = [view EXCEPT ![t] = c]
              /\ c.access = Len(owner')
              /\ c.refresh \in {Len(owner'), given}
              /\ OwnedIn(owner', c, For(t))
              /\ honoured' = IF c.refresh = given THEN honoured
                             ELSE (honoured \ {given}) \cup {c.refresh}
              /\ given # None => given # Len(owner')
<1>1. PICK refresh \in {Len(owner'), given}, expires \in {now + Lifetime, None} :
        /\ view' = [view EXCEPT ![t] =
              [access |-> Len(owner'), refresh |-> refresh, expires |-> expires]]
        /\ honoured' = IF refresh = given THEN honoured ELSE (honoured \ {given}) \cup {refresh}
  BY DEF Issue
<1> DEFINE c == [access |-> Len(owner'), refresh |-> refresh, expires |-> expires]
<1>2. Len(owner) \in Nat /\ Len(owner') = Len(owner) + 1 /\ Len(owner') \in Tokens
  BY LogGrows DEF TokenInv, OAuthTypeOK
<1>3. given \in Tokens \cup {None}
  BY <1>2, OAuthAssumption DEF TokenInv, Tokens
<1>4. c \in Credential
  BY <1>2, <1>3, TimesClosed DEF Credential, TokenInv, OAuthTypeOK
<1>5. OwnedIn(owner', c, For(t))
  BY <1>2, <1>4, LogGrows DEF OwnedIn
<1>6. given # None => given # Len(owner')
  BY <1>2
<1> QED
  BY <1>1, <1>4, <1>5, <1>6

-----------------------------------------------------------------------------
(* Credentials stay with their users                                        *)

LEMMA InitTokens == Init => TokenInv
<1> SUFFICES ASSUME Init PROVE TokenInv
  OBVIOUS
<1>1. Len(owner) = 0 /\ owner \in Seq(Users)
  BY DEF Init
<1>2. OAuthTypeOK
  BY <1>1, OAuthAssumption DEF Init, OAuthTypeOK, Tokens
<1> QED
  BY <1>1, <1>2, OAuthAssumption DEF TokenInv, Init, ViewOwned, CredOwned, AnswerOwned

\* A task holds what it held, or no longer works with anything.
Keeps(t) ==
    \/ /\ view'[t] = view[t]
       /\ pc'[t] = "refresh" => pc[t] = "refresh" \/ view[t] # None
       /\ pc'[t] = "save" => pc[t] = "save"
    \/ view'[t] = None /\ pc'[t] \notin {"refresh", "save"}

\* A call returns, if anything, the token it works with.
AnswersOwn(c) ==
    \/ answer'[c] = answer[c]
    \/ answer'[c] = None
    \/ view[c] # None /\ answer'[c] = view[c].access

\* A task that moves on without the provider.
LEMMA PlainMove ==
    ASSUME TokenInv,
           UNCHANGED <<owner, cred>>,
           OAuthTypeOK',
           \A t \in Tasks : Keeps(t),
           \A c \in Callers : AnswersOwn(c)
    PROVE  TokenInv'
<1>1. ViewOwned'
  BY DEF TokenInv, ViewOwned, Keeps
<1>2. CredOwned'
  BY DEF TokenInv, CredOwned
<1>3. AnswerOwned'
  BY ForUser DEF TokenInv, ViewOwned, AnswerOwned, OwnedIn, AnswersOwn
<1> QED
  BY <1>1, <1>2, <1>3 DEF TokenInv

LEMMA TickTokens ==
    ASSUME TokenInv, Tick \/ \E f \in Flows : Initiate(f)
    PROVE  TokenInv'
<1>1. OAuthTypeOK'
  <2>1. CASE Tick
    BY <2>1, OAuthAssumption DEF Tick, states, server, TokenInv, OAuthTypeOK
  <2>2. CASE \E f \in Flows : Initiate(f)
    BY <2>2, TimesClosed, NoneIsNoToken DEF Initiate, server, TokenInv, OAuthTypeOK
  <2> QED
    BY <2>1, <2>2
<1>2. UNCHANGED <<owner, cred, view, pc, answer>>
  BY DEF Tick, Initiate, states, server
<1> QED
  BY <1>1, <1>2 DEF TokenInv, ViewOwned, CredOwned, AnswerOwned

LEMMA CallbackMoves ==
    ASSUME TokenInv, NEW b \in Callbacks,
           Denied(b) \/ LookUp(b) \/ Consume(b) \/ ExchangeFails(b) \/ CallbackFails(b)
    PROVE  TokenInv'
<1>1. b \in Tasks /\ For(b) \in Users /\ StateOf[b] \in Flows
  BY ForUser
<1>2. OAuthTypeOK'
  <2>1. CASE Denied(b)
    BY <1>1, <2>1 DEF Denied, Leave, Goto, server, TokenInv, OAuthTypeOK
  <2>2. CASE LookUp(b)
    BY <1>1, <2>2 DEF LookUp, Goto, states, server, TokenInv, OAuthTypeOK
  <2>3. CASE Consume(b)
    BY <1>1, <2>3 DEF Consume, Goto, server, TokenInv, OAuthTypeOK
  <2>4. CASE ExchangeFails(b)
    BY <1>1, <2>4 DEF ExchangeFails, Leave, Goto, states, TokenInv, OAuthTypeOK
  <2>5. CASE CallbackFails(b)
    BY <1>1, <2>5 DEF CallbackFails, Leave, Goto, states, server, TokenInv, OAuthTypeOK
  <2> QED
    BY <2>1, <2>2, <2>3, <2>4, <2>5
<1>3. \A t \in Tasks : Keeps(t)
  BY <1>1 DEF Denied, LookUp, Consume, ExchangeFails, CallbackFails, Leave, Goto,
                Keeps, TokenInv, OAuthTypeOK
<1>4. UNCHANGED <<owner, cred, answer>>
  BY DEF Denied, LookUp, Consume, ExchangeFails, CallbackFails, server
<1> QED
  <2>1. UNCHANGED <<owner, cred>>
    BY <1>4
  <2>2. \A c \in Callers : AnswersOwn(c)
    BY <1>4 DEF AnswersOwn
  <2> QED
    BY <1>2, <1>3, <2>1, <2>2, PlainMove, Zenon

LEMMA CallMoves ==
    ASSUME TokenInv, NEW c \in Callers, Check(c) \/ Recheck(c) \/ RefreshFails(c)
    PROVE  TokenInv'
<1>1. c \in Tasks /\ UserOf[c] \in Users /\ UserOf[c] = For(c)
  BY ForUser
<1>2. OAuthTypeOK'
  <2>1. view[c] # None => view[c] \in Credential /\ view[c].access \in Tokens
    BY <1>1 DEF TokenInv, OAuthTypeOK, Credential
  <2>2. CASE Check(c)
    BY <1>1, <2>1, <2>2 DEF Check, Give, Leave, Goto, Usable, states, server, TokenInv, OAuthTypeOK
  <2>3. CASE Recheck(c)
    BY <1>1, <2>1, <2>3 DEF Recheck, Give, Leave, Goto, Usable, states, server, TokenInv, OAuthTypeOK
  <2>4. CASE RefreshFails(c)
    BY <1>1, <2>4 DEF RefreshFails, Unanswered, Give, Leave, Goto, states, TokenInv, OAuthTypeOK
  <2> QED
    BY <2>2, <2>3, <2>4
<1>3. \A t \in Tasks : Keeps(t)
  BY <1>1 DEF Check, Recheck, RefreshFails, Give, Leave, Goto, Hopeless,
                Keeps, TokenInv, OAuthTypeOK
<1>4. \A d \in Callers : AnswersOwn(d)
  <2>1. answer \in [Callers -> Tokens \cup {None}]
    BY DEF TokenInv, OAuthTypeOK
  <2>2. \/ answer' = answer
        \/ answer' = [answer EXCEPT ![c] = None]
        \/ view[c] # None /\ answer' = [answer EXCEPT ![c] = view[c].access]
    BY DEF Check, Recheck, RefreshFails, Give, Usable
  <2> QED
    BY <2>1, <2>2 DEF AnswersOwn
<1>5. UNCHANGED <<owner, cred>>
  BY DEF Check, Recheck, RefreshFails, server
<1> QED
  BY <1>2, <1>3, <1>4, <1>5, PlainMove, Zenon

LEMMA ReadTokens ==
    ASSUME TokenInv, NEW c \in Callers, Read(c) \/ Acquire(c)
    PROVE  TokenInv'
<1>1. c \in Tasks /\ UserOf[c] \in Users /\ UserOf[c] = For(c)
  BY ForUser
<1>2. OAuthTypeOK'
  BY <1>1 DEF Read, Acquire, Goto, states, server, TokenInv, OAuthTypeOK
<1>3. UNCHANGED <<owner, cred, answer>>
  BY DEF Read, Acquire, server
<1>4. ViewOwned'
  BY <1>1, <1>3 DEF Read, Acquire, Goto, TokenInv, OAuthTypeOK, ViewOwned, CredOwned
<1> QED
  BY <1>2, <1>3, <1>4 DEF TokenInv, CredOwned, AnswerOwned

\* A step at the provider: a callback's exchange or a call's refresh.
LEMMA IssueTokens ==
    ASSUME TokenInv, NEW t \in Tasks,
           \/ Goto(t, "exchange", "save") /\ Issue(t, None)
           \/ Goto(t, "refresh", "save") /\ Issue(t, view[t].refresh),
           UNCHANGED <<now, states, cred, holder, answer, crashes>>,
           spent' \in SUBSET Flows
    PROVE  TokenInv'
<1>1. PICK given : /\ Issue(t, given)
                   /\ given = None \/ (given \in 1 .. Len(owner) /\ owner[given] = For(t))
                   /\ pc' = [pc EXCEPT ![t] = "save"]
  BY DEF Goto, TokenInv, ViewOwned, OwnedIn
<1>2. PICK c \in Credential :
         /\ view' = [view EXCEPT ![t] = c]
         /\ c.access = Len(owner')
         /\ c.refresh \in {Len(owner'), given}
         /\ OwnedIn(owner', c, For(t))
         /\ honoured' = IF c.refresh = given THEN honoured
                        ELSE (honoured \ {given}) \cup {c.refresh}
  BY <1>1, Issued
<1>3. Len(owner') \in Tokens /\ owner' \in Seq(Users) /\ Len(owner') <= MaxTokens
  BY <1>1, LogGrows
<1>4. OAuthTypeOK'
  <2>1. upset' \subseteq Users /\ honoured' \subseteq Tokens
    BY <1>1, <1>2, <1>3 DEF Issue, TokenInv, OAuthTypeOK
  <2> QED
    BY <1>1, <1>2, <1>3, <2>1 DEF states, TokenInv, OAuthTypeOK
<1>5. \A d, u : OwnedIn(owner, d, u) => OwnedIn(owner', d, u)
  BY <1>1, OwnedStays
<1>6. ViewOwned'
  BY <1>1, <1>2, <1>5 DEF TokenInv, OAuthTypeOK, ViewOwned
<1>7. CredOwned'
  BY <1>5 DEF TokenInv, CredOwned
<1>8. AnswerOwned'
  <2>1. Len(owner) \in Nat
    BY DEF TokenInv, OAuthTypeOK
  <2> QED
    BY <1>1, <2>1, LogGrows DEF TokenInv, AnswerOwned
<1> QED
  BY <1>3, <1>4, <1>6, <1>7, <1>8 DEF TokenInv

\* A step that stores what its task has received, or leaves it unstored.
LEMMA StoreTokens ==
    ASSUME TokenInv, NEW t \in Tasks,
           \/ t \in Callbacks /\ SaveAuthorization(t)
           \/ t \in Callers /\ (SaveRefreshed(t) \/ CallFails(t))
    PROVE  TokenInv'
<1>1. For(t) \in Users /\ (t \in Callers => UserOf[t] = For(t)) /\ (t \in Callbacks => t \notin Callers)
  BY ForUser
<1>2. pc[t] = "save" => OwnedIn(owner, view[t], For(t)) /\ view[t] \in Credential
                        /\ view[t].access \in Tokens
  BY DEF TokenInv, ViewOwned, OwnedIn, Credential
<1>3. OAuthTypeOK'
  <2>1. CASE SaveAuthorization(t) /\ t \in Callbacks
    BY <1>1, <1>2, <2>1 DEF SaveAuthorization, Leave, Goto, states, server, TokenInv, OAuthTypeOK
  <2>2. CASE SaveRefreshed(t) /\ t \in Callers
    BY <1>1, <1>2, <2>2 DEF SaveRefreshed, Give, Leave, Goto, states, server, TokenInv, OAuthTypeOK
  <2>3. CASE CallFails(t) /\ t \in Callers
    <3>1. /\ Leave(t, pc[t])
          /\ answer' = [answer EXCEPT ![t] = None]
          /\ holder' = [holder EXCEPT ![UserOf[t]] = IF @ = t THEN None ELSE @]
          /\ UNCHANGED <<now, states, server, crashes>>
          /\ upset' \subseteq Users
          /\ \/ cred' = cred
             \/ pc[t] = "save" /\ cred' = [cred EXCEPT ![UserOf[t]] = view[t]]
      BY <1>1, <2>3 DEF CallFails, Give, Leave, Goto, TokenInv, OAuthTypeOK
    <3> QED
      BY <1>1, <1>2, <2>3, <3>1 DEF Leave, Goto, states, server, TokenInv, OAuthTypeOK
  <2> QED
    BY <2>1, <2>2, <2>3
<1>4. UNCHANGED owner
  BY DEF SaveAuthorization, SaveRefreshed, CallFails, server
<1>5. ViewOwned'
  BY <1>4 DEF SaveAuthorization, SaveRefreshed, CallFails, Give, Leave, Goto, TokenInv, OAuthTypeOK, ViewOwned
<1>6. CredOwned'
  BY <1>1, <1>2, <1>4 DEF SaveAuthorization, SaveRefreshed, CallFails, Give, Leave, Goto,
                          TokenInv, OAuthTypeOK, CredOwned
<1>7. AnswerOwned'
  <2>1. \A d \in Callers :
           \/ answer'[d] = answer[d]
           \/ answer'[d] = None
           \/ d = t /\ pc[t] = "save" /\ answer'[d] = view[t].access
    <3>1. answer \in [Callers -> Tokens \cup {None}]
      BY DEF TokenInv, OAuthTypeOK
    <3>2. \/ answer' = answer
          \/ answer' = [answer EXCEPT ![t] = None]
          \/ pc[t] = "save" /\ answer' = [answer EXCEPT ![t] = view[t].access]
      BY DEF SaveAuthorization, SaveRefreshed, CallFails, Give, Leave, Goto
    <3> QED
      BY <3>1, <3>2
  <2> QED
    BY <1>1, <1>2, <1>4, <2>1 DEF TokenInv, AnswerOwned, OwnedIn
<1> QED
  BY <1>3, <1>4, <1>5, <1>6, <1>7 DEF TokenInv

LEMMA CrashTokens == ASSUME TokenInv, Crash PROVE TokenInv'
<1>1. UNCHANGED <<owner, cred, answer>> /\ \A t \in Tasks : view'[t] = None /\ pc'[t] \in {"idle", "over"}
  BY DEF Crash
<1>2. OAuthTypeOK'
  <2>1. upset' \subseteq Users /\ honoured' \subseteq Tokens
    BY ForUser DEF Crash, TokenInv, OAuthTypeOK
  <2> QED
    BY <2>1, OAuthAssumption DEF Crash, states, TokenInv, OAuthTypeOK
<1> QED
  BY <1>1, <1>2 DEF TokenInv, ViewOwned, CredOwned, AnswerOwned

LEMMA NextTokens == ASSUME TokenInv, [Next]_vars PROVE TokenInv'
<1>1. CASE Tick \/ \E f \in Flows : Initiate(f)
  BY <1>1, TickTokens
<1>2. ASSUME NEW b \in Callbacks, CallbackStep(b) PROVE TokenInv'
  <2>0. b \in Tasks /\ StateOf[b] \in Flows
    BY ForUser
  <2>1. CASE Exchange(b)
    <3>1. spent' \in SUBSET Flows
      BY <2>0, <2>1 DEF Exchange, TokenInv, OAuthTypeOK
    <3> QED
      BY <2>0, <2>1, <3>1, IssueTokens DEF Exchange
  <2>2. CASE SaveAuthorization(b)
    BY <2>0, <2>2, StoreTokens
  <2> QED
    BY <1>2, <2>1, <2>2, CallbackMoves DEF CallbackStep
<1>3. ASSUME NEW c \in Callers, Read(c) \/ CallStep(c) PROVE TokenInv'
  <2>0. c \in Tasks
    BY ForUser
  <2>1. CASE Refresh(c)
    <3>1. spent' \in SUBSET Flows
      BY <2>1 DEF Refresh, TokenInv, OAuthTypeOK
    <3> QED
      BY <2>0, <2>1, <3>1, IssueTokens DEF Refresh
  <2>2. CASE SaveRefreshed(c) \/ CallFails(c)
    BY <2>0, <2>2, StoreTokens
  <2> QED
    BY <1>3, <2>1, <2>2, CallMoves, ReadTokens DEF CallStep
<1>4. CASE UNCHANGED vars
  BY <1>4 DEF vars, states, server, TokenInv, OAuthTypeOK, ViewOwned, CredOwned, AnswerOwned
<1> QED
  BY <1>1, <1>2, <1>3, <1>4, CrashTokens DEF Next

\* The tables, the tasks and the provider hold what they should, for any instance.
THEOREM OAuthTypeCorrect == Spec => []OAuthTypeOK
<1>1. Init => TokenInv
  BY InitTokens
<1>2. TokenInv /\ [Next]_vars => TokenInv'
  BY NextTokens
<1>3. TokenInv => OAuthTypeOK
  BY DEF TokenInv
<1> QED
  BY <1>1, <1>2, <1>3, PTL DEF Spec

\* A credential never crosses users (mcp/auth/manager.py, valid_access_token and
\* complete_authorization).
THEOREM TokensStayApart == Spec => []TokenOfUser
<1>1. Init => TokenInv
  BY InitTokens
<1>2. TokenInv /\ [Next]_vars => TokenInv'
  BY NextTokens
<1>3. TokenInv => TokenOfUser
  BY DEF TokenInv, CredOwned, AnswerOwned, OwnedIn, TokenOfUser
<1> QED
  BY <1>1, <1>2, <1>3, PTL DEF Spec

-----------------------------------------------------------------------------
(* The refresh lock                                                         *)

LockInv == TokenInv /\ LockHeldInside

LEMMA NextLock == ASSUME LockInv, [Next]_vars PROVE LockHeldInside'
<1>1. /\ pc \in [Tasks -> {"idle", "found", "exchange", "check", "lock", "recheck",
                           "refresh", "save", "over"}]
      /\ holder \in [Users -> Callers \cup {None}]
      /\ None \notin Callers
      /\ LockHeldInside
  BY OAuthAssumption DEF LockInv, TokenInv, OAuthTypeOK
<1>2. CASE Tick \/ (\E f \in Flows : Initiate(f)) \/ UNCHANGED vars
  BY <1>1, <1>2 DEF Tick, Initiate, vars, LockHeldInside
<1>3. ASSUME NEW b \in Callbacks, CallbackStep(b) PROVE LockHeldInside'
  <2>1. b \in Tasks /\ b \notin Callers
    BY ForUser
  <2>2. UNCHANGED holder /\ \A c \in Callers : pc'[c] = pc[c]
    BY <1>1, <1>3, <2>1, ForUser
       DEF CallbackStep, Denied, LookUp, Consume, Exchange, ExchangeFails, SaveAuthorization,
           CallbackFails, Leave, Goto
  <2> QED
    BY <1>1, <2>2 DEF LockHeldInside
<1>4. ASSUME NEW c \in Callers, Read(c) \/ CallStep(c) PROVE LockHeldInside'
  <2>1. /\ c \in Tasks
        /\ \A d \in Callers : UserOf[d] \in Users /\ d \in Tasks
    BY ForUser
  <2>2. CASE Read(c) \/ Refresh(c)
    BY <1>1, <2>1, <2>2 DEF Read, Refresh, Goto, LockHeldInside
  <2>3. CASE Acquire(c)
    BY <1>1, <2>1, <2>3 DEF Acquire, Goto, LockHeldInside
  <2>4. CASE Check(c)
    BY <1>1, <2>1, <2>4 DEF Check, Give, Leave, Goto, LockHeldInside
  <2>5. CASE Recheck(c)
    BY <1>1, <2>1, <2>5 DEF Recheck, Give, Leave, Goto, LockHeldInside
  <2>6. CASE RefreshFails(c) \/ SaveRefreshed(c)
    BY <1>1, <2>1, <2>6 DEF RefreshFails, SaveRefreshed, Give, Leave, Goto, LockHeldInside
  <2>7. CASE CallFails(c)
    BY <1>1, <2>1, <2>7 DEF CallFails, Give, Leave, Goto, LockHeldInside
  <2> QED
    BY <1>4, <2>2, <2>3, <2>4, <2>5, <2>6, <2>7 DEF CallStep
<1>5. CASE Crash
  BY <1>1, <1>5, ForUser DEF Crash, LockHeldInside
<1> QED
  BY <1>2, <1>3, <1>4, <1>5 DEF Next

LEMMA InitLock == Init => LockInv
<1>1. Init => LockHeldInside
  BY OAuthAssumption, ForUser DEF Init, LockHeldInside
<1> QED
  BY <1>1, InitTokens DEF LockInv

\* The refresh lock is never left behind, and its holder is alone on the way to
\* the provider (mcp/auth/manager.py, valid_access_token).
THEOREM LockNotLeft == Spec => []LockHeldInside
<1>1. Init => LockInv
  BY InitLock
<1>2. LockInv /\ [Next]_vars => LockInv'
  BY NextTokens, NextLock DEF LockInv
<1>3. LockInv => LockHeldInside
  BY DEF LockInv
<1> QED
  BY <1>1, <1>2, <1>3, PTL DEF Spec

-----------------------------------------------------------------------------
(* One refresh, and the newest token stored                                 *)

\* Two tokens of a user on their way to the table are marked.
TwoSaves ==
    \A s, t \in Tasks :
        pc[s] = "save" /\ pc[t] = "save" /\ For(s) = For(t) /\ s # t => For(t) \in upset

\* What is being stored is the newest token of its user.
SaveIsNewest ==
    \A t \in Tasks : pc[t] = "save" /\ For(t) \notin upset =>
        \A h \in view[t].access + 1 .. Len(owner) : owner[h] # For(t)

Live(c) == c.refresh # None => c.refresh \in honoured

\* Only calls take the lock, and only a refresh token is refreshed with.
RefreshGiven ==
    /\ \A b \in Callbacks : pc[b] \notin {"recheck", "refresh"}
    /\ \A c \in Callers : pc[c] = "refresh" => view[c] # None /\ view[c].refresh # None

\* What is read inside the lock, or received, is honoured.
ViewLive ==
    \A t \in Tasks :
        For(t) \notin upset
        /\ (pc[t] \in {"refresh", "save"} \/ (pc[t] = "recheck" /\ view[t] # None))
        => Live(view[t])

\* What is stored is honoured, unless its successor is being stored.
CredLive ==
    \A u \in Users :
        /\ u \notin upset /\ cred[u] # None
        /\ \A c \in Callers : pc[c] = "save" => UserOf[c] # u
        => Live(cred[u])

LiveInv ==
    /\ LockInv
    /\ TwoSaves /\ SaveIsNewest /\ StoredIsNewest
    /\ RefreshGiven /\ ViewLive /\ CredLive

\* A task that neither asks the provider, nor stores, nor enters the lock.
Calm(t) ==
    /\ pc'[t] = "save" => pc[t] = "save" /\ view'[t] = view[t]
    /\ pc[t] = "save" => pc'[t] = "save" \/ For(t) \in upset'
    /\ pc'[t] \in {"recheck", "refresh"} =>
          t \in Callers /\ pc[t] \in {"recheck", "refresh"} /\ view'[t] = view[t]
    /\ pc'[t] = "refresh" => view[t] # None /\ view[t].refresh # None

LEMMA CalmLive ==
    ASSUME LiveInv, UNCHANGED owner, UNCHANGED cred,
           upset \subseteq upset',
           \A r \in honoured : r \in honoured' \/ owner[r] \in upset',
           \A t \in Tasks : Calm(t)
    PROVE  /\ TwoSaves' /\ SaveIsNewest' /\ StoredIsNewest'
           /\ RefreshGiven' /\ ViewLive' /\ CredLive'
<1> USE DEF LiveInv
<1>1. TwoSaves'
  BY DEF TwoSaves, Calm
<1>2. SaveIsNewest'
  BY DEF SaveIsNewest, Calm
<1>3. StoredIsNewest'
  <2> SUFFICES ASSUME NEW g \in 1 .. Len(owner), owner[g] \notin upset',
                      \A h \in g + 1 .. Len(owner) : owner[h] # owner[g]
               PROVE  \/ cred[owner[g]] # None /\ cred[owner[g]].access = g
                      \/ \E t \in Tasks : pc'[t] = "save" /\ view'[t].access = g
    BY DEF StoredIsNewest
  <2>1. CASE \E t \in Tasks : pc[t] = "save" /\ view[t].access = g
    <3>1. PICK t \in Tasks : pc[t] = "save" /\ view[t].access = g
      BY <2>1
    <3>2. For(t) = owner[g]
      BY <3>1 DEF LockInv, TokenInv, ViewOwned, OwnedIn
    <3>3. pc'[t] = "save" /\ view'[t] = view[t]
      BY <3>1, <3>2 DEF Calm
    <3> QED
      BY <3>1, <3>3
  <2> QED
    BY <2>1 DEF StoredIsNewest
<1>4. RefreshGiven'
  <2>1. \A t \in Callbacks \cup Callers : t \in Tasks
    BY DEF Tasks
  <2>2. Callbacks \cap Callers = {}
    BY OAuthAssumption
  <2> QED
    BY <2>1, <2>2 DEF RefreshGiven, Calm
<1>5. ViewLive'
  <2> SUFFICES ASSUME NEW t \in Tasks, For(t) \notin upset',
                      pc'[t] \in {"refresh", "save"} \/ (pc'[t] = "recheck" /\ view'[t] # None)
               PROVE  Live(view[t])' /\ view'[t] = view[t]
    BY DEF ViewLive, Live
  <2>1. /\ view'[t] = view[t]
        /\ pc[t] \in {"refresh", "save"} \/ (pc[t] = "recheck" /\ view[t] # None)
    BY DEF Calm
  <2>2. Live(view[t]) /\ OwnedIn(owner, view[t], For(t))
    BY <2>1 DEF ViewLive, LockInv, TokenInv, ViewOwned
  <2> QED
    BY <2>1, <2>2 DEF Live, OwnedIn
<1>6. CredLive'
  <2> SUFFICES ASSUME NEW u \in Users, u \notin upset', cred[u] # None,
                      \A c \in Callers : pc'[c] = "save" => UserOf[c] # u
               PROVE  cred[u].refresh # None => cred[u].refresh \in honoured'
    BY DEF CredLive, Live
  <2>1. \A c \in Callers : pc[c] = "save" => UserOf[c] # u
    BY ForUser DEF Calm
  <2>2. Live(cred[u]) /\ OwnedIn(owner, cred[u], u)
    BY <2>1 DEF CredLive, LockInv, TokenInv, CredOwned
  <2> QED
    BY <2>2 DEF Live, OwnedIn
<1> QED
  BY <1>1, <1>2, <1>3, <1>4, <1>5, <1>6

LiveParts ==
    /\ TwoSaves /\ SaveIsNewest /\ StoredIsNewest
    /\ RefreshGiven /\ ViewLive /\ CredLive

LEMMA TypesOf ==
    ASSUME TokenInv
    PROVE  /\ pc \in [Tasks -> {"idle", "found", "exchange", "check", "lock", "recheck",
                                "refresh", "save", "over"}]
           /\ view \in [Tasks -> Credential \cup {None}]
           /\ cred \in [Users -> Credential \cup {None}]
           /\ honoured \subseteq Tokens
           /\ Len(owner) \in Nat
BY DEF TokenInv, OAuthTypeOK

LEMMA CalmCallback ==
    ASSUME LiveInv, NEW b \in Callbacks,
           Denied(b) \/ LookUp(b) \/ Consume(b) \/ ExchangeFails(b) \/ CallbackFails(b)
    PROVE  LiveParts'
<1>1. b \in Tasks /\ b \notin Callers /\ TokenInv
  BY ForUser DEF LiveInv, LockInv
<1>2. /\ UNCHANGED owner /\ UNCHANGED cred /\ UNCHANGED honoured
      /\ upset \subseteq upset'
  BY DEF Denied, LookUp, Consume, ExchangeFails, CallbackFails, server
<1>3. /\ \A t \in Tasks : t # b => pc'[t] = pc[t] /\ view'[t] = view[t]
      /\ pc'[b] \notin {"save", "recheck", "refresh"}
      /\ pc[b] = "save" => For(b) \in upset'
  BY <1>1, TypesOf DEF Denied, LookUp, Consume, ExchangeFails, CallbackFails, Leave, Goto
<1>4. \A t \in Tasks : Calm(t)
  <2> SUFFICES ASSUME NEW t \in Tasks PROVE Calm(t)
    OBVIOUS
  <2>1. pc[t] \in {"recheck", "refresh"} => t \in Callers
    BY DEF LiveInv, RefreshGiven, Tasks
  <2>2. pc[t] = "refresh" => view[t] # None /\ view[t].refresh # None
    BY <2>1 DEF LiveInv, RefreshGiven
  <2> QED
    BY <1>3, <2>1, <2>2 DEF Calm
<1> QED
  BY <1>2, <1>4, CalmLive DEF LiveParts

LEMMA CalmCall ==
    ASSUME LiveInv, NEW c \in Callers,
           Read(c) \/ Check(c) \/ Recheck(c) \/ RefreshFails(c)
    PROVE  LiveParts'
<1>1. c \in Tasks /\ UserOf[c] = For(c) /\ TokenInv
  BY ForUser DEF LiveInv, LockInv
<1>2. UNCHANGED owner /\ UNCHANGED cred /\ upset \subseteq upset'
  BY DEF Read, Check, Recheck, RefreshFails, Unanswered, server
<1>3. \A r \in honoured : r \in honoured' \/ owner[r] \in upset'
  <2>1. CASE RefreshFails(c)
    <3>1. pc[c] = "refresh" /\ view[c].refresh # None
      BY <2>1 DEF RefreshFails, Give, Leave, Goto, LiveInv, RefreshGiven
    <3>2. owner[view[c].refresh] = UserOf[c]
      BY <1>1, <3>1 DEF TokenInv, ViewOwned, OwnedIn
    <3>3. PICK lost \in SUBSET {c} :
             /\ honoured' = honoured \ {view[d].refresh : d \in lost}
             /\ upset' = upset \cup {UserOf[d] : d \in lost}
      BY <2>1 DEF RefreshFails, Unanswered
    <3> QED
      BY <3>2, <3>3
  <2> QED
    BY <2>1 DEF Read, Check, Recheck, server
<1>4. /\ \A t \in Tasks : t # c => pc'[t] = pc[t] /\ view'[t] = view[t]
      /\ pc[c] # "save" /\ pc'[c] \notin {"save", "recheck"}
      /\ pc'[c] = "refresh" => /\ pc[c] = "recheck" /\ view'[c] = view[c]
                               /\ view[c] # None /\ view[c].refresh # None
  BY <1>1, TypesOf
     DEF Read, Check, Recheck, RefreshFails, Give, Leave, Goto, Usable, Hopeless
<1>5. \A t \in Tasks : Calm(t)
  <2> SUFFICES ASSUME NEW t \in Tasks PROVE Calm(t)
    OBVIOUS
  <2>1. pc[t] \in {"recheck", "refresh"} => t \in Callers
    BY DEF LiveInv, RefreshGiven, Tasks
  <2>2. pc[t] = "refresh" => view[t] # None /\ view[t].refresh # None
    BY <2>1 DEF LiveInv, RefreshGiven
  <2> QED
    BY <1>4, <2>1, <2>2 DEF Calm
<1> QED
  BY <1>2, <1>3, <1>5, CalmLive DEF LiveParts

LEMMA CalmCrash == ASSUME LiveInv, Crash PROVE LiveParts'
<1>1. UNCHANGED owner /\ UNCHANGED cred /\ upset \subseteq upset'
  BY DEF Crash
<1>2. \A r \in honoured : r \in honoured' \/ owner[r] \in upset'
  <2>1. PICK lost \in SUBSET {c \in Callers : pc[c] = "refresh"} :
           /\ honoured' = honoured \ {view[c].refresh : c \in lost}
           /\ upset' = upset \cup {UserOf[c] : c \in lost}
                             \cup {For(t) : t \in {s \in Tasks : pc[s] = "save"}}
    BY DEF Crash
  <2>2. \A c \in lost : owner[view[c].refresh] = UserOf[c]
    BY <2>1, ForUser DEF LiveInv, RefreshGiven, LockInv, TokenInv, ViewOwned, OwnedIn
  <2> QED
    BY <2>1, <2>2
<1>3. \A t \in Tasks : Calm(t)
  BY DEF Crash, Calm
<1> QED
  BY <1>1, <1>2, <1>3, CalmLive DEF LiveParts

LEMMA CalmElse ==
    ASSUME LiveInv, Tick \/ (\E f \in Flows : Initiate(f)) \/ UNCHANGED vars
    PROVE  LiveParts'
<1>1. UNCHANGED <<owner, cred, upset, honoured, pc, view>>
  BY DEF Tick, Initiate, vars, server
<1>2. \A t \in Tasks : Calm(t)
  BY <1>1 DEF Calm, LiveInv, RefreshGiven, Tasks
<1>3. UNCHANGED owner /\ UNCHANGED cred /\ UNCHANGED honoured /\ upset \subseteq upset'
  BY <1>1
<1> QED
  BY <1>2, <1>3, CalmLive DEF LiveParts

\* The second read, inside the lock.
LEMMA AcquireLive ==
    ASSUME LiveInv, NEW c \in Callers, Acquire(c)
    PROVE  LiveParts'
<1>1. /\ c \in Tasks /\ c \notin Callbacks /\ UserOf[c] = For(c) /\ For(c) \in Users
      /\ TokenInv /\ LockHeldInside
  BY ForUser DEF LiveInv, LockInv
<1>2. /\ pc' = [pc EXCEPT ![c] = "recheck"] /\ pc[c] = "lock"
      /\ view' = [view EXCEPT ![c] = cred[UserOf[c]]]
      /\ holder[UserOf[c]] = None
      /\ UNCHANGED <<owner, cred, upset, honoured>>
  BY DEF Acquire, Goto, server
<1>3. /\ pc'[c] = "recheck" /\ view'[c] = cred[UserOf[c]]
      /\ \A t \in Tasks : t # c => pc'[t] = pc[t] /\ view'[t] = view[t]
  BY <1>1, <1>2, TypesOf
<1>4. TwoSaves' /\ SaveIsNewest' /\ RefreshGiven'
  <2>1. \A t \in Callbacks \cup Callers : t \in Tasks
    BY DEF Tasks
  <2> QED
    BY <1>1, <1>2, <1>3, <2>1 DEF LiveInv, TwoSaves, SaveIsNewest, RefreshGiven
<1>5. StoredIsNewest'
  BY <1>1, <1>2, <1>3 DEF LiveInv, StoredIsNewest
<1>6. UserOf[c] \notin upset /\ cred[UserOf[c]] # None => Live(cred[UserOf[c]])
  <2>1. \A d \in Callers : UserOf[d] = UserOf[c] => pc[d] # "save"
    BY <1>1, <1>2, OAuthAssumption DEF LockHeldInside
  <2> QED
    BY <1>1, <2>1 DEF LiveInv, CredLive
<1>7. ViewLive'
  BY <1>1, <1>2, <1>3, <1>6 DEF LiveInv, ViewLive, Live
<1>8. CredLive'
  BY <1>1, <1>2, <1>3, ForUser DEF LiveInv, CredLive, Live
<1> QED
  BY <1>4, <1>5, <1>7, <1>8 DEF LiveParts

\* A token that was received, a code or a refresh token having been given.
LEMMA IssueLive ==
    ASSUME LiveInv, NEW t \in Tasks, UNCHANGED cred,
           \/ t \in Callbacks /\ Goto(t, "exchange", "save") /\ Issue(t, None)
           \/ /\ t \in Callers /\ Goto(t, "refresh", "save")
              /\ view[t].refresh \in honoured /\ Issue(t, view[t].refresh)
    PROVE  LiveParts'
<1>1. TokenInv /\ LockHeldInside /\ For(t) \in Users
  BY ForUser DEF LiveInv, LockInv
<1>2. PICK given :
         /\ Issue(t, given)
         /\ given = None \/ (given \in 1 .. Len(owner) /\ owner[given] = For(t))
         /\ given # None => t \in Callers /\ pc[t] = "refresh" /\ given \in honoured
         /\ pc' = [pc EXCEPT ![t] = "save"] /\ pc[t] \in {"exchange", "refresh"}
  BY <1>1 DEF Goto, TokenInv, ViewOwned, OwnedIn
<1>3. PICK c \in Credential :
         /\ view' = [view EXCEPT ![t] = c]
         /\ c.access = Len(owner')
         /\ c.refresh \in {Len(owner'), given}
         /\ OwnedIn(owner', c, For(t))
         /\ honoured' = IF c.refresh = given THEN honoured
                        ELSE (honoured \ {given}) \cup {c.refresh}
         /\ given # None => given # Len(owner')
  BY <1>1, <1>2, Issued
<1>4. /\ Len(owner') = Len(owner) + 1 /\ Len(owner) \in Nat
      /\ owner'[Len(owner')] = For(t)
      /\ \A i \in 1 .. Len(owner) : owner'[i] = owner[i]
  BY <1>1, <1>2, LogGrows, TypesOf
<1>5. /\ pc'[t] = "save" /\ view'[t] = c
      /\ \A s \in Tasks : s # t => pc'[s] = pc[s] /\ view'[s] = view[s]
  BY <1>1, <1>2, <1>3, TypesOf
<1>6. /\ upset \subseteq upset'
      /\ \A s \in Tasks : pc[s] = "save" /\ For(s) = For(t) => For(t) \in upset'
  BY <1>1, <1>2 DEF Issue
<1>7. TwoSaves'
  BY <1>5, <1>6 DEF LiveInv, TwoSaves
<1>8. SaveIsNewest'
  <2> SUFFICES ASSUME NEW s \in Tasks, pc'[s] = "save", For(s) \notin upset',
                      NEW h \in view'[s].access + 1 .. Len(owner')
               PROVE  owner'[h] # For(s)
    BY DEF SaveIsNewest
  <2>1. s # t
    BY <1>3, <1>4, <1>5
  <2>2. pc[s] = "save" /\ view'[s] = view[s] /\ For(s) # For(t) /\ For(s) \notin upset
    BY <1>5, <1>6, <2>1
  <2>3. view[s].access \in 1 .. Len(owner)
    BY <1>1, <2>2 DEF TokenInv, ViewOwned, OwnedIn
  <2>4. CASE h = Len(owner')
    BY <1>4, <2>2, <2>4
  <2>5. CASE h # Len(owner')
    <3>1. h \in view[s].access + 1 .. Len(owner) /\ h \in 1 .. Len(owner)
      BY <1>4, <2>2, <2>3, <2>5
    <3> QED
      BY <1>4, <2>2, <3>1 DEF LiveInv, SaveIsNewest
  <2> QED
    BY <2>4, <2>5
<1>9. StoredIsNewest'
  <2> SUFFICES ASSUME NEW g \in 1 .. Len(owner'), owner'[g] \notin upset',
                      \A h \in g + 1 .. Len(owner') : owner'[h] # owner'[g]
               PROVE  \/ cred[owner'[g]] # None /\ cred[owner'[g]].access = g
                      \/ \E s \in Tasks : pc'[s] = "save" /\ view'[s].access = g
    BY DEF StoredIsNewest
  <2>1. CASE g = Len(owner')
    BY <1>3, <1>5, <2>1
  <2>2. CASE g # Len(owner')
    <3>1. g \in 1 .. Len(owner) /\ owner'[g] = owner[g] /\ owner[g] \notin upset
      BY <1>4, <1>6, <2>2
    <3>2. \A h \in g + 1 .. Len(owner) : owner[h] # owner[g]
      <4> SUFFICES ASSUME NEW h \in g + 1 .. Len(owner) PROVE owner[h] # owner[g]
        OBVIOUS
      <4>1. h \in g + 1 .. Len(owner') /\ h \in 1 .. Len(owner)
        BY <1>4, <3>1
      <4> QED
        BY <1>4, <3>1, <4>1
    <3>3. \/ cred[owner[g]] # None /\ cred[owner[g]].access = g
          \/ \E s \in Tasks : pc[s] = "save" /\ view[s].access = g
      BY <3>1, <3>2 DEF LiveInv, StoredIsNewest
    <3> QED
      BY <1>2, <1>5, <3>1, <3>3
  <2> QED
    BY <2>1, <2>2
<1>10. RefreshGiven'
  <2>1. \A s \in Callbacks \cup Callers : s \in Tasks
    BY DEF Tasks
  <2> QED
    BY <1>5, <2>1 DEF LiveInv, RefreshGiven
<1>11. ViewLive'
  <2> SUFFICES ASSUME NEW s \in Tasks, For(s) \notin upset',
                      pc'[s] \in {"refresh", "save"} \/ (pc'[s] = "recheck" /\ view'[s] # None),
                      view'[s].refresh # None
               PROVE  view'[s].refresh \in honoured'
    BY DEF ViewLive, Live
  <2>1. CASE s = t
    BY <1>2, <1>3, <1>5, <2>1
  <2>2. CASE s # t
    <3>1. /\ pc'[s] = pc[s] /\ view'[s] = view[s] /\ For(s) \notin upset
          /\ view[s].refresh \in honoured /\ owner[view[s].refresh] = For(s)
      BY <1>1, <1>5, <1>6, <2>2 DEF LiveInv, ViewLive, Live, TokenInv, ViewOwned, OwnedIn
    <3>2. view[s].refresh # given
      <4> SUFFICES ASSUME view[s].refresh = given PROVE FALSE
        OBVIOUS
      <4>1. For(s) = For(t) /\ t \in Callers /\ pc[t] = "refresh"
        BY <1>2, <3>1
      <4>2. pc[s] \in {"recheck", "refresh"}
        BY <1>6, <3>1, <4>1
      <4>3. s \in Callers
        BY <4>2 DEF LiveInv, RefreshGiven, Tasks
      <4>4. holder[UserOf[t]] = t /\ holder[UserOf[s]] = s /\ UserOf[s] = UserOf[t]
        BY <1>1, <4>1, <4>2, <4>3, ForUser DEF LockHeldInside
      <4> QED
        BY <2>2, <4>4
    <3> QED
      BY <1>3, <3>1, <3>2
  <2> QED
    BY <2>1, <2>2
<1>12. CredLive'
  <2> SUFFICES ASSUME NEW u \in Users, u \notin upset', cred[u] # None,
                      \A d \in Callers : pc'[d] = "save" => UserOf[d] # u,
                      cred[u].refresh # None
               PROVE  cred[u].refresh \in honoured'
    BY DEF CredLive, Live
  <2>1. \A d \in Callers : pc[d] = "save" => UserOf[d] # u
    BY <1>2, <1>5, ForUser
  <2>2. cred[u].refresh \in honoured /\ owner[cred[u].refresh] = u
    BY <1>1, <1>6, <2>1 DEF LiveInv, CredLive, Live, TokenInv, CredOwned, OwnedIn
  <2>3. cred[u].refresh # given
    BY <1>2, <1>5, <2>2, ForUser
  <2> QED
    BY <1>3, <2>2, <2>3
<1> QED
  BY <1>7, <1>8, <1>9, <1>10, <1>11, <1>12 DEF LiveParts

\* A token reaches the table.
LEMMA StoreLive ==
    ASSUME LiveInv, NEW t \in Tasks,
           Leave(t, "save"), cred' = [cred EXCEPT ![For(t)] = view[t]],
           UNCHANGED owner, UNCHANGED honoured, UNCHANGED upset
    PROVE  LiveParts'
<1>1. /\ For(t) \in Users /\ TokenInv /\ pc[t] = "save"
      /\ OwnedIn(owner, view[t], For(t))
  BY ForUser DEF LiveInv, LockInv, TokenInv, ViewOwned, Leave, Goto
<1>2. /\ pc'[t] = "over"
      /\ \A s \in Tasks : s # t => pc'[s] = pc[s] /\ view'[s] = view[s]
      /\ cred'[For(t)] = view[t]
      /\ \A u \in Users : u # For(t) => cred'[u] = cred[u]
  BY <1>1, TypesOf DEF Leave, Goto
<1>3. TwoSaves' /\ SaveIsNewest' /\ ViewLive'
  BY <1>2 DEF LiveInv, TwoSaves, SaveIsNewest, ViewLive, Live
<1>4. RefreshGiven'
  <2>1. \A s \in Callbacks \cup Callers : s \in Tasks
    BY DEF Tasks
  <2> QED
    BY <1>2, <2>1 DEF LiveInv, RefreshGiven
<1>5. StoredIsNewest'
  <2> SUFFICES ASSUME NEW g \in 1 .. Len(owner), owner[g] \notin upset,
                      \A h \in g + 1 .. Len(owner) : owner[h] # owner[g]
               PROVE  \/ cred'[owner[g]] # None /\ cred'[owner[g]].access = g
                      \/ \E s \in Tasks : pc'[s] = "save" /\ view'[s].access = g
    BY DEF StoredIsNewest
  <2>0. owner[g] \in Users /\ Len(owner) \in Nat
    BY <1>1 DEF TokenInv, OAuthTypeOK
  <2>1. \/ cred[owner[g]] # None /\ cred[owner[g]].access = g
        \/ \E s \in Tasks : pc[s] = "save" /\ view[s].access = g
    BY DEF LiveInv, StoredIsNewest
  <2>2. CASE owner[g] # For(t)
    <3>1. ASSUME NEW s \in Tasks, pc[s] = "save", view[s].access = g
          PROVE  s # t
      BY <1>1, <2>2, <3>1 DEF OwnedIn
    <3> QED
      BY <1>2, <2>0, <2>1, <2>2, <3>1
  <2>3. CASE owner[g] = For(t)
    <3>1. view[t].access \in 1 .. Len(owner) /\ owner[view[t].access] = owner[g]
      BY <1>1, <2>3 DEF OwnedIn
    <3>2. \A h \in view[t].access + 1 .. Len(owner) : owner[h] # For(t)
      BY <1>1, <2>3 DEF LiveInv, SaveIsNewest
    <3>3. view[t].access = g
      <4>1. ~(view[t].access < g)
        BY <2>0, <2>3, <3>1, <3>2
      <4>2. ~(g < view[t].access)
        BY <2>0, <3>1
      <4> QED
        BY <3>1, <4>1, <4>2
    <3>4. CASE view[t] # None
      BY <1>2, <2>3, <3>3, <3>4
    <3>5. CASE view[t] = None
      BY <1>1, <3>5, OAuthAssumption DEF OwnedIn
    <3> QED
      BY <3>4, <3>5
  <2> QED
    BY <2>2, <2>3
<1>6. CredLive'
  <2> SUFFICES ASSUME NEW u \in Users, u \notin upset, cred'[u] # None,
                      \A d \in Callers : pc'[d] = "save" => UserOf[d] # u,
                      cred'[u].refresh # None
               PROVE  cred'[u].refresh \in honoured
    BY DEF CredLive, Live
  <2>1. CASE u = For(t)
    BY <1>1, <1>2, <2>1 DEF LiveInv, ViewLive, Live
  <2>2. CASE u # For(t)
    <3>1. \A d \in Callers : pc[d] = "save" => UserOf[d] # u
      BY <1>2, <2>2, ForUser
    <3> QED
      BY <1>2, <2>2, <3>1 DEF LiveInv, CredLive, Live
  <2> QED
    BY <2>1, <2>2
<1> QED
  BY <1>3, <1>4, <1>5, <1>6 DEF LiveParts

LEMMA StoreSteps ==
    ASSUME LiveInv, NEW t \in Tasks,
           \/ t \in Callbacks /\ SaveAuthorization(t)
           \/ t \in Callers /\ SaveRefreshed(t)
    PROVE  LiveParts'
<1>1. t \in Callers => UserOf[t] = For(t)
  BY ForUser
<1>2. /\ Leave(t, "save") /\ cred' = [cred EXCEPT ![For(t)] = view[t]]
      /\ UNCHANGED owner /\ UNCHANGED honoured /\ UNCHANGED upset
  BY <1>1 DEF SaveAuthorization, SaveRefreshed, Give, server
<1> QED
  BY <1>2, StoreLive

LEMMA CallFailsLive ==
    ASSUME LiveInv, NEW c \in Callers, CallFails(c)
    PROVE  LiveParts'
<1>1. c \in Tasks /\ UserOf[c] = For(c) /\ TokenInv
  BY ForUser DEF LiveInv, LockInv
<1>2. UNCHANGED owner /\ UNCHANGED honoured /\ upset \subseteq upset'
  BY DEF CallFails, server
<1>3. CASE /\ Leave(c, "save") /\ UNCHANGED upset
           /\ cred' = [cred EXCEPT ![UserOf[c]] = view[c]]
  BY <1>1, <1>2, <1>3, StoreLive
<1>4. CASE /\ UNCHANGED cred
           /\ \E from \in {"check", "lock", "recheck", "save"} : Leave(c, from)
           /\ pc[c] = "save" => UserOf[c] \in upset'
  <2>1. /\ \A t \in Tasks : t # c => pc'[t] = pc[t] /\ view'[t] = view[t]
        /\ pc'[c] = "over"
    BY <1>1, <1>4, TypesOf DEF Leave, Goto
  <2>2. \A t \in Tasks : Calm(t)
    BY <1>1, <1>4, <2>1 DEF Calm, LiveInv, RefreshGiven, Tasks
  <2> QED
    BY <1>2, <1>4, <2>2, CalmLive DEF LiveParts
<1> QED
  BY <1>3, <1>4 DEF CallFails, Give, Leave, Goto

LEMMA NextLive == ASSUME LiveInv, [Next]_vars PROVE LiveParts'
<1>1. ASSUME NEW b \in Callbacks, CallbackStep(b) PROVE LiveParts'
  <2>0. b \in Tasks
    BY ForUser
  <2>1. CASE Exchange(b)
    BY <2>0, <2>1, IssueLive DEF Exchange
  <2>2. CASE SaveAuthorization(b)
    BY <2>0, <2>2, StoreSteps
  <2> QED
    BY <1>1, <2>1, <2>2, CalmCallback DEF CallbackStep
<1>2. ASSUME NEW c \in Callers, Read(c) \/ CallStep(c) PROVE LiveParts'
  <2>0. c \in Tasks
    BY ForUser
  <2>1. CASE Refresh(c)
    BY <2>0, <2>1, IssueLive DEF Refresh
  <2>2. CASE SaveRefreshed(c)
    BY <2>0, <2>2, StoreSteps
  <2> QED
    BY <1>2, <2>1, <2>2, CalmCall, AcquireLive, CallFailsLive DEF CallStep
<1> QED
  BY <1>1, <1>2, CalmElse, CalmCrash DEF Next

LEMMA InitLive == Init => LiveInv
<1> SUFFICES ASSUME Init PROVE LiveInv
  OBVIOUS
<1>1. Len(owner) = 0 /\ \A t \in Tasks : pc[t] = "idle"
  BY DEF Init
<1>2. TwoSaves /\ SaveIsNewest /\ RefreshGiven /\ ViewLive
  BY <1>1, ForUser DEF TwoSaves, SaveIsNewest, RefreshGiven, ViewLive
<1>3. StoredIsNewest /\ CredLive
  BY <1>1 DEF Init, StoredIsNewest, CredLive
<1> QED
  BY <1>2, <1>3, InitLock DEF LiveInv

LEMMA LiveKept == LiveInv /\ [Next]_vars => LiveInv'
<1> SUFFICES ASSUME LiveInv, [Next]_vars PROVE LiveInv'
  OBVIOUS
<1>1. LockInv'
  BY NextTokens, NextLock DEF LiveInv, LockInv
<1> QED
  BY <1>1, NextLive DEF LiveInv, LiveParts

\* A refresh is asked for with a token the provider honours: concurrent calls
\* refresh once (mcp/auth/manager.py, the read inside the lock).
THEOREM RefreshesOnce == Spec => []RefreshTokenLive
<1>1. LiveInv => RefreshTokenLive
  BY ForUser DEF LiveInv, RefreshGiven, ViewLive, Live, RefreshTokenLive
<1> QED
  BY <1>1, InitLive, LiveKept, PTL DEF Spec

\* No call and no callback puts an older token back (save_credential).
THEOREM NewestIsStored == Spec => []StoredIsNewest
<1>1. LiveInv => StoredIsNewest
  BY DEF LiveInv
<1> QED
  BY <1>1, InitLive, LiveKept, PTL DEF Spec
=============================================================================
