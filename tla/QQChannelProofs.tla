--------------------------- MODULE QQChannelProofs ---------------------------
(***************************************************************************)
(* Proofs about QQChannel, for any users, messages, kinds of messages,     *)
(* chunks and memory limit.                                                *)
(***************************************************************************)
EXTENDS QQChannel, FiniteSetTheorems, TLAPS

-----------------------------------------------------------------------------
(* Approvals                                                                *)

\* A request without a click is open, and an approved one has its owner's.
ApprovalInv ==
    /\ future \in [Msgs -> Decisions \cup {"none", "open", "expired", "over"}]
    /\ first \in [Msgs -> {"none", "consent", "other"}]
    /\ ran \in [Msgs -> {"no", "none", "consent", "other"}]
    /\ pending \subseteq Msgs
    /\ \A m \in pending : future[m] = "open"
    /\ \A m \in Msgs : future[m] = "approved" => first[m] = "consent"
    /\ OwnerApproved

LEMMA ApprovalInit == Init => ApprovalInv
BY DEF Init, ApprovalInv, OwnerApproved, Decisions

LEMMA ApprovalOver ==
    ASSUME ApprovalInv, NEW m \in Msgs, RequestOver(m), UNCHANGED ran
    PROVE  ApprovalInv'
BY DEF RequestOver, ApprovalInv, OwnerApproved

LEMMA ApprovalElse ==
    ASSUME ApprovalInv, UNCHANGED <<pending, future, first>>, UNCHANGED ran
    PROVE  ApprovalInv'
BY DEF ApprovalInv, OwnerApproved

LEMMA ApprovalClick ==
    ASSUME ApprovalInv, NEW m \in Msgs, NEW u \in Users, NEW c \in Buttons, Click(m, u, c)
    PROVE  ApprovalInv'
<1>1. future[m] = "open" /\ UNCHANGED ran /\ pending' = pending \ {m}
  BY DEF Click, ApprovalInv, turnVars
<1>2. /\ future' = [future EXCEPT ![m] = IF Valid(m, u, c) THEN c ELSE "expired"]
      /\ first' = [first EXCEPT ![m] =
            IF u = UserOf[m] /\ c = "approved" /\ m \notin lapsed THEN "consent" ELSE "other"]
  BY <1>1 DEF Click, SetFuture
<1>3. Valid(m, u, c) => u = UserOf[m] /\ m \notin lapsed /\ c \in Decisions
  BY DEF Valid
<1> QED
  BY <1>1, <1>2, <1>3 DEF ApprovalInv, OwnerApproved, Decisions

LEMMA ApprovalNext == ASSUME ApprovalInv, [Next]_vars PROVE ApprovalInv'
<1> USE DEF turnVars, brokerVars
<1>1. ASSUME NEW m \in Msgs, Receive(m) PROVE ApprovalInv'
  BY <1>1, ApprovalElse DEF Receive
<1>2. ASSUME NEW m \in Msgs, Turn(m) PROVE ApprovalInv'
  BY <1>2, ApprovalElse DEF Turn, FindRow, InsertRow, EnterTurn, Answer, AnswerFails
<1>3. ASSUME NEW m \in Msgs, Approval(m) PROVE ApprovalInv'
  <2>1. CASE RequestApproval(m)
    BY <2>1 DEF RequestApproval, ApprovalInv, OwnerApproved
  <2>2. CASE CardSent(m)
    BY <2>2, ApprovalElse DEF CardSent
  <2>3. CASE CardFails(m) \/ TimeOut(m)
    BY <2>3, ApprovalOver DEF CardFails, TimeOut
  <2>4. CASE Decided(m)
    BY <2>4 DEF Decided, RequestOver, ApprovalInv, OwnerApproved
  <2> QED
    BY <1>3, <2>1, <2>2, <2>3, <2>4 DEF Approval
<1>4. ASSUME NEW m \in Msgs, Command(m) PROVE ApprovalInv'
  BY <1>4, ApprovalElse
     DEF Command, Stop, NewDrops, NewInserts, RememberCounts, RememberInserts, ForgetOne,
         ForgetNone, ForgetAll, Forgotten, ShowConversation, ShowRows, ShowConfig, Shown
<1>5. ASSUME NEW m \in Msgs, Deliver(m) PROVE ApprovalInv'
  <2>1. CASE SendChunk(m) \/ SendFails(m) \/ SendNotice(m)
    BY <2>1, ApprovalElse DEF SendChunk, SendFails, SendNotice
  <2>2. CASE Interrupt(m)
    BY <2>2, ApprovalElse, ApprovalOver DEF Interrupt
  <2> QED
    BY <1>5, <2>1, <2>2 DEF Deliver
<1>6. ASSUME NEW m \in Msgs, Lapse(m) PROVE ApprovalInv'
  BY <1>6, ApprovalElse DEF Lapse
<1>7. CASE DrainApprovals
  BY <1>7 DEF DrainApprovals, ApprovalInv, OwnerApproved
<1>8. CASE CancelTasks \/ UNCHANGED vars
  BY <1>8, ApprovalElse DEF CancelTasks, vars
<1> QED
  BY <1>1, <1>2, <1>3, <1>4, <1>5, <1>6, <1>7, <1>8, ApprovalClick DEF Next, Step

\* An ask-tool of a QQ turn runs only on its own user's timely approval
\* (qq/approval.py, _resolve).
THEOREM QQOwnerApproved == Spec => []OwnerApproved
<1>1. ApprovalInv => OwnerApproved
  BY DEF ApprovalInv
<1> QED
  BY <1>1, ApprovalInit, ApprovalNext, PTL DEF Spec

-----------------------------------------------------------------------------
(* Answers                                                                  *)

Phases == AtRest \cup InLock \cup
          {"find", "insert", "reply", "error", "stopping", "command", "dropped", "counted"}

AnswerTypes ==
    /\ phase \in [Msgs -> Phases]
    /\ size \in [Msgs -> Nat]
    /\ received \in [Msgs -> SUBSET (Nat \X Texts)]

\* The first n chunks of an answer.
Beginning(n) == {<<i, "answer">> : i \in 1 .. n}

Beginnings(m) ==
    \/ \E n \in 0 .. size[m] : received[m] = Beginning(n)
    \/ received[m] = {<<1, "notice">>}

AnswerOK(m) ==
    /\ phase[m] \notin {"reply", "stopping", "done"} => received[m] = {} /\ size[m] = 0
    /\ phase[m] = "reply" => \E n \in Nat : n < size[m] /\ received[m] = Beginning(n)
    /\ phase[m] = "stopping" => m \in lost
    /\ Beginnings(m)
    /\ phase[m] = "done" /\ size[m] > 0 /\ m \notin lost => Whole(m)

AnswerInv == AnswerTypes /\ \A m \in Msgs : AnswerOK(m)

LEMMA BeginningCounts ==
    ASSUME NEW n \in Nat
    PROVE  Cardinality(Beginning(n)) = n
<1> DEFINE f == [i \in 1 .. n |-> <<i, "answer">>]
<1>1. f \in Bijection(1 .. n, Beginning(n))
  <2>1. f \in [1 .. n -> Beginning(n)]
    BY DEF Beginning
  <2>2. \A i, j \in 1 .. n : f[i] = f[j] => i = j
    OBVIOUS
  <2>3. \A b \in Beginning(n) : \E i \in 1 .. n : f[i] = b
    BY DEF Beginning
  <2> QED
    BY <2>1, <2>2, <2>3 DEF Bijection, Injection, Surjection, IsInjective
<1>2. ExistsBijection(1 .. n, Beginning(n))
  BY <1>1 DEF ExistsBijection
<1>3. IsFiniteSet(1 .. n) /\ Cardinality(1 .. n) = n
  BY FS_Interval
<1> QED
  BY <1>2, <1>3, FS_Bijection

LEMMA BeginningGrows ==
    /\ Beginning(0) = {}
    /\ \A n \in Nat : Beginning(n) \cup {<<n + 1, "answer">>} = Beginning(n + 1)
    /\ \A n \in Nat : Beginning(n) # {} => n > 0
BY DEF Beginning

\* The next chunk of a reply carries a number the platform has not seen.
LEMMA NextChunk ==
    ASSUME NEW m \in Msgs, NEW n \in Nat, received[m] = Beginning(n)
    PROVE  ChunkSeq(m) = n + 1 /\ Seqs(m) = 1 .. n /\ ChunkSeq(m) \notin Seqs(m)
<1>1. ChunkSeq(m) = n + 1
  BY BeginningCounts DEF ChunkSeq
<1>2. Seqs(m) = 1 .. n
  <2>1. \A i \in 1 .. n : <<i, "answer">> \in received[m] /\ <<i, "answer">>[1] = i
    BY DEF Beginning
  <2>2. \A r \in received[m] : r[1] \in 1 .. n
    BY DEF Beginning
  <2> QED
    BY <2>1, <2>2 DEF Seqs
<1> QED
  BY <1>1, <1>2

LEMMA AnswerOne ==
    ASSUME AnswerInv, AnswerTypes', NEW m \in Msgs,
           \A o \in Msgs : o # m =>
               phase'[o] = phase[o] /\ size'[o] = size[o] /\ received'[o] = received[o],
           lost \subseteq lost',
           AnswerOK(m)'
    PROVE  AnswerInv'
<1> SUFFICES ASSUME NEW o \in Msgs, o # m PROVE AnswerOK(o)'
  BY DEF AnswerInv
<1> QED
  BY DEF AnswerInv, AnswerOK, Beginnings, Whole, Beginning

LEMMA AnswerElse ==
    ASSUME AnswerInv, UNCHANGED <<phase, size, received, lost>>
    PROVE  AnswerInv'
BY DEF AnswerInv, AnswerTypes, AnswerOK, Beginnings, Whole, Beginning

\* A step before the answer begins.
LEMMA AnswerBefore ==
    ASSUME AnswerInv, NEW m \in Msgs, NEW p \in Phases \ {"reply", "stopping"},
           phase[m] \notin {"reply", "stopping", "done"},
           Goto(m, p), UNCHANGED <<size, received, lost>>
    PROVE  AnswerInv'
<1>1. phase' = [phase EXCEPT ![m] = p] /\ size[m] = 0 /\ received[m] = {}
  BY DEF Goto, AnswerInv, AnswerOK
<1>2. AnswerTypes'
  BY <1>1 DEF AnswerInv, AnswerTypes
<1>3. AnswerOK(m)'
  <2>1. Beginnings(m)'
    BY <1>1, BeginningGrows DEF Beginnings
  <2> QED
    BY <1>1, <2>1 DEF AnswerOK, AnswerInv, AnswerTypes
<1> QED
  BY <1>1, <1>2, <1>3, AnswerOne DEF AnswerInv, AnswerTypes

\* The size of the answer is known, and none of it sent.
LEMMA AnswerBegins ==
    ASSUME AnswerInv, NEW m \in Msgs, NEW n \in Nat, n > 0,
           phase[m] \notin {"reply", "stopping", "done"},
           size' = [size EXCEPT ![m] = n], Goto(m, "reply"), UNCHANGED <<received, lost>>
    PROVE  AnswerInv'
<1>1. phase' = [phase EXCEPT ![m] = "reply"] /\ received[m] = {} /\ "reply" \in Phases
  BY DEF Goto, AnswerInv, AnswerOK, Phases
<1>2. AnswerTypes'
  BY <1>1 DEF AnswerInv, AnswerTypes
<1>3. AnswerOK(m)'
  <2>1. phase'[m] = "reply" /\ size'[m] = n /\ received'[m] = Beginning(0)
    BY <1>1, BeginningGrows DEF AnswerInv, AnswerTypes
  <2>2. Beginnings(m)'
    BY <2>1 DEF Beginnings
  <2> QED
    BY <2>1, <2>2 DEF AnswerOK
<1> QED
  BY <1>1, <1>2, <1>3, AnswerOne DEF AnswerInv, AnswerTypes

\* The platform takes the notice only if it has taken nothing for the message.
LEMMA NoticeTaken ==
    ASSUME AnswerInv, NEW m \in Msgs, NoticeArrives(m)
    PROVE  received' = [received EXCEPT ![m] = {<<1, "notice">>}]
<1>1. received' = [received EXCEPT ![m] = @ \cup {<<1, "notice">>}] /\ 1 \notin Seqs(m)
  BY DEF NoticeArrives, Accepted
<1>2. CASE received[m] = {<<1, "notice">>}
  BY <1>1, <1>2 DEF Seqs
<1>3. ASSUME NEW n \in 0 .. size[m], received[m] = Beginning(n)
      PROVE  received[m] = {}
  <2>1. n \in Nat /\ Seqs(m) = 1 .. n
    BY <1>3, NextChunk DEF AnswerInv, AnswerTypes
  <2>2. n = 0
    BY <1>1, <2>1
  <2> QED
    BY <1>3, <2>2, BeginningGrows
<1> QED
  BY <1>1, <1>2, <1>3 DEF AnswerInv, AnswerOK, Beginnings, AnswerTypes

\* A chunk that arrives continues the answer.
LEMMA ChunkTaken ==
    ASSUME AnswerInv, NEW m \in Msgs, phase[m] = "reply",
           Accepted(m, ChunkSeq(m), "answer")
    PROVE  \E n \in 1 .. size[m] : received' = [received EXCEPT ![m] = Beginning(n)]
<1>1. PICK n \in Nat : n < size[m] /\ received[m] = Beginning(n)
  BY DEF AnswerInv, AnswerOK
<1>2. ChunkSeq(m) = n + 1
  BY <1>1, NextChunk
<1>3. received' = [received EXCEPT ![m] = Beginning(n + 1)]
  BY <1>1, <1>2, BeginningGrows DEF Accepted
<1>4. n + 1 \in 1 .. size[m]
  BY <1>1 DEF AnswerInv, AnswerTypes
<1> QED
  BY <1>3, <1>4

\* What the user may hold of the answer after a step of its task.
Arrived(m) ==
    \/ UNCHANGED received
    \/ received' = [received EXCEPT ![m] = {<<1, "notice">>}]
    \/ \E n \in 1 .. size[m] : received' = [received EXCEPT ![m] = Beginning(n)]

LEMMA AnswerEnds ==
    ASSUME AnswerInv, NEW m \in Msgs, NEW p \in {"stopping", "done"},
           Goto(m, p), UNCHANGED size, Arrived(m), lost \subseteq lost',
           m \in lost' \/ (p = "done" /\ (size[m] = 0 \/ Whole(m)'))
    PROVE  AnswerInv'
<1>1. /\ phase' = [phase EXCEPT ![m] = p] /\ p \in Phases
      /\ size' = size /\ size[m] \in Nat
  BY DEF Goto, Phases, AtRest, AnswerInv, AnswerTypes
<1>2. /\ received' \in [Msgs -> SUBSET (Nat \X Texts)]
      /\ \A o \in Msgs : o # m => received'[o] = received[o]
      /\ Beginnings(m)'
  <2>1. CASE UNCHANGED received
    BY <2>1, <1>1 DEF AnswerInv, AnswerTypes, AnswerOK, Beginnings, Beginning
  <2>2. CASE received' = [received EXCEPT ![m] = {<<1, "notice">>}]
    BY <2>2 DEF AnswerInv, AnswerTypes, Texts, Beginnings
  <2>3. ASSUME NEW n \in 1 .. size[m], received' = [received EXCEPT ![m] = Beginning(n)]
        PROVE  <1>2!1 /\ <1>2!2 /\ <1>2!3
    <3>1. Beginning(n) \subseteq Nat \X Texts
      BY <1>1 DEF Beginning, Texts
    <3>2. received' \in [Msgs -> SUBSET (Nat \X Texts)] /\ received'[m] = Beginning(n)
      BY <3>1, <2>3 DEF AnswerInv, AnswerTypes
    <3>3. n \in 0 .. size'[m]
      BY <1>1
    <3>4. Beginnings(m)'
      BY <3>2, <3>3 DEF Beginnings, Beginning
    <3> QED
      BY <3>2, <3>4, <2>3 DEF AnswerInv, AnswerTypes
  <2> QED
    BY <2>1, <2>2, <2>3 DEF Arrived
<1>3. AnswerTypes'
  BY <1>1, <1>2 DEF AnswerInv, AnswerTypes
<1>4. AnswerOK(m)'
  BY <1>1, <1>2 DEF AnswerOK, AnswerInv, AnswerTypes
<1> QED
  BY <1>1, <1>2, <1>3, <1>4, AnswerOne DEF AnswerInv, AnswerTypes

LEMMA AnswerInit == Init => AnswerInv
<1> SUFFICES ASSUME Init PROVE AnswerInv
  OBVIOUS
<1>1. AnswerTypes
  BY DEF Init, AnswerTypes, Phases, AtRest
<1>2. ASSUME NEW m \in Msgs PROVE AnswerOK(m)
  BY BeginningGrows DEF Init, AnswerOK, Beginnings
<1> QED
  BY <1>1, <1>2 DEF AnswerInv

LEMMA AnswerDelivers ==
    ASSUME AnswerInv, NEW m \in Msgs, Deliver(m)
    PROVE  AnswerInv'
<1>1. ASSUME SendChunk(m) PROVE AnswerInv'
  <2>1. PICK n \in Nat : n < size[m] /\ received[m] = Beginning(n)
    BY <1>1 DEF SendChunk, Is, AnswerInv, AnswerOK
  <2>2. /\ ChunkSeq(m) = n + 1 /\ size[m] \in Nat
        /\ received' = [received EXCEPT ![m] = Beginning(n + 1)]
    BY <2>1, <1>1, NextChunk, BeginningGrows DEF SendChunk, Accepted, AnswerInv, AnswerTypes
  <2>3. received'[m] = Beginning(n + 1) /\ Cardinality(received'[m]) = n + 1
    BY <2>2, BeginningCounts DEF AnswerInv, AnswerTypes
  <2>4. n + 1 \in 1 .. size[m]
    BY <2>1, <2>2
  <2>5. CASE n + 1 = size[m]
    <3>1. Whole(m)'
      BY <2>3, <2>5, <1>1 DEF Whole, Beginning, SendChunk
    <3>2. Goto(m, "done") /\ UNCHANGED <<size, lost>>
      BY <2>3, <2>5, <1>1 DEF SendChunk, Closed
    <3>3. Arrived(m)
      BY <2>2, <2>4 DEF Arrived
    <3> QED
      BY <3>1, <3>2, <3>3, AnswerEnds
  <2>6. CASE n + 1 # size[m]
    <3>1. UNCHANGED <<phase, size, lost>>
      BY <2>3, <2>6, <1>1 DEF SendChunk
    <3>2. Beginning(n + 1) \subseteq Nat \X Texts
      BY DEF Beginning, Texts
    <3>3. AnswerTypes'
      BY <3>1, <3>2, <2>2 DEF AnswerInv, AnswerTypes
    <3>4. AnswerOK(m)'
      <4>1. n + 1 \in 0 .. size'[m] /\ n + 1 \in Nat /\ n + 1 < size'[m]
        BY <2>1, <2>2, <2>6, <3>1
      <4>2. phase'[m] = "reply"
        BY <3>1, <1>1 DEF SendChunk, Is
      <4> QED
        BY <4>1, <4>2, <2>3 DEF AnswerOK, Beginnings, Beginning
    <3> QED
      BY <3>1, <3>3, <3>4, <2>2, AnswerOne DEF AnswerInv, AnswerTypes
  <2> QED
    BY <2>5, <2>6
<1>2. ASSUME SendFails(m) PROVE AnswerInv'
  <2>1. phase[m] = "reply" /\ Goto(m, "done") /\ UNCHANGED size
    BY <1>2 DEF SendFails, Is, Closed
  <2>2. ChunkSeq(m) \notin Seqs(m)
    BY <2>1, NextChunk DEF AnswerInv, AnswerOK
  <2>3. Arrived(m) /\ lost' = lost \cup {m}
    BY <1>2, <2>1, <2>2, ChunkTaken DEF SendFails, Arrived
  <2> QED
    BY <2>1, <2>3, AnswerEnds
<1>3. ASSUME SendNotice(m) PROVE AnswerInv'
  <2>1. Goto(m, "done") /\ UNCHANGED size /\ lost \subseteq lost'
    BY <1>3 DEF SendNotice, Closed
  <2>2. Arrived(m)
    BY <1>3, NoticeTaken DEF SendNotice, Arrived
  <2>3. phase[m] = "stopping" => m \in lost'
    BY <2>1 DEF AnswerInv, AnswerOK
  <2>4. phase[m] = "error" => size[m] = 0
    BY DEF AnswerInv, AnswerOK
  <2> QED
    BY <1>3, <2>1, <2>2, <2>3, <2>4, AnswerEnds DEF SendNotice, Is
<1>4. ASSUME Interrupt(m) PROVE AnswerInv'
  <2>1. Arrived(m)
    BY <1>4, NoticeTaken, ChunkTaken DEF Interrupt, CutOff, Arrived
  <2>2. UNCHANGED size /\ lost' = lost \cup {m}
    BY <1>4 DEF Interrupt
  <2>3. Goto(m, "stopping") \/ Goto(m, "done")
    BY <1>4 DEF Interrupt, Closed
  <2> QED
    BY <2>1, <2>2, <2>3, AnswerEnds
<1> QED
  BY <1>1, <1>2, <1>3, <1>4 DEF Deliver

\* A command answers with at least one chunk.
LEMMA AnswerReplies ==
    ASSUME AnswerInv, NEW m \in Msgs, phase[m] \notin {"reply", "stopping", "done"},
           NEW N \in SUBSET (Nat \ {0}), CommandReply(m, N), UNCHANGED <<received, lost>>
    PROVE  AnswerInv'
<1>1. PICK n \in N : size' = [size EXCEPT ![m] = n] /\ Goto(m, "reply")
  BY DEF CommandReply
<1>2. n \in Nat /\ n > 0
  OBVIOUS
<1> QED
  BY <1>1, <1>2, AnswerBegins

LEMMA AnswerCommands ==
    ASSUME AnswerInv, NEW m \in Msgs, Command(m)
    PROVE  AnswerInv'
<1>1. phase[m] \in {"command", "dropped", "counted"} /\ UNCHANGED <<received, lost>>
  BY DEF Command, Stop, NewDrops, NewInserts, RememberCounts, RememberInserts, ForgetOne,
         ForgetNone, ForgetAll, Forgotten, ShowConversation, ShowRows, ShowConfig, Shown, Is
<1>2. /\ {1} \in SUBSET (Nat \ {0}) /\ Displays \in SUBSET (Nat \ {0})
      /\ {"dropped", "counted", "done"} \subseteq Phases \ {"reply", "stopping"}
  BY QQAssumption DEF Displays, Phases, AtRest
<1>3. \/ \E N \in SUBSET (Nat \ {0}) : CommandReply(m, N)
      \/ \E p \in {"dropped", "counted", "done"} : Goto(m, p) /\ UNCHANGED size
  BY <1>2 DEF Command, Stop, NewDrops, NewInserts, RememberCounts, RememberInserts, ForgetOne,
         ForgetNone, ForgetAll, Forgotten, ShowConversation, ShowRows, ShowConfig, Shown
<1> QED
  BY <1>1, <1>2, <1>3, AnswerReplies, AnswerBefore

LEMMA AnswerTurns ==
    ASSUME AnswerInv, NEW m \in Msgs, Turn(m) \/ Approval(m) \/ Receive(m)
    PROVE  AnswerInv'
<1>1. /\ phase[m] \notin {"reply", "stopping", "done"}
      /\ UNCHANGED <<received, lost>>
  BY DEF Turn, FindRow, InsertRow, EnterTurn, Answer, AnswerFails, Is, Receive, answerVars,
         Approval, RequestApproval, CardSent, CardFails, Decided, TimeOut
<1> DEFINE Begins == \E n \in Nat : n > 0 /\ size' = [size EXCEPT ![m] = n] /\ Goto(m, "reply")
           Moves  == \E p \in Phases \ {"reply", "stopping"} : Goto(m, p) /\ UNCHANGED size
<1>2. Begins \/ Moves
  <2>1. ASSUME Answer(m) PROVE Begins \/ Moves
    <3>1. PICK n \in 0 .. MaxChunks :
              size' = [size EXCEPT ![m] = n] /\ Goto(m, IF n = 0 THEN "done" ELSE "reply")
      BY <2>1 DEF Answer
    <3>2. n \in Nat /\ "done" \in Phases \ {"reply", "stopping"}
      BY QQAssumption DEF Phases, AtRest
    <3>3. ASSUME n = 0 PROVE Moves
      <4>1. size[m] = 0 /\ size \in [Msgs -> Nat]
        BY <1>1 DEF AnswerInv, AnswerOK, AnswerTypes
      <4>2. size' = size
        BY <4>1, <3>1, <3>3
      <4> QED
        BY <3>1, <3>2, <3>3, <4>2
    <3>4. ASSUME n # 0 PROVE Begins
      <4>1. n \in Nat /\ n > 0
        BY <3>2, <3>4
      <4>2. size' = [size EXCEPT ![m] = n] /\ Goto(m, "reply")
        BY <3>1, <3>4
      <4> QED
        BY <4>1, <4>2
    <3> QED
      BY <3>3, <3>4
  <2>2. {"find", "command", "lock", "insert", "done", "think", "error", "card", "wait"}
           \subseteq Phases \ {"reply", "stopping"}
    BY DEF Phases, AtRest, InLock
  <2>3. ASSUME ~Answer(m)
        PROVE  \E p \in {"find", "command", "lock", "insert", "done", "think", "error", "card", "wait"} :
                   Goto(m, p) /\ UNCHANGED size
    BY <2>3 DEF Turn, FindRow, Register, InsertRow, EnterTurn, AnswerFails, Receive, answerVars,
                Approval, RequestApproval, CardSent, CardFails, Decided, TimeOut
  <2> QED
    BY <2>1, <2>2, <2>3
<1> QED
  BY <1>1, <1>2, AnswerBegins, AnswerBefore

LEMMA AnswerNext == ASSUME AnswerInv, [Next]_vars PROVE AnswerInv'
<1>1. ASSUME NEW m \in Msgs, Lapse(m) PROVE AnswerInv'
  BY <1>1, AnswerElse DEF Lapse, answerVars
<1>2. ASSUME NEW m \in Msgs, NEW u \in Users, NEW c \in Buttons, Click(m, u, c) PROVE AnswerInv'
  BY <1>2, AnswerElse DEF Click, answerVars
<1>3. CASE DrainApprovals \/ CancelTasks \/ UNCHANGED vars
  BY <1>3, AnswerElse DEF DrainApprovals, CancelTasks, vars, answerVars
<1> QED
  BY <1>1, <1>2, <1>3, AnswerTurns, AnswerCommands, AnswerDelivers DEF Next, Step

\* What the user holds of an answer is its beginning or one notice, and all of
\* it when no send failed (qq/bot.py, _send_long and _safe_reply).
THEOREM AnswersWhole == Spec => []AnswerWhole
<1>1. AnswerInv => AnswerWhole
  BY DEF AnswerInv, AnswerOK, AnswerWhole, Beginnings, Beginning
<1> QED
  BY <1>1, AnswerInit, AnswerNext, PTL DEF Spec

-----------------------------------------------------------------------------
(* Memories                                                                 *)

LimitInv ==
    /\ memories \in [Users -> Nat] /\ peak \in [Users -> Nat]
    /\ LimitOvershoot

LEMMA RememberingFinite ==
    ASSUME NEW u \in Users
    PROVE  IsFiniteSet(Remembering(u)) /\ Cardinality(Remembering(u)) \in Nat
<1>1. Remembering(u) \subseteq Msgs
  BY DEF Remembering
<1> QED
  BY <1>1, QQAssumption, FS_Subset, FS_CardinalityType

LEMMA PeakOfNat ==
    ASSUME NEW a \in Nat, NEW b \in Nat
    PROVE  PeakOf(a, b) \in Nat /\ PeakOf(a, b) >= a /\ PeakOf(a, b) >= b
BY DEF PeakOf

\* A step that lets no /remember in, and inserts nothing.
LEMMA LimitElse ==
    ASSUME LimitInv, UNCHANGED peak, memories' \in [Users -> Nat],
           \A u \in Users : memories'[u] <= memories[u],
           \A o \in Msgs : phase'[o] = "counted" => phase[o] = "counted"
    PROVE  LimitInv'
<1> SUFFICES ASSUME NEW u \in Users
             PROVE  memories'[u] + Cardinality(Remembering(u)') + 1
                        <= MemoryLimit + PeakOf(peak[u], 1)
  BY DEF LimitInv, LimitOvershoot
<1>1. Remembering(u)' \subseteq Remembering(u)
  BY DEF Remembering
<1>2. Cardinality(Remembering(u)') <= Cardinality(Remembering(u)) /\ Cardinality(Remembering(u)') \in Nat
  BY <1>1, RememberingFinite, FS_Subset, FS_CardinalityType
<1>3. PeakOf(peak[u], 1) \in Nat
  BY PeakOfNat DEF LimitInv
<1> QED
  BY <1>2, <1>3, RememberingFinite, QQAssumption DEF LimitInv, LimitOvershoot

\* A step of a task that leads anywhere but between the count and the insert.
LEMMA LimitGoes ==
    ASSUME LimitInv, AnswerInv, UNCHANGED memoryVars, NEW m \in Msgs,
           UNCHANGED phase \/ \E p \in Phases \ {"counted"} : Goto(m, p)
    PROVE  LimitInv'
<1>1. \A o \in Msgs : phase'[o] = "counted" => phase[o] = "counted"
  BY DEF Goto, AnswerInv, AnswerTypes
<1>2. memories' = memories /\ peak' = peak
  BY DEF memoryVars
<1> QED
  BY <1>1, <1>2, LimitElse DEF LimitInv

LEMMA LimitCounts ==
    ASSUME LimitInv, AnswerInv, NEW m \in Msgs, RememberCounts(m)
    PROVE  LimitInv'
<1>1. CASE ~BelowLimit(UserOf[m])
  <2>1. \E p \in Phases \ {"counted"} : Goto(m, p)
    BY <1>1 DEF RememberCounts, CommandReply, Phases
  <2> QED
    BY <1>1, <2>1, LimitGoes DEF RememberCounts, memoryVars
<1>2. CASE BelowLimit(UserOf[m])
  <2> DEFINE v == UserOf[m]
             k == Cardinality(Remembering(v))
  <2>1. /\ v \in Users /\ k \in Nat /\ IsFiniteSet(Remembering(v))
        /\ memories[v] < MemoryLimit /\ MemoryLimit \in Nat
        /\ phase[m] = "command" /\ phase' = [phase EXCEPT ![m] = "counted"]
        /\ peak' = [peak EXCEPT ![v] = PeakOf(@, k + 1)] /\ memories' = memories
    BY <1>2, RememberingFinite, QQAssumption DEF RememberCounts, BelowLimit, Goto, Is
  <2>2. phase \in [Msgs -> Phases]
    BY DEF AnswerInv, AnswerTypes
  <2>3. Remembering(v)' = Remembering(v) \cup {m} /\ m \notin Remembering(v)
    BY <2>1, <2>2 DEF Remembering
  <2>4. Cardinality(Remembering(v)') = k + 1
    BY <2>1, <2>3, FS_AddElement
  <2>5. PeakOf(peak[v], k + 1) \in Nat /\ PeakOf(peak[v], k + 1) >= k + 1
    <3>1. peak[v] \in Nat /\ k + 1 \in Nat
      BY <2>1 DEF LimitInv
    <3> QED
      BY <3>1, PeakOfNat
  <2>6. memories' \in [Users -> Nat] /\ peak' \in [Users -> Nat]
    BY <2>1, <2>5 DEF LimitInv
  <2>7. memories'[v] + Cardinality(Remembering(v)') + 1 <= MemoryLimit + PeakOf(peak'[v], 1)
    <3>1. peak'[v] = PeakOf(peak[v], k + 1)
      BY <2>1 DEF LimitInv
    <3>2. PeakOf(peak'[v], 1) \in Nat /\ PeakOf(peak'[v], 1) >= k + 1
      <4>1. peak'[v] \in Nat /\ peak'[v] >= k + 1
        BY <2>5, <3>1
      <4>2. PeakOf(peak'[v], 1) \in Nat /\ PeakOf(peak'[v], 1) >= peak'[v]
        BY <4>1, PeakOfNat
      <4> QED
        BY <4>1, <4>2, <2>1
    <3>3. memories'[v] \in Nat /\ memories'[v] + 1 <= MemoryLimit
      BY <2>1, <2>6
    <3> QED
      BY <3>2, <3>3, <2>1, <2>4
  <2>8. ASSUME NEW u \in Users, u # v
        PROVE  memories'[u] + Cardinality(Remembering(u)') + 1 <= MemoryLimit + PeakOf(peak'[u], 1)
    <3>1. Remembering(u)' = Remembering(u)
      BY <2>8, <2>1, <2>2 DEF Remembering
    <3>2. peak'[u] = peak[u]
      BY <2>8, <2>1 DEF LimitInv
    <3> QED
      BY <3>1, <3>2, <2>1 DEF LimitInv, LimitOvershoot
  <2> QED
    BY <2>6, <2>7, <2>8 DEF LimitInv, LimitOvershoot
<1> QED
  BY <1>1, <1>2

LEMMA LimitInserts ==
    ASSUME LimitInv, AnswerInv, NEW m \in Msgs, RememberInserts(m)
    PROVE  LimitInv'
<1> DEFINE v == UserOf[m]
           k == Cardinality(Remembering(v))
<1>1. /\ v \in Users /\ k \in Nat /\ IsFiniteSet(Remembering(v))
      /\ phase[m] = "counted" /\ phase' = [phase EXCEPT ![m] = "reply"] /\ peak' = peak
      /\ memories' \in {memories, [memories EXCEPT ![v] = @ + 1]}
  BY RememberingFinite, QQAssumption DEF RememberInserts, CommandReply, Goto, Is
<1>2. phase \in [Msgs -> Phases]
  BY DEF AnswerInv, AnswerTypes
<1>3. Remembering(v)' = Remembering(v) \ {m} /\ m \in Remembering(v)
  BY <1>1, <1>2 DEF Remembering
<1>4. Cardinality(Remembering(v)') = k - 1
  BY <1>1, <1>3, FS_RemoveElement
<1>5. memories' \in [Users -> Nat] /\ memories'[v] <= memories[v] + 1
  BY <1>1 DEF LimitInv
<1>6. memories'[v] + Cardinality(Remembering(v)') + 1 <= MemoryLimit + PeakOf(peak'[v], 1)
  <2>1. PeakOf(peak[v], 1) \in Nat /\ memories[v] \in Nat /\ memories'[v] \in Nat
    BY <1>1, <1>5, PeakOfNat DEF LimitInv
  <2>2. memories[v] + k + 1 <= MemoryLimit + PeakOf(peak[v], 1)
    BY <1>1 DEF LimitInv, LimitOvershoot
  <2> QED
    BY <2>1, <2>2, <1>1, <1>4, <1>5, QQAssumption
<1>7. ASSUME NEW u \in Users, u # v
      PROVE  memories'[u] + Cardinality(Remembering(u)') + 1 <= MemoryLimit + PeakOf(peak'[u], 1)
  <2>1. Remembering(u)' = Remembering(u)
    BY <1>7, <1>1, <1>2 DEF Remembering
  <2>2. memories'[u] = memories[u] /\ peak'[u] = peak[u]
    BY <1>7, <1>1 DEF LimitInv
  <2> QED
    BY <2>1, <2>2 DEF LimitInv, LimitOvershoot
<1> QED
  BY <1>1, <1>5, <1>6, <1>7 DEF LimitInv, LimitOvershoot

LEMMA LimitForgets ==
    ASSUME LimitInv, AnswerInv, NEW m \in Msgs, ForgetOne(m) \/ ForgetNone(m) \/ ForgetAll(m)
    PROVE  LimitInv'
<1>1. UserOf[m] \in Users
  BY QQAssumption
<1>2. PICK n \in Nat : n <= memories[UserOf[m]] /\ Forgotten(m, n)
  BY <1>1 DEF ForgetOne, ForgetNone, ForgetAll, LimitInv
<1>3. memories' = [memories EXCEPT ![UserOf[m]] = n] /\ UNCHANGED peak
      /\ phase' = [phase EXCEPT ![m] = "reply"]
  BY <1>2 DEF Forgotten, CommandReply, Goto
<1>4. memories' \in [Users -> Nat] /\ \A u \in Users : memories'[u] <= memories[u]
  BY <1>1, <1>2, <1>3 DEF LimitInv
<1>5. \A o \in Msgs : phase'[o] = "counted" => phase[o] = "counted"
  BY <1>3 DEF AnswerInv, AnswerTypes
<1> QED
  BY <1>3, <1>4, <1>5, LimitElse

LEMMA LimitNext == ASSUME LimitInv, AnswerInv, [Next]_vars PROVE LimitInv'
<1> USE DEF answerVars, memoryVars
<1>0. {"find", "command", "lock", "insert", "done", "think", "error", "card", "wait", "reply",
       "stopping", "dropped"} \subseteq Phases \ {"counted"}
  BY DEF Phases, AtRest, InLock
<1>1. ASSUME NEW m \in Msgs, Receive(m) \/ Turn(m) \/ Approval(m) PROVE LimitInv'
  <2>1. \E p \in {"find", "command", "lock", "insert", "done", "think", "error", "card", "wait", "reply"} :
            Goto(m, p)
    BY <1>1 DEF Turn, FindRow, Register, InsertRow, EnterTurn, Answer, AnswerFails, Receive,
                Approval, RequestApproval, CardSent, CardFails, Decided, TimeOut
  <2>2. UNCHANGED memoryVars
    BY <1>1 DEF Turn, FindRow, InsertRow, EnterTurn, Answer, AnswerFails, Receive,
                Approval, RequestApproval, CardSent, CardFails, Decided, TimeOut
  <2> QED
    BY <1>0, <2>1, <2>2, LimitGoes
<1>2. ASSUME NEW m \in Msgs, Deliver(m) PROVE LimitInv'
  <2>1. UNCHANGED phase \/ \E p \in {"done", "stopping"} : Goto(m, p)
    BY <1>2 DEF Deliver, SendChunk, SendFails, SendNotice, Interrupt, Closed
  <2>2. UNCHANGED memoryVars
    BY <1>2 DEF Deliver, SendChunk, SendFails, SendNotice, Interrupt
  <2> QED
    BY <1>0, <2>1, <2>2, LimitGoes
<1>3. ASSUME NEW m \in Msgs,
             Stop(m) \/ NewDrops(m) \/ NewInserts(m) \/ ShowConversation(m) \/ ShowRows(m) \/ ShowConfig(m)
      PROVE  LimitInv'
  <2>1. \E p \in {"done", "dropped", "reply"} : Goto(m, p)
    BY <1>3 DEF Stop, NewDrops, NewInserts, ShowConversation, ShowRows, ShowConfig, Shown, CommandReply
  <2>2. UNCHANGED memoryVars
    BY <1>3 DEF Stop, NewDrops, NewInserts, ShowConversation, ShowRows, ShowConfig, Shown
  <2> QED
    BY <1>0, <2>1, <2>2, LimitGoes
<1>4. ASSUME NEW m \in Msgs, Command(m) PROVE LimitInv'
  BY <1>3, <1>4, LimitCounts, LimitInserts, LimitForgets DEF Command
<1>5. ASSUME UNCHANGED <<phase, memoryVars>> PROVE LimitInv'
  BY <1>5, LimitElse DEF LimitInv
<1>6. ASSUME NEW m \in Msgs, Lapse(m) PROVE LimitInv'
  BY <1>5, <1>6 DEF Lapse
<1>7. ASSUME NEW m \in Msgs, NEW u \in Users, NEW c \in Buttons, Click(m, u, c) PROVE LimitInv'
  BY <1>5, <1>7 DEF Click
<1>8. CASE DrainApprovals \/ CancelTasks \/ UNCHANGED vars
  BY <1>5, <1>8 DEF DrainApprovals, CancelTasks, vars
<1> QED
  BY <1>1, <1>2, <1>4, <1>6, <1>7, <1>8 DEF Next, Step

LEMMA LimitInit == Init => LimitInv
<1> SUFFICES ASSUME Init, NEW u \in Users
             PROVE  memories[u] + Cardinality(Remembering(u)) + 1 <= MemoryLimit + PeakOf(peak[u], 1)
  BY DEF Init, LimitInv, LimitOvershoot
<1>1. Remembering(u) = {}
  BY DEF Init, Remembering
<1>2. Cardinality(Remembering(u)) = 0
  BY <1>1, FS_EmptySet
<1> QED
  BY <1>2, QQAssumption DEF Init, PeakOf

\* A scope passes the memory limit by no more than its concurrent /remember
\* commands (agent/service.py, remember_memory).
THEOREM LimitOvershootBounded == Spec => []LimitOvershoot
<1>1. LimitInv => LimitOvershoot
  BY DEF LimitInv
<1> QED
  BY <1>1, AnswerInit, AnswerNext, LimitInit, LimitNext, PTL DEF Spec
=============================================================================
