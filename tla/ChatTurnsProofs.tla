-------------------------- MODULE ChatTurnsProofs --------------------------
(***************************************************************************)
(* Proofs about ChatTurns, for any number of messages, /new, /stop, chats, *)
(* conversation rows and restarts.                                         *)
(***************************************************************************)
EXTENDS ChatTurns, SequenceTheorems, TLAPS

-----------------------------------------------------------------------------
(* Lemmas about the operators                                               *)

\* Taking one waiter out of a queue leaves a queue.
LEMMA RemoveAtType ==
    ASSUME NEW S, NEW s \in Seq(S), NEW i \in DOMAIN s
    PROVE  RemoveAt(s, i) \in Seq(S)
<1>1. i \in 1 .. Len(s)
  BY LenProperties
<1>2. SubSeq(s, 1, i - 1) \in Seq(S)
  <2>1. \A j \in 1 .. i - 1 : s[j] \in S
    BY <1>1, ElementOfSeq
  <2> QED
    BY <1>1, <2>1, SubSeqProperties
<1>3. SubSeq(s, i + 1, Len(s)) \in Seq(S)
  <2>1. \A j \in i + 1 .. Len(s) : s[j] \in S
    BY <1>1, ElementOfSeq
  <2> QED
    BY <1>1, <2>1, SubSeqProperties, LenProperties
<1> QED
  BY <1>2, <1>3, ConcatProperties DEF RemoveAt

-----------------------------------------------------------------------------
(* The inductive invariant                                                  *)

\* Past its conversation lookup, a turn works on a row that once existed; so
\* does a /new that is about to drop one.
ConvKnown ==
    /\ \A t \in Turns : pc[t] \in Registered \cup {"media"} => conv[t] \in ConvIds
    /\ \A r \in Resets : pc[r] = "drop" => conv[r] \in ConvIds

\* A turn in the critical section is the holder of its conversation's lock.
HolderInside ==
    \A t \in Turns : pc[t] \in Holding => holder[conv[t]] = t

\* Ids above the AUTOINCREMENT sequence are nobody's: no row, no reference.
IdsUsed ==
    /\ \A c \in ConvIds : rows[c] # None => c <= lastConv
    /\ \A t \in Turns \cup Resets : conv[t] <= lastConv

\* Messages hang on a row: without it the log is empty.
EmptyWithoutRow ==
    \A c \in ConvIds : rows[c] = None => log[c] = <<>>

\* Between reading the history and asking, a surviving conversation is as read.
HistoryCurrent ==
    \A t \in Turns :
        pc[t] = "ask" /\ Exists(conv[t]) => log[conv[t]] = history[t]

TypeInv == TypeOK /\ ConvKnown
LockInv == TypeInv /\ HolderInside
RowInv  == TypeInv /\ IdsUsed /\ EmptyWithoutRow
Inv     == LockInv /\ RowInv /\ HistoryCurrent /\ ContextCurrent /\ TranscriptSerial

-----------------------------------------------------------------------------
(* Type correctness                                                         *)

LEMMA InitTypeOK == Init => TypeOK
BY ChatsAssumption, EmptySeq
   DEF Init, TypeOK, Tasks, TurnPC, ResetPC, StopPC, Registered, Holding

\* Moving one turn keeps every task at a place of its own kind.
LEMMA MoveTurnType ==
    ASSUME TypeOK, NEW t \in Turns, NEW to \in TurnPC, pc' = [pc EXCEPT ![t] = to]
    PROVE  /\ pc' \in [Tasks -> TurnPC \cup ResetPC]
           /\ \A u \in Turns : pc'[u] \in TurnPC
           /\ \A r \in Resets : pc'[r] \in ResetPC
           /\ \A s \in Stops : pc'[s] \in StopPC
BY TasksAssumption DEF TypeOK, Tasks

\* Joining the queue of one lock, and leaving it.
LEMMA JoinQueueType ==
    ASSUME queue \in [ConvIds -> Seq(Turns)], NEW t \in Turns, NEW c,
           queue' = [queue EXCEPT ![c] = Append(@, t)]
    PROVE  queue' \in [ConvIds -> Seq(Turns)]
<1>1. CASE c \in ConvIds
  <2>1. Append(queue[c], t) \in Seq(Turns)
    BY <1>1, AppendProperties
  <2> QED
    BY <1>1, <2>1
<1>2. CASE c \notin ConvIds
  BY <1>2
<1> QED
  BY <1>1, <1>2

LEMMA LeaveQueueType ==
    ASSUME TypeOK, NEW t \in Turns, InterruptWaiting(t)
    PROVE  queue' \in [ConvIds -> Seq(Turns)]
<1>1. PICK i \in DOMAIN queue[conv[t]] :
            queue' = [queue EXCEPT ![conv[t]] = RemoveAt(@, i)]
  BY DEF InterruptWaiting
<1>2. queue \in [ConvIds -> Seq(Turns)]
  BY DEF TypeOK
<1>3. CASE conv[t] \in ConvIds
  <2>1. RemoveAt(queue[conv[t]], i) \in Seq(Turns)
    BY <1>2, <1>3, RemoveAtType
  <2> QED
    BY <1>1, <1>2, <1>3, <2>1
<1>4. CASE conv[t] \notin ConvIds
  BY <1>1, <1>2, <1>4
<1> QED
  BY <1>3, <1>4

\* Finding, creating and rejecting: before the turn is registered.
LEMMA ArrivalTypeOK ==
    ASSUME TypeOK, NEW t \in Turns,
           Arrive(t) \/ CreateConversation(t) \/ RejectMedia(t)
    PROVE  TypeOK'
<1> USE TasksAssumption, ChatsAssumption
    DEF TypeOK, Tasks, TurnPC, Registered, Holding, Goto, db, locks, stop
<1>1. CASE FindConversation(t)
  BY <1>1 DEF FindConversation, ConvIds
<1>2. CASE MissConversation(t)
  BY <1>2 DEF MissConversation
<1>3. CASE AmbiguousConversation(t)
  BY <1>3 DEF AmbiguousConversation
<1>4. CASE CreateConversation(t)
  <2>1. lastConv' \in Nat /\ lastConv' <= MaxConv /\ lastConv' \in ConvIds
    BY <1>4 DEF CreateConversation, InsertRow, ConvIds
  <2>2. pc' = [pc EXCEPT ![t] = "media"]
    BY <1>4 DEF CreateConversation
  <2>3. conv' = [conv EXCEPT ![t] = lastConv']
    BY <1>4 DEF CreateConversation
  <2>4. rows' = [rows EXCEPT ![lastConv'] = t]
    BY <1>4 DEF CreateConversation, InsertRow
  <2>5. UNCHANGED <<log, history, locks, stop, result, restarts>>
    BY <1>4 DEF CreateConversation, InsertRow
  <2> QED
    BY <2>1, <2>2, <2>3, <2>4, <2>5
<1>5. CASE RejectMedia(t)
  BY <1>5 DEF RejectMedia
<1> QED
  BY <1>1, <1>2, <1>3, <1>4, <1>5 DEF Arrive

\* Taking, waiting for and leaving the lock.
LEMMA LockStepTypeOK ==
    ASSUME TypeOK, NEW t \in Turns,
           EnterFree(t) \/ EnterQueue(t) \/ Acquire(t)
    PROVE  TypeOK'
<1> USE TasksAssumption, ChatsAssumption
    DEF TypeOK, Tasks, TurnPC, Registered, Holding, Goto, db, locks, stop
<1>1. CASE EnterFree(t)
  <2>1. /\ pc' = [pc EXCEPT ![t] = "read"]
        /\ inFlight' = [inFlight EXCEPT ![ChatOf[t]] = t]
        /\ holder' = [holder EXCEPT ![conv[t]] = t]
        /\ UNCHANGED <<conv, db, history, queue, cancelled, target, result, restarts>>
    BY <1>1 DEF EnterFree
  <2>2. inFlight' \in [Chats -> Turns \cup {None}]
    BY <2>1
  <2>3. holder' \in [ConvIds -> Turns \cup {None}]
    BY <2>1
  <2> QED
    BY <2>1, <2>2, <2>3, MoveTurnType
<1>2. CASE EnterQueue(t)
  <2>1. /\ pc' = [pc EXCEPT ![t] = "wait"]
        /\ inFlight' = [inFlight EXCEPT ![ChatOf[t]] = t]
        /\ queue' = [queue EXCEPT ![conv[t]] = Append(@, t)]
        /\ UNCHANGED <<conv, db, history, holder, cancelled, target, result, restarts>>
    BY <1>2 DEF EnterQueue
  <2>2. queue' \in [ConvIds -> Seq(Turns)]
    BY <2>1, JoinQueueType
  <2>3. inFlight' \in [Chats -> Turns \cup {None}]
    BY <2>1
  <2> QED
    BY <2>1, <2>2, <2>3, MoveTurnType
<1>3. CASE Acquire(t)
  <2>1. queue' \in [ConvIds -> Seq(Turns)]
    BY <1>3, HeadTailProperties DEF Acquire
  <2> QED
    BY <1>3, <2>1 DEF Acquire
<1> QED
  BY <1>1, <1>2, <1>3

\* The work inside the lock: reading, asking, thinking and answering.
LEMMA WorkTypeOK ==
    ASSUME TypeInv, NEW t \in Turns,
           \/ ReadHistory(t) \/ AddUser(t) \/ AddUserFails(t) \/ Think(t)
           \/ ThinkFails(t) \/ AddAssistant(t) \/ AddAssistantFails(t)
    PROVE  TypeOK'
<1> USE TasksAssumption, ChatsAssumption
    DEF TypeOK, Tasks, TurnPC, Registered, Holding, Goto, db, locks, stop,
        LeaveTurn, Release, TypeInv
<1>1. CASE ReadHistory(t)
  <2>1. conv[t] \in ConvIds
    BY <1>1 DEF ReadHistory, ConvKnown
  <2> QED
    BY <1>1, <2>1 DEF ReadHistory
<1>2. CASE AddUser(t)
  <2>1. User(t) \in Message
    BY DEF User, Message
  <2>2. log' \in [ConvIds -> Seq(Message)]
    BY <1>2, <2>1, AppendProperties DEF AddUser, Exists
  <2> QED
    BY <1>2, <2>2 DEF AddUser
<1>3. CASE AddUserFails(t)
  BY <1>3 DEF AddUserFails
<1>4. CASE Think(t)
  BY <1>4 DEF Think
<1>5. CASE ThinkFails(t)
  BY <1>5 DEF ThinkFails
<1>6. CASE AddAssistant(t)
  <2>1. Assistant(t) \in Message
    BY DEF Assistant, Message
  <2>2. log' \in [ConvIds -> Seq(Message)]
    BY <1>6, <2>1, AppendProperties DEF AddAssistant, Exists
  <2> QED
    BY <1>6, <2>2 DEF AddAssistant
<1>7. CASE AddAssistantFails(t)
  <2>1. /\ pc' = [pc EXCEPT ![t] = "settle"]
        /\ result' = [result EXCEPT ![t] = "error"]
        /\ holder' = [holder EXCEPT ![conv[t]] = None]
        /\ UNCHANGED <<conv, db, history, queue, stop, restarts>>
    BY <1>7 DEF AddAssistantFails
  <2>2. holder' \in [ConvIds -> Turns \cup {None}]
    BY <2>1
  <2> QED
    BY <2>1, <2>2, MoveTurnType
<1> QED
  BY <1>1, <1>2, <1>3, <1>4, <1>5, <1>6, <1>7

\* Leaving handle_message, on its own or interrupted.
LEMMA LeaveTypeOK ==
    ASSUME TypeOK, NEW t \in Turns,
           \/ Settle(t) \/ SwallowCancel(t) \/ Finish(t)
           \/ InterruptWaiting(t) \/ InterruptHolding(t) \/ InterruptSending(t)
    PROVE  TypeOK'
<1> USE TasksAssumption, ChatsAssumption
    DEF TypeOK, Tasks, TurnPC, Registered, Holding, Goto, db, locks, stop,
        Interrupted, Release, PopSlot
<1>1. CASE Settle(t)
  BY <1>1 DEF Settle
<1>2. CASE SwallowCancel(t)
  BY <1>2 DEF SwallowCancel
<1>3. CASE Finish(t)
  BY <1>3 DEF Finish
<1>4. CASE InterruptWaiting(t)
  <2>1. queue' \in [ConvIds -> Seq(Turns)]
    BY <1>4, LeaveQueueType
  <2>2. /\ pc' = [pc EXCEPT ![t] = "notice"]
        /\ cancelled' = cancelled \ {t}
        /\ result' = [result EXCEPT ![t] = "interrupted"]
        /\ UNCHANGED <<conv, db, history, holder, inFlight, target, restarts>>
    BY <1>4 DEF InterruptWaiting
  <2> QED
    BY <2>1, <2>2, MoveTurnType
<1>5. CASE InterruptHolding(t)
  BY <1>5 DEF InterruptHolding
<1>6. CASE InterruptSending(t)
  BY <1>6 DEF InterruptSending
<1> QED
  BY <1>1, <1>2, <1>3, <1>4, <1>5, <1>6

\* /stop and /new.
LEMMA CommandTypeOK ==
    ASSUME TypeOK,
           (\E s \in Stops : StopStep(s)) \/ (\E r \in Resets : ResetStep(r))
    PROVE  TypeOK'
<1> USE TasksAssumption, ChatsAssumption
    DEF TypeOK, Tasks, ResetPC, StopPC, Goto, db, locks, stop
<1>1. CASE \E s \in Stops : StopStep(s)
  <2> PICK s \in Stops : StopStep(s)
    BY <1>1
  <2>1. CASE StopTurn(s)
    BY <2>1 DEF StopTurn
  <2>2. CASE NothingToStop(s)
    BY <2>2 DEF NothingToStop
  <2> QED
    BY <2>1, <2>2 DEF StopStep
<1>2. CASE \E r \in Resets : ResetStep(r)
  <2> PICK r \in Resets : ResetStep(r)
    BY <1>2
  <2>1. CASE ResetFinds(r)
    BY <2>1 DEF ResetFinds, ConvIds
  <2>2. CASE ResetMisses(r)
    BY <2>2 DEF ResetMisses
  <2>3. CASE ResetAmbiguous(r)
    BY <2>3 DEF ResetAmbiguous
  <2>4. CASE ResetDrop(r)
    BY <2>4, EmptySeq DEF ResetDrop, DeleteRow
  <2>5. CASE ResetInsert(r)
    <3>1. lastConv' \in 0 .. MaxConv
      BY <2>5 DEF ResetInsert, InsertRow
    <3> QED
      BY <2>5, <3>1 DEF ResetInsert, InsertRow
  <2> QED
    BY <2>1, <2>2, <2>3, <2>4, <2>5 DEF ResetStep
<1> QED
  BY <1>1, <1>2

LEMMA RestartTypeOK == TypeOK /\ Restart => TypeOK'
BY TasksAssumption, ChatsAssumption, EmptySeq
   DEF TypeOK, Restart, Tasks, TurnPC, ResetPC, StopPC, db

LEMMA NextTypeOK == TypeInv /\ [Next]_vars => TypeOK'
<1> SUFFICES ASSUME TypeInv, [Next]_vars PROVE TypeOK'
  OBVIOUS
<1>1. ASSUME NEW t \in Turns, Arrive(t) \/ TurnStep(t) PROVE TypeOK'
  BY <1>1, ArrivalTypeOK, LockStepTypeOK, WorkTypeOK, LeaveTypeOK DEF TurnStep, TypeInv
<1>2. CASE UNCHANGED vars
  BY <1>2 DEF TypeOK, TypeInv, vars
<1> QED
  BY <1>1, <1>2, CommandTypeOK, RestartTypeOK DEF Next, TypeInv

\* The row a turn works on is chosen when it finds or creates its conversation.
LEMMA NextConvKnown == TypeInv /\ [Next]_vars => ConvKnown'
<1> SUFFICES ASSUME TypeInv, [Next]_vars PROVE ConvKnown'
  OBVIOUS
<1> USE TasksAssumption, ChatsAssumption
    DEF TypeInv, TypeOK, ConvKnown, Tasks, TurnPC, ResetPC, StopPC, Registered,
        Holding, Goto, db, locks, stop
<1>1. ASSUME NEW t \in Turns, Arrive(t) PROVE ConvKnown'
  <2>1. CASE FindConversation(t)
    <3>1. PICK c \in ConvIds : conv' = [conv EXCEPT ![t] = c]
      BY <2>1 DEF FindConversation
    <3>2. pc' = [pc EXCEPT ![t] = "media"]
      BY <2>1 DEF FindConversation
    <3> QED
      BY <3>1, <3>2
  <2>2. CASE MissConversation(t) \/ AmbiguousConversation(t)
    <3>1. /\ UNCHANGED conv
          /\ \E to \in {"create", "done"} : pc' = [pc EXCEPT ![t] = to]
      BY <2>2 DEF MissConversation, AmbiguousConversation
    <3> QED
      BY <3>1
  <2> QED
    BY <1>1, <2>1, <2>2 DEF Arrive
<1>2. ASSUME NEW t \in Turns, CreateConversation(t) PROVE ConvKnown'
  <2>1. lastConv' \in ConvIds
    BY <1>2 DEF CreateConversation, InsertRow, ConvIds
  <2> QED
    BY <1>2, <2>1 DEF CreateConversation
<1>3. ASSUME NEW t \in Turns, TurnStep(t), ~CreateConversation(t) PROVE ConvKnown'
  <2>1. /\ UNCHANGED conv
        /\ \E from \in Registered \cup {"create", "media"}, to \in TurnPC \ {"media"} :
              /\ pc[t] = from
              /\ pc' = [pc EXCEPT ![t] = to]
              /\ from = "create" => to = "done"
    BY <1>3
       DEF TurnStep, RejectMedia, EnterFree, EnterQueue, Acquire, ReadHistory,
           AddUser, AddUserFails, Think, ThinkFails, AddAssistant,
           AddAssistantFails, Settle, SwallowCancel, Finish, InterruptWaiting,
           InterruptHolding, InterruptSending, LeaveTurn, Interrupted
  <2> QED
    BY <2>1
<1>4. ASSUME NEW s \in Stops, StopStep(s) PROVE ConvKnown'
  BY <1>4 DEF StopStep, StopTurn, NothingToStop
<1>5. ASSUME NEW r \in Resets, ResetStep(r) PROVE ConvKnown'
  BY <1>5 DEF ResetStep, ResetFinds, ResetMisses, ResetAmbiguous, ResetDrop, ResetInsert
<1>6. CASE Restart
  BY <1>6 DEF Restart
<1>7. CASE UNCHANGED vars
  BY <1>7 DEF vars
<1> QED
  BY <1>1, <1>2, <1>3, <1>4, <1>5, <1>6, <1>7 DEF Next

LEMMA TypeInvariant == Spec => []TypeInv
<1>1. Init => TypeInv
  BY InitTypeOK DEF Init, TypeInv, ConvKnown, Registered, Holding, Tasks
<1>2. TypeInv /\ [Next]_vars => TypeInv'
  BY NextTypeOK, NextConvKnown DEF TypeInv
<1> QED
  BY <1>1, <1>2, PTL DEF Spec

\* The state keeps its types: no row id, queue, slot or log ever leaves them.
THEOREM TypeCorrect == Spec => []TypeOK
BY TypeInvariant, PTL DEF TypeInv

-----------------------------------------------------------------------------
(* Mutual exclusion                                                         *)

\* Only the holder gives a lock back, and only a free lock is taken.
LEMMA NextHolderInside == LockInv /\ [Next]_vars => HolderInside'
<1> SUFFICES ASSUME LockInv, [Next]_vars PROVE HolderInside'
  OBVIOUS
<1> USE TasksAssumption
    DEF LockInv, TypeInv, TypeOK, ConvKnown, HolderInside, Tasks, Registered,
        Holding, Goto, db, locks, stop
<1>1. ASSUME NEW t \in Turns, Arrive(t) \/ CreateConversation(t) PROVE HolderInside'
  BY <1>1 DEF Arrive, FindConversation, MissConversation, AmbiguousConversation,
              CreateConversation
<1>2. ASSUME NEW t \in Turns, EnterFree(t) \/ Acquire(t) PROVE HolderInside'
  <2>1. /\ holder[conv[t]] = None
        /\ holder' = [holder EXCEPT ![conv[t]] = t]
        /\ \A u \in Turns \ {t} : pc'[u] = pc[u]
        /\ UNCHANGED conv
    BY <1>2 DEF EnterFree, Acquire
  <2>2. conv[t] \in ConvIds
    BY <1>2 DEF EnterFree, Acquire
  <2>3. ASSUME NEW u \in Turns, pc'[u] \in Holding PROVE holder'[conv'[u]] = u
    <3>1. CASE u = t
      BY <3>1, <2>1, <2>2
    <3>2. CASE u # t
      BY <3>2, <2>1, <2>3
    <3> QED
      BY <3>1, <3>2
  <2> QED
    BY <2>3
<1>3. ASSUME NEW t \in Turns, EnterQueue(t) \/ ReadHistory(t) \/ AddUser(t) \/ Think(t)
      PROVE  HolderInside'
  BY <1>3 DEF EnterQueue, ReadHistory, AddUser, Think
<1>4. ASSUME NEW t \in Turns,
             \/ AddUserFails(t) \/ ThinkFails(t) \/ AddAssistant(t)
             \/ AddAssistantFails(t) \/ InterruptHolding(t)
      PROVE  HolderInside'
  <2>1. /\ pc[t] \in Holding
        /\ pc'[t] \notin Holding
        /\ \A u \in Turns \ {t} : pc'[u] = pc[u]
        /\ holder' = [holder EXCEPT ![conv[t]] = None]
        /\ UNCHANGED conv
    BY <1>4 DEF AddUserFails, ThinkFails, AddAssistant, AddAssistantFails,
                InterruptHolding, LeaveTurn, Release, Interrupted
  <2> QED
    BY <2>1
<1>5. ASSUME NEW t \in Turns,
             \/ RejectMedia(t) \/ Settle(t) \/ SwallowCancel(t) \/ Finish(t)
             \/ InterruptWaiting(t) \/ InterruptSending(t)
      PROVE  HolderInside'
  BY <1>5 DEF RejectMedia, Settle, SwallowCancel, Finish, InterruptWaiting,
              InterruptSending, Interrupted
<1>6. ASSUME NEW s \in Stops, StopStep(s) PROVE HolderInside'
  BY <1>6 DEF StopStep, StopTurn, NothingToStop
<1>7. ASSUME NEW r \in Resets, ResetStep(r) PROVE HolderInside'
  BY <1>7 DEF ResetStep, ResetFinds, ResetMisses, ResetAmbiguous, ResetDrop, ResetInsert
<1>8. CASE Restart
  BY <1>8 DEF Restart
<1>9. CASE UNCHANGED vars
  BY <1>9 DEF vars
<1> QED
  BY <1>1, <1>2, <1>3, <1>4, <1>5, <1>6, <1>7, <1>8, <1>9 DEF Next, TurnStep

LEMMA LockInvariant == Spec => []LockInv
<1>1. Init /\ TypeInv => LockInv
  BY DEF Init, LockInv, HolderInside, Holding, Tasks
<1>2. LockInv /\ [Next]_vars /\ TypeInv' => LockInv'
  BY NextHolderInside DEF LockInv
<1> QED
  BY <1>1, <1>2, TypeInvariant, PTL DEF Spec

\* Two turns are never inside the critical section of one conversation.
THEOREM MutualExclusion == Spec => []LockExclusive
<1>1. LockInv => LockExclusive
  BY DEF LockInv, HolderInside, LockExclusive
<1> QED
  BY <1>1, LockInvariant, PTL

-----------------------------------------------------------------------------
(* Conversation ids                                                         *)

\* An inserted row takes an id above all those in use.
LEMMA InsertRowInv ==
    ASSUME RowInv, NEW t \in Turns \cup Resets, InsertRow(t),
           conv' = conv \/ conv' = [conv EXCEPT ![t] = lastConv']
    PROVE  IdsUsed' /\ EmptyWithoutRow'
<1> USE TasksAssumption, ChatsAssumption DEF RowInv, TypeInv, TypeOK
<1>1. /\ lastConv' = lastConv + 1
      /\ lastConv \in Nat
      /\ lastConv' \in ConvIds
      /\ rows' = [rows EXCEPT ![lastConv'] = t]
      /\ UNCHANGED log
  BY DEF InsertRow, ConvIds
<1>2. t # None
  BY DEF Tasks
<1>3. ASSUME NEW u \in Turns \cup Resets PROVE conv'[u] <= lastConv'
  <2>1. conv[u] \in Nat /\ conv[u] <= lastConv
    BY DEF IdsUsed
  <2>2. conv'[u] = conv[u] \/ conv'[u] = lastConv'
    OBVIOUS
  <2> QED
    BY <1>1, <2>1, <2>2
<1>4. ASSUME NEW c \in ConvIds, rows'[c] # None PROVE c <= lastConv'
  BY <1>1, <1>4 DEF IdsUsed, ConvIds
<1>5. ASSUME NEW c \in ConvIds, rows'[c] = None PROVE log'[c] = <<>>
  BY <1>1, <1>2, <1>5 DEF EmptyWithoutRow
<1> QED
  BY <1>3, <1>4, <1>5 DEF IdsUsed, EmptyWithoutRow

LEMMA NextRowInv == RowInv /\ [Next]_vars => IdsUsed' /\ EmptyWithoutRow'
<1> SUFFICES ASSUME RowInv, [Next]_vars PROVE IdsUsed' /\ EmptyWithoutRow'
  OBVIOUS
<1> USE TasksAssumption, ChatsAssumption
    DEF RowInv, TypeInv, TypeOK, ConvKnown, IdsUsed, EmptyWithoutRow, Exists, db
<1>1. ASSUME NEW t \in Turns, FindConversation(t) PROVE IdsUsed' /\ EmptyWithoutRow'
  BY <1>1 DEF FindConversation, RowsOf
<1>2. ASSUME NEW t \in Turns, CreateConversation(t) PROVE IdsUsed' /\ EmptyWithoutRow'
  BY <1>2, InsertRowInv DEF CreateConversation
<1>3. ASSUME NEW t \in Turns, AddUser(t) \/ AddAssistant(t)
      PROVE  IdsUsed' /\ EmptyWithoutRow'
  BY <1>3 DEF AddUser, AddAssistant, LeaveTurn
<1>4. ASSUME NEW t \in Turns, Arrive(t) \/ TurnStep(t),
             ~FindConversation(t), ~CreateConversation(t), ~AddUser(t), ~AddAssistant(t)
      PROVE  IdsUsed' /\ EmptyWithoutRow'
  <2>1. UNCHANGED <<conv, rows, lastConv, log>>
    BY <1>4
       DEF Arrive, TurnStep, MissConversation, AmbiguousConversation, RejectMedia,
           EnterFree, EnterQueue, Acquire, ReadHistory, AddUserFails, Think,
           ThinkFails, AddAssistantFails, Settle, SwallowCancel, Finish,
           InterruptWaiting, InterruptHolding, InterruptSending, LeaveTurn, Interrupted
  <2> QED
    BY <2>1
<1>5. ASSUME NEW s \in Stops, StopStep(s) PROVE IdsUsed' /\ EmptyWithoutRow'
  BY <1>5 DEF StopStep, StopTurn, NothingToStop
<1>6. ASSUME NEW r \in Resets, ResetStep(r) PROVE IdsUsed' /\ EmptyWithoutRow'
  <2>1. CASE ResetFinds(r)
    BY <2>1 DEF ResetFinds, RowsOf
  <2>2. CASE ResetMisses(r) \/ ResetAmbiguous(r)
    BY <2>2 DEF ResetMisses, ResetAmbiguous
  <2>3. CASE ResetDrop(r)
    BY <2>3 DEF ResetDrop, DeleteRow
  <2>4. CASE ResetInsert(r)
    BY <2>4, InsertRowInv DEF ResetInsert
  <2> QED
    BY <1>6, <2>1, <2>2, <2>3, <2>4 DEF ResetStep
<1>7. CASE Restart \/ UNCHANGED vars
  BY <1>7 DEF Restart, vars
<1> QED
  BY <1>1, <1>2, <1>3, <1>4, <1>5, <1>6, <1>7 DEF Next

LEMMA RowInvariant == Spec => []RowInv
<1>1. Init /\ TypeInv => RowInv
  BY DEF Init, RowInv, IdsUsed, EmptyWithoutRow
<1>2. RowInv /\ [Next]_vars /\ TypeInv' => RowInv'
  BY NextRowInv DEF RowInv
<1> QED
  BY <1>1, <1>2, TypeInvariant, PTL DEF Spec

\* A conversation row that is inserted is empty and known to no running task,
\* so no turn that outlives a /new ever writes into the fresh conversation.
THEOREM FreshRows == Spec => FreshConversation
<1> DEFINE Fresh ==
        \A c \in ConvIds :
            rows[c] = None /\ rows'[c] # None =>
                /\ log'[c] = <<>>
                /\ \A t \in Turns \cup Resets : conv[t] # c
<1>1. RowInv /\ [Next]_vars => [Fresh]_vars
  <2> SUFFICES ASSUME RowInv, Next,
                      NEW c \in ConvIds, rows[c] = None, rows'[c] # None
               PROVE  /\ log'[c] = <<>>
                      /\ \A t \in Turns \cup Resets : conv[t] # c
    OBVIOUS
  <2> USE DEF RowInv, TypeInv, TypeOK, IdsUsed, EmptyWithoutRow
  <2>1. PICK t \in Turns \cup Resets : InsertRow(t)
    <3>1. ASSUME NEW t \in Turns, Arrive(t) \/ TurnStep(t) PROVE InsertRow(t)
      BY <3>1
         DEF Arrive, TurnStep, FindConversation, MissConversation,
             AmbiguousConversation, CreateConversation, RejectMedia, EnterFree,
             EnterQueue, Acquire, ReadHistory, AddUser, AddUserFails, Think,
             ThinkFails, AddAssistant, AddAssistantFails, Settle, SwallowCancel,
             Finish, InterruptWaiting, InterruptHolding, InterruptSending,
             LeaveTurn, Interrupted, db
    <3>2. ASSUME NEW s \in Stops PROVE ~StopStep(s)
      BY DEF StopStep, StopTurn, NothingToStop, db
    <3>3. ASSUME NEW r \in Resets, ResetStep(r) PROVE InsertRow(r)
      BY <3>3 DEF ResetStep, ResetFinds, ResetMisses, ResetAmbiguous, ResetDrop,
                  ResetInsert, DeleteRow, db
    <3>4. ~Restart
      BY DEF Restart, db
    <3> QED
      BY <3>1, <3>2, <3>3, <3>4 DEF Next
  <2>2. c = lastConv + 1
    BY <2>1 DEF InsertRow
  <2>3. log'[c] = <<>>
    BY <2>1 DEF InsertRow
  <2> QED
    BY <2>2, <2>3, ChatsAssumption
<1> QED
  BY <1>1, RowInvariant, PTL DEF Spec, FreshConversation

-----------------------------------------------------------------------------
(* The transcript                                                           *)

\* What a turn has to know about its conversation while it is in the lock.
Knows(t) ==
    /\ pc[t] = "ask" /\ Exists(conv[t]) => log[conv[t]] = history[t]
    /\ pc[t] \in {"think", "answer"} /\ Exists(conv[t]) =>
          log[conv[t]] = Append(history[t], User(t))

LEMMA KnowsAll ==
    (\A t \in Turns : Knows(t)) <=> HistoryCurrent /\ ContextCurrent
BY DEF Knows, HistoryCurrent, ContextCurrent

\* Append keeps what is there.
LEMMA AppendKeeps ==
    ASSUME NEW S, NEW s \in Seq(S), NEW e \in S, NEW i \in 1 .. Len(s)
    PROVE  Append(s, e)[i] = s[i] /\ (i > 1 => Append(s, e)[i - 1] = s[i - 1])
<1>1. Len(s) \in Nat /\ (i > 1 => i - 1 \in 1 .. Len(s))
  BY LenProperties
<1>2. \A j \in 1 .. Len(s) : Append(s, e)[j] = s[j]
  BY AppendProperties
<1> QED
  BY <1>1, <1>2

\* A user message can follow anything.
LEMMA AppendUserSerial ==
    ASSUME TypeOK, TranscriptSerial, NEW t \in Turns, NEW c \in ConvIds,
           log' = [log EXCEPT ![c] = Append(@, User(t))]
    PROVE  TranscriptSerial'
<1> SUFFICES ASSUME NEW d \in ConvIds, NEW i \in DOMAIN log'[d],
                    log'[d][i].role = "assistant"
             PROVE  i > 1 /\ log'[d][i - 1] = User(log'[d][i].turn)
  BY DEF TranscriptSerial
<1>1. log[d] \in Seq(Message) /\ User(t) \in Message /\ User(t).role = "user"
  BY DEF TypeOK, User, Message
<1>2. CASE d # c
  BY <1>2 DEF TypeOK, TranscriptSerial
<1>3. CASE d = c
  <2>1. log'[d] = Append(log[d], User(t))
    BY <1>3 DEF TypeOK
  <2>2. i \in 1 .. Len(log[d])
    BY <1>1, <2>1, AppendProperties, LenProperties
  <2>3. log'[d][i] = log[d][i] /\ (i > 1 => log'[d][i - 1] = log[d][i - 1])
    <3>1. /\ Append(log[d], User(t))[i] = log[d][i]
          /\ i > 1 => Append(log[d], User(t))[i - 1] = log[d][i - 1]
      BY <1>1, <2>2, AppendKeeps
    <3> QED
      BY <2>1, <3>1
  <2>4. i \in DOMAIN log[d]
    BY <1>1, <2>2, LenProperties
  <2> QED
    BY <2>3, <2>4 DEF TranscriptSerial
<1> QED
  BY <1>2, <1>3

\* An assistant message may follow the question of its own turn.
LEMMA AppendAssistantSerial ==
    ASSUME TypeOK, TranscriptSerial, NEW t \in Turns, NEW c \in ConvIds,
           log[c] = Append(history[t], User(t)),
           log' = [log EXCEPT ![c] = Append(@, Assistant(t))]
    PROVE  TranscriptSerial'
<1> SUFFICES ASSUME NEW d \in ConvIds, NEW i \in DOMAIN log'[d],
                    log'[d][i].role = "assistant"
             PROVE  i > 1 /\ log'[d][i - 1] = User(log'[d][i].turn)
  BY DEF TranscriptSerial
<1>1. /\ log[d] \in Seq(Message) /\ history[t] \in Seq(Message)
      /\ User(t) \in Message /\ Assistant(t) \in Message /\ Assistant(t).turn = t
  BY DEF TypeOK, User, Assistant, Message
<1>2. CASE d # c
  BY <1>2 DEF TypeOK, TranscriptSerial
<1>3. CASE d = c
  <2>1. log'[d] = Append(log[d], Assistant(t))
    BY <1>3 DEF TypeOK
  <2>2. i \in 1 .. Len(log[d]) + 1
    BY <1>1, <2>1, AppendProperties, LenProperties
  <2>3. CASE i = Len(log[d]) + 1
    <3>1. log'[d][i] = Assistant(t)
      BY <1>1, <2>1, <2>3, AppendProperties
    <3>2. log[d] = Append(history[t], User(t))
      BY <1>3
    <3>3. Len(log[d]) = Len(history[t]) + 1 /\ log[d][Len(log[d])] = User(t)
      BY <1>1, <3>2, AppendProperties
    <3>4. Len(history[t]) \in Nat
      BY <1>1, LenProperties
    <3>5. log'[d][i - 1] = log[d][i - 1]
      BY <1>1, <2>1, <2>3, <3>3, <3>4, AppendProperties
    <3> QED
      BY <1>1, <2>3, <3>1, <3>3, <3>4, <3>5
  <2>4. CASE i # Len(log[d]) + 1
    <3>1. i \in 1 .. Len(log[d])
      BY <1>1, <2>2, <2>4, LenProperties
    <3>2. log'[d][i] = log[d][i] /\ (i > 1 => log'[d][i - 1] = log[d][i - 1])
      <4>1. /\ Append(log[d], Assistant(t))[i] = log[d][i]
            /\ i > 1 => Append(log[d], Assistant(t))[i - 1] = log[d][i - 1]
        BY <1>1, <3>1, AppendKeeps
      <4> QED
        BY <2>1, <4>1
    <3>3. i \in DOMAIN log[d]
      BY <1>1, <3>1, LenProperties
    <3> QED
      BY <3>2, <3>3 DEF TranscriptSerial
  <2> QED
    BY <2>3, <2>4
<1> QED
  BY <1>2, <1>3

\* A turn that asks or answers writes at the end of what it knows, and no other
\* turn is inside the lock of that conversation.
LEMMA WriteKeeps ==
    ASSUME Inv, NEW t \in Turns, AddUser(t) \/ AddAssistant(t)
    PROVE  (\A u \in Turns : Knows(u)') /\ TranscriptSerial'
<1> USE TasksAssumption DEF Inv, LockInv, TypeInv, db
<1>1. /\ conv[t] \in ConvIds
      /\ pc[t] \in Holding
      /\ UNCHANGED <<conv, rows, history>>
      /\ \A u \in Turns \ {t} : pc'[u] = pc[u]
      /\ \A d \in ConvIds \ {conv[t]} : log'[d] = log[d]
  BY DEF AddUser, AddAssistant, LeaveTurn, Goto, Exists, Holding, TypeOK, Tasks
<1>2. ASSUME NEW u \in Turns, u # t PROVE Knows(u)'
  <2>1. pc'[u] \in Holding => conv[u] # conv[t]
    BY <1>1, <1>2 DEF HolderInside
  <2>2. pc'[u] \in Holding => conv[u] \in ConvIds
    BY <1>1, <1>2 DEF ConvKnown, Registered
  <2>3. Knows(u)
    BY KnowsAll
  <2> QED
    BY <1>1, <1>2, <2>1, <2>2, <2>3 DEF Knows, Holding, Exists
<1>3. CASE AddUser(t)
  <2>1. log' = [log EXCEPT ![conv[t]] = Append(@, User(t))] /\ pc'[t] = "think"
    BY <1>3 DEF AddUser, Goto, TypeOK, Tasks
  <2>2. log[conv[t]] = history[t]
    BY <1>3 DEF AddUser, Goto, HistoryCurrent
  <2>3. Knows(t)'
    BY <1>1, <2>1, <2>2 DEF Knows, TypeOK
  <2> QED
    BY <1>1, <1>2, <2>1, <2>3, AppendUserSerial
<1>4. CASE AddAssistant(t)
  <2>1. log' = [log EXCEPT ![conv[t]] = Append(@, Assistant(t))] /\ pc'[t] = "settle"
    BY <1>4 DEF AddAssistant, LeaveTurn, Goto, TypeOK, Tasks
  <2>2. log[conv[t]] = Append(history[t], User(t))
    BY <1>4 DEF AddAssistant, LeaveTurn, Goto, ContextCurrent
  <2>3. Knows(t)'
    BY <2>1 DEF Knows
  <2> QED
    BY <1>1, <1>2, <2>1, <2>2, <2>3, AppendAssistantSerial
<1> QED
  BY <1>3, <1>4

\* Any other step of a turn leaves the messages alone, and only ReadHistory and
\* Think move a turn to where it has to know its conversation.
LEMMA QuietKeeps ==
    ASSUME Inv, NEW t \in Turns, Arrive(t) \/ TurnStep(t),
           ~CreateConversation(t), ~AddUser(t), ~AddAssistant(t)
    PROVE  (\A u \in Turns : Knows(u)') /\ TranscriptSerial'
<1> USE TasksAssumption DEF Inv, LockInv, TypeInv, db, Goto
<1>1. UNCHANGED <<rows, log>>
  BY DEF Arrive, TurnStep, FindConversation, MissConversation,
         AmbiguousConversation, RejectMedia, EnterFree, EnterQueue, Acquire,
         ReadHistory, AddUserFails, Think, ThinkFails, AddAssistantFails, Settle,
         SwallowCancel, Finish, InterruptWaiting, InterruptHolding,
         InterruptSending, LeaveTurn, Interrupted
<1>2. TranscriptSerial'
  BY <1>1 DEF TranscriptSerial
<1>3. \A u \in Turns : Knows(u)
  BY KnowsAll
<1>4. CASE ReadHistory(t)
  <2>1. /\ pc'[t] = "ask" /\ history'[t] = log[conv[t]]
        /\ UNCHANGED conv
        /\ \A u \in Turns \ {t} : pc'[u] = pc[u] /\ history'[u] = history[u]
    BY <1>4 DEF ReadHistory, TypeOK, Tasks
  <2> QED
    BY <1>1, <1>2, <1>3, <2>1 DEF Knows, Exists
<1>5. CASE Think(t)
  <2>1. /\ pc[t] = "think" /\ pc'[t] = "answer"
        /\ UNCHANGED <<conv, history>>
        /\ \A u \in Turns \ {t} : pc'[u] = pc[u]
    BY <1>5 DEF Think, TypeOK, Tasks
  <2> QED
    BY <1>1, <1>2, <1>3, <2>1 DEF Knows, Exists
<1>6. CASE ~ReadHistory(t) /\ ~Think(t)
  <2>1. /\ pc'[t] \notin {"ask", "think", "answer"}
        /\ UNCHANGED history
        /\ \A u \in Turns \ {t} : pc'[u] = pc[u] /\ conv'[u] = conv[u]
    BY <1>6
       DEF Arrive, TurnStep, FindConversation, MissConversation,
           AmbiguousConversation, RejectMedia, EnterFree, EnterQueue, Acquire,
           AddUserFails, ThinkFails, AddAssistantFails, Settle, SwallowCancel,
           Finish, InterruptWaiting, InterruptHolding, InterruptSending,
           LeaveTurn, Interrupted, TypeOK, Tasks
  <2> QED
    BY <1>1, <1>2, <1>3, <2>1 DEF Knows, Exists
<1> QED
  BY <1>4, <1>5, <1>6

\* A new row is nobody's yet.
LEMMA InsertKeeps ==
    ASSUME Inv, NEW t \in Turns \cup Resets, InsertRow(t),
           CreateConversation(t) \/ ResetInsert(t)
    PROVE  (\A u \in Turns : Knows(u)') /\ TranscriptSerial'
<1> USE TasksAssumption, ChatsAssumption DEF Inv, LockInv, TypeInv
<1>1. /\ lastConv \in Nat
      /\ rows' = [rows EXCEPT ![lastConv + 1] = t]
      /\ UNCHANGED <<log, history>>
  BY DEF InsertRow, CreateConversation, ResetInsert, TypeOK
<1>2. TranscriptSerial'
  BY <1>1 DEF TranscriptSerial
<1>3. ASSUME NEW u \in Turns PROVE Knows(u)'
  <2>1. CASE pc'[u] \notin {"ask", "think", "answer"}
    BY <2>1 DEF Knows
  <2>2. CASE pc'[u] \in {"ask", "think", "answer"}
    <3>1. pc'[u] = pc[u] /\ conv'[u] = conv[u]
      BY <2>2 DEF CreateConversation, ResetInsert, Goto, TypeOK, Tasks
    <3>2. conv[u] \in Nat /\ conv[u] <= lastConv
      BY DEF RowInv, IdsUsed, TypeOK
    <3>3. Exists(conv[u])' => Exists(conv[u])
      BY <1>1, <3>1, <3>2 DEF Exists, TypeOK
    <3> QED
      BY <1>1, <3>1, <3>3, KnowsAll DEF Knows
  <2> QED
    BY <2>1, <2>2
<1> QED
  BY <1>2, <1>3

\* Dropping a row only takes conversations away.
LEMMA DropKeeps ==
    ASSUME Inv, NEW r \in Resets, ResetDrop(r)
    PROVE  (\A u \in Turns : Knows(u)') /\ TranscriptSerial'
<1> USE TasksAssumption DEF Inv, LockInv, TypeInv
<1>1. /\ conv[r] \in ConvIds
      /\ rows' = [rows EXCEPT ![conv[r]] = None]
      /\ log' = [log EXCEPT ![conv[r]] = <<>>]
      /\ UNCHANGED <<conv, history>>
      /\ \A u \in Turns : pc'[u] = pc[u]
  BY DEF ResetDrop, DeleteRow, Goto, ConvKnown, TypeOK, Tasks
<1>2. ASSUME NEW u \in Turns PROVE Knows(u)'
  <2>1. Exists(conv[u])' => Exists(conv[u]) /\ log'[conv[u]] = log[conv[u]]
    BY <1>1 DEF Exists, TypeOK
  <2> QED
    BY <1>1, <2>1, KnowsAll DEF Knows
<1>3. TranscriptSerial'
  BY <1>1 DEF TranscriptSerial, TypeOK
<1> QED
  BY <1>2, <1>3

LEMMA NextTranscript ==
    Inv /\ [Next]_vars => HistoryCurrent' /\ ContextCurrent' /\ TranscriptSerial'
<1> SUFFICES ASSUME Inv, [Next]_vars
             PROVE  (\A u \in Turns : Knows(u)') /\ TranscriptSerial'
  BY DEF Knows, HistoryCurrent, ContextCurrent
<1>1. ASSUME NEW t \in Turns, Arrive(t) \/ TurnStep(t)
      PROVE  (\A u \in Turns : Knows(u)') /\ TranscriptSerial'
  BY <1>1, WriteKeeps, QuietKeeps, InsertKeeps DEF CreateConversation
<1>2. ASSUME NEW r \in Resets, ResetDrop(r) \/ ResetInsert(r)
      PROVE  (\A u \in Turns : Knows(u)') /\ TranscriptSerial'
  BY <1>2, DropKeeps, InsertKeeps DEF ResetInsert
<1>3. CASE \/ \E s \in Stops : StopStep(s)
           \/ \E r \in Resets : ResetFinds(r) \/ ResetMisses(r) \/ ResetAmbiguous(r)
           \/ Restart
           \/ UNCHANGED vars
  <2>1. /\ UNCHANGED <<rows, log, history>>
        /\ \A u \in Turns : conv'[u] = conv[u]
        /\ \A u \in Turns : pc'[u] = pc[u] \/ pc'[u] \in {"idle", "done"}
    BY <1>3, TasksAssumption
       DEF StopStep, StopTurn, NothingToStop, ResetFinds, ResetMisses,
           ResetAmbiguous, Restart, vars, Goto, db, Inv, LockInv, TypeInv, TypeOK, Tasks
  <2>2. \A u \in Turns : Knows(u)
    BY KnowsAll DEF Inv
  <2> QED
    BY <2>1, <2>2 DEF Knows, Exists, TranscriptSerial, Inv
<1> QED
  BY <1>1, <1>2, <1>3 DEF Next, ResetStep

LEMMA Invariant == Spec => []Inv
<1>1. Init /\ LockInv /\ RowInv => Inv
  BY DEF Init, Inv, HistoryCurrent, ContextCurrent, TranscriptSerial, Tasks
<1>2. Inv /\ [Next]_vars /\ LockInv' /\ RowInv' => Inv'
  BY NextTranscript DEF Inv
<1> QED
  BY <1>1, <1>2, LockInvariant, RowInvariant, PTL DEF Spec

\* The stored transcript is a sequence of exchanges: every assistant message
\* directly follows the user message of its own turn.
THEOREM SerialTranscript == Spec => []TranscriptSerial
BY Invariant, PTL DEF Inv

\* The model answers from the whole conversation: while a turn thinks, a
\* surviving conversation is what the turn read, followed by its question.
THEOREM CurrentContext == Spec => []ContextCurrent
BY Invariant, PTL DEF Inv

-----------------------------------------------------------------------------
(* The in-flight slot                                                       *)

HandleInv == TypeInv /\ HandleLive

\* One turn moves: its chat's slot holds it while it is registered, and no other
\* slot ever did.
LEMMA SlotMoves ==
    ASSUME HandleInv, NEW t \in Turns, \A u \in Turns \ {t} : pc'[u] = pc[u],
           \/ /\ pc'[t] \in Registered
              /\ inFlight' = [inFlight EXCEPT ![ChatOf[t]] = t]
           \/ pc[t] \notin Registered /\ UNCHANGED inFlight
           \/ inFlight' = [inFlight EXCEPT ![ChatOf[t]] = None]
    PROVE  HandleLive'
<1> SUFFICES ASSUME NEW chat \in Chats, inFlight'[chat] # None
             PROVE  /\ ChatOf[inFlight'[chat]] = chat
                    /\ pc'[inFlight'[chat]] \in Registered
  BY DEF HandleLive
<1>1. /\ inFlight \in [Chats -> Turns \cup {None}]
      /\ inFlight[chat] # None =>
            /\ inFlight[chat] \in Turns
            /\ ChatOf[inFlight[chat]] = chat
            /\ pc[inFlight[chat]] \in Registered
  BY DEF HandleInv, TypeInv, TypeOK, HandleLive
<1>2. CASE inFlight'[chat] = inFlight[chat] /\ inFlight[chat] # t
  BY <1>1, <1>2
<1>3. CASE inFlight'[chat] # inFlight[chat] \/ inFlight[chat] = t
  BY <1>1, <1>3
<1> QED
  BY <1>2, <1>3

\* A slot is filled by a turn that registers, and emptied by the turn that ends.
LEMMA NextHandleLive == HandleInv /\ [Next]_vars => HandleLive'
<1> SUFFICES ASSUME HandleInv, [Next]_vars PROVE HandleLive'
  OBVIOUS
<1> USE TasksAssumption, ChatsAssumption
    DEF HandleInv, TypeInv, TypeOK, HandleLive, Tasks, Registered, Holding, Goto,
        db, locks, stop
<1>1. ASSUME NEW t \in Turns, EnterFree(t) \/ EnterQueue(t) PROVE HandleLive'
  <2>1. /\ pc'[t] \in Registered
        /\ \A u \in Turns \ {t} : pc'[u] = pc[u]
        /\ inFlight' = [inFlight EXCEPT ![ChatOf[t]] = t]
    BY <1>1 DEF EnterFree, EnterQueue
  <2> QED
    BY <2>1, SlotMoves
<1>2. ASSUME NEW t \in Turns,
             Arrive(t) \/ CreateConversation(t) \/ RejectMedia(t)
      PROVE  HandleLive'
  <2>1. /\ pc[t] \notin Registered
        /\ \A u \in Turns \ {t} : pc'[u] = pc[u]
        /\ UNCHANGED inFlight
    BY <1>2 DEF Arrive, FindConversation, MissConversation, AmbiguousConversation,
                CreateConversation, RejectMedia
  <2> QED
    BY <2>1, SlotMoves
<1>3. ASSUME NEW t \in Turns, Finish(t) PROVE HandleLive'
  <2>1. /\ \A u \in Turns \ {t} : pc'[u] = pc[u]
        /\ inFlight' = [inFlight EXCEPT ![ChatOf[t]] = None]
    BY <1>3 DEF Finish, PopSlot
  <2> QED
    BY <2>1, SlotMoves
<1>4. ASSUME NEW t \in Turns, TurnStep(t), ~CreateConversation(t), ~RejectMedia(t),
             ~EnterFree(t), ~EnterQueue(t), ~Finish(t)
      PROVE  HandleLive'
  <2>1. /\ pc'[t] \in Registered
        /\ \A u \in Turns \ {t} : pc'[u] = pc[u]
        /\ UNCHANGED inFlight
    BY <1>4
       DEF TurnStep, Acquire, ReadHistory, AddUser, AddUserFails, Think, ThinkFails,
           AddAssistant, AddAssistantFails, Settle, SwallowCancel, InterruptWaiting,
           InterruptHolding, InterruptSending, LeaveTurn, Interrupted
  <2> QED
    BY <2>1
<1>5. ASSUME NEW s \in Stops, StopStep(s) PROVE HandleLive'
  <2>1. /\ \A u \in Turns : pc'[u] = pc[u]
        /\ inFlight' = [inFlight EXCEPT ![ChatOf[s]] = None] \/ UNCHANGED inFlight
    BY <1>5 DEF StopStep, StopTurn, NothingToStop
  <2> QED
    BY <2>1
<1>6. ASSUME NEW r \in Resets, ResetStep(r) PROVE HandleLive'
  <2>1. (\A u \in Turns : pc'[u] = pc[u]) /\ UNCHANGED inFlight
    BY <1>6 DEF ResetStep, ResetFinds, ResetMisses, ResetAmbiguous, ResetDrop,
                ResetInsert
  <2> QED
    BY <2>1
<1>7. CASE Restart
  BY <1>7 DEF Restart
<1>8. CASE UNCHANGED vars
  BY <1>8 DEF vars
<1> QED
  BY <1>1, <1>2, <1>3, <1>4, <1>5, <1>6, <1>7, <1>8 DEF Next, TurnStep

\* The slot of a chat never holds a turn that has ended, or another chat's:
\* /stop cancels a live turn of its own chat or nothing.
THEOREM LiveHandles == Spec => []HandleLive
<1>1. Init /\ TypeInv => HandleInv
  BY DEF Init, HandleInv, HandleLive, TypeInv, TypeOK
<1>2. HandleInv /\ [Next]_vars /\ TypeInv' => HandleInv'
  BY NextHandleLive DEF HandleInv
<1>3. HandleInv => HandleLive
  BY DEF HandleInv
<1> QED
  BY <1>1, <1>2, <1>3, TypeInvariant, PTL DEF Spec

-----------------------------------------------------------------------------
(* Replies that went out                                                    *)

\* A turn whose reply was produced is on its way out.
ReplyLeaves ==
    \A t \in Turns : result[t] = "reply" => pc[t] \in {"settle", "send", "done"}

ReplyInv == Inv /\ ReplyLeaves /\ ReplyRecorded

\* Where a turn's exchange stands in a sequence of messages.
Exchange(s, t) ==
    \E i \in DOMAIN s : i > 1 /\ s[i] = Assistant(t) /\ s[i - 1] = User(t)

\* An exchange stays where it is when the sequence grows.
LEMMA ExchangeKept ==
    ASSUME NEW s \in Seq(Message), NEW m \in Message, NEW t \in Turns, Exchange(s, t)
    PROVE  Exchange(Append(s, m), t)
<1>1. PICK i \in DOMAIN s : i > 1 /\ s[i] = Assistant(t) /\ s[i - 1] = User(t)
  BY DEF Exchange
<1>2. i \in 1 .. Len(s)
  BY LenProperties
<1>3. Append(s, m)[i] = s[i] /\ Append(s, m)[i - 1] = s[i - 1]
  BY <1>1, <1>2, AppendKeeps
<1>4. i \in DOMAIN Append(s, m)
  <2>1. Append(s, m) \in Seq(Message) /\ Len(Append(s, m)) = Len(s) + 1
    BY AppendProperties
  <2>2. DOMAIN Append(s, m) = 1 .. Len(s) + 1
    BY <2>1, LenProperties
  <2> QED
    BY <1>2, <2>2, LenProperties
<1> QED
  BY <1>1, <1>3, <1>4 DEF Exchange

\* A question followed by its answer is an exchange.
LEMMA ExchangeMade ==
    ASSUME NEW h \in Seq(Message), NEW t \in Turns
    PROVE  Exchange(Append(Append(h, User(t)), Assistant(t)), t)
<1> DEFINE q == Append(h, User(t))
           a == Append(q, Assistant(t))
<1>1. User(t) \in Message /\ Assistant(t) \in Message
  BY DEF User, Assistant, Message
<1>2. Len(h) \in Nat /\ q \in Seq(Message) /\ Len(q) = Len(h) + 1 /\ q[Len(h) + 1] = User(t)
  BY <1>1, AppendProperties, LenProperties
<1>3. /\ a \in Seq(Message)
      /\ Len(a) = Len(h) + 2
      /\ a[Len(h) + 2] = Assistant(t)
      /\ a[Len(h) + 1] = q[Len(h) + 1]
  <2> HIDE DEF q
  <2>1. /\ a \in Seq(Message)
        /\ Len(a) = Len(q) + 1
        /\ a[Len(q) + 1] = Assistant(t)
        /\ \A j \in 1 .. Len(q) : a[j] = q[j]
    BY <1>1, <1>2, AppendProperties
  <2> HIDE DEF a
  <2> QED
    BY <1>2, <2>1
<1> HIDE DEF q, a
<1>4. Len(h) + 2 \in DOMAIN a
  BY <1>2, <1>3, LenProperties
<1>5. Exchange(a, t)
  BY <1>2, <1>3, <1>4 DEF Exchange
<1> QED
  BY <1>5 DEF a, q

LEMMA NextReply == ReplyInv /\ [Next]_vars => ReplyLeaves' /\ ReplyRecorded'
<1> SUFFICES ASSUME ReplyInv, [Next]_vars PROVE ReplyLeaves' /\ ReplyRecorded'
  OBVIOUS
<1>a. ReplyRecorded <=>
        \A t \in Turns : result[t] = "reply" /\ Exists(conv[t]) => Exchange(log[conv[t]], t)
  BY DEF ReplyRecorded, Exchange
<1>b. ReplyRecorded' <=>
        \A t \in Turns :
            result'[t] = "reply" /\ Exists(conv[t])' => Exchange(log'[conv'[t]], t)
  BY DEF ReplyRecorded, Exchange
<1>c. TypeOK /\ IdsUsed /\ ConvKnown
  BY DEF ReplyInv, Inv, LockInv, RowInv, TypeInv
<1> USE TasksAssumption, ChatsAssumption
<1>1. ASSUME NEW t \in Turns, AddAssistant(t) PROVE ReplyLeaves' /\ ReplyRecorded'
  <2>1. /\ pc[t] = "answer" /\ pc'[t] = "settle"
        /\ \A u \in Turns \ {t} : pc'[u] = pc[u] /\ result'[u] = result[u]
        /\ UNCHANGED <<conv, rows>>
        /\ Exists(conv[t])
        /\ conv[t] \in ConvIds
        /\ log' = [log EXCEPT ![conv[t]] = Append(@, Assistant(t))]
    BY <1>1, <1>c DEF AddAssistant, LeaveTurn, Goto, TypeOK, Tasks, Exists
  <2>2. ReplyLeaves'
    BY <2>1 DEF ReplyInv, ReplyLeaves
  <2>3. Assistant(t) \in Message
    BY DEF Assistant, Message
  <2>4. Exchange(log'[conv[t]], t)
    <3>1. log[conv[t]] = Append(history[t], User(t))
      BY <2>1 DEF ReplyInv, Inv, ContextCurrent
    <3>2. log'[conv[t]] = Append(log[conv[t]], Assistant(t))
      BY <2>1, <1>c DEF TypeOK
    <3>3. history[t] \in Seq(Message)
      BY <1>c DEF TypeOK
    <3> QED
      BY <3>1, <3>2, <3>3, ExchangeMade
  <2>5. ASSUME NEW u \in Turns, u # t, result[u] = "reply", Exists(conv[u])
        PROVE  Exchange(log'[conv[u]], u)
    <3>1. Exchange(log[conv[u]], u)
      BY <2>5, <1>a DEF ReplyInv
    <3>2. conv[u] \in ConvIds /\ log[conv[u]] \in Seq(Message)
      BY <2>5, <1>c DEF Exists, TypeOK
    <3>3. CASE conv[u] = conv[t]
      BY <3>1, <3>2, <3>3, <2>1, <2>3, <1>c, ExchangeKept DEF TypeOK
    <3>4. CASE conv[u] # conv[t]
      BY <3>1, <3>2, <3>4, <2>1, <1>c DEF TypeOK
    <3> QED
      BY <3>3, <3>4
  <2>6. \A u \in Turns : Exists(conv[u])' <=> Exists(conv[u])
    BY <2>1 DEF Exists
  <2> QED
    BY <2>1, <2>2, <2>4, <2>5, <2>6, <1>b
<1>2. ASSUME NEW t \in Turns, AddUser(t) PROVE ReplyLeaves' /\ ReplyRecorded'
  <2>1. /\ pc[t] = "ask" /\ UNCHANGED result
        /\ \A u \in Turns \ {t} : pc'[u] = pc[u]
        /\ UNCHANGED <<conv, rows>>
        /\ log' = [log EXCEPT ![conv[t]] = Append(@, User(t))]
    BY <1>2, <1>c DEF AddUser, Goto, TypeOK, Tasks
  <2>2. ReplyLeaves'
    BY <2>1 DEF ReplyInv, ReplyLeaves
  <2>3. User(t) \in Message
    BY DEF User, Message
  <2>4. ASSUME NEW u \in Turns, result[u] = "reply", Exists(conv[u])
        PROVE  Exchange(log'[conv[u]], u)
    <3>1. Exchange(log[conv[u]], u)
      BY <2>4, <1>a DEF ReplyInv
    <3>2. conv[u] \in ConvIds /\ log[conv[u]] \in Seq(Message)
      BY <2>4, <1>c DEF Exists, TypeOK
    <3>3. CASE conv[u] = conv[t]
      BY <3>1, <3>2, <3>3, <2>1, <2>3, <1>c, ExchangeKept DEF TypeOK
    <3>4. CASE conv[u] # conv[t]
      BY <3>1, <3>2, <3>4, <2>1, <1>c DEF TypeOK
    <3> QED
      BY <3>3, <3>4
  <2>5. \A u \in Turns : Exists(conv[u])' <=> Exists(conv[u])
    BY <2>1 DEF Exists
  <2> QED
    BY <2>1, <2>2, <2>4, <2>5, <1>b
<1>3. ASSUME NEW t \in Turns \cup Resets, InsertRow(t),
             CreateConversation(t) \/ ResetInsert(t)
      PROVE  ReplyLeaves' /\ ReplyRecorded'
  <2>1. /\ UNCHANGED <<log, result>>
        /\ rows' = [rows EXCEPT ![lastConv + 1] = t]
        /\ lastConv \in Nat
        /\ \A u \in Turns :
              \/ pc'[u] = pc[u] /\ conv'[u] = conv[u]
              \/ pc[u] = "create"
    <3>1. CASE CreateConversation(t)
      BY <1>3, <3>1, <1>c DEF InsertRow, CreateConversation, Goto, TypeOK, Tasks
    <3>2. CASE ResetInsert(t)
      <4>1. pc[t] = "insert" /\ pc' = [pc EXCEPT ![t] = "done"] /\ UNCHANGED conv
        BY <3>2 DEF ResetInsert, Goto
      <4>2. t \notin Turns
        BY <4>1, <1>c DEF TypeOK, TurnPC, Registered, Holding
      <4> QED
        BY <1>3, <3>2, <4>1, <4>2, <1>c DEF InsertRow, ResetInsert, TypeOK, Tasks
    <3> QED
      BY <1>3, <3>1, <3>2
  <2>2. ReplyLeaves'
    BY <2>1 DEF ReplyInv, ReplyLeaves
  <2>3. ASSUME NEW u \in Turns, result'[u] = "reply", Exists(conv[u])'
        PROVE  Exchange(log'[conv'[u]], u)
    <3>1. pc[u] # "create" /\ result[u] = "reply"
      BY <2>1, <2>3 DEF ReplyInv, ReplyLeaves
    <3>2. conv[u] \in Nat /\ conv[u] <= lastConv /\ conv'[u] = conv[u]
      BY <1>c, <2>1, <3>1 DEF TypeOK, IdsUsed
    <3>3. Exists(conv[u])
      BY <2>1, <2>3, <3>2, <1>c DEF Exists, TypeOK
    <3> QED
      BY <2>1, <3>1, <3>2, <3>3, <1>a DEF ReplyInv
  <2> QED
    BY <2>2, <2>3, <1>b
<1>4. ASSUME NEW r \in Resets, ResetDrop(r) PROVE ReplyLeaves' /\ ReplyRecorded'
  <2>1. /\ UNCHANGED <<result, conv>>
        /\ \A u \in Turns : pc'[u] = pc[u]
        /\ rows' = [rows EXCEPT ![conv[r]] = None]
        /\ log' = [log EXCEPT ![conv[r]] = <<>>]
    BY <1>4, <1>c DEF ResetDrop, DeleteRow, Goto, TypeOK, Tasks
  <2>2. ReplyLeaves'
    BY <2>1 DEF ReplyInv, ReplyLeaves
  <2>3. \A u \in Turns : Exists(conv[u])' => Exists(conv[u]) /\ log'[conv[u]] = log[conv[u]]
    BY <2>1, <1>c DEF Exists, TypeOK
  <2> QED
    BY <2>1, <2>2, <2>3, <1>a, <1>b DEF ReplyInv
<1>5. ASSUME NEW t \in Turns, Arrive(t) \/ TurnStep(t),
             ~CreateConversation(t), ~AddUser(t), ~AddAssistant(t)
      PROVE  ReplyLeaves' /\ ReplyRecorded'
  <2>1. /\ UNCHANGED <<rows, log>>
        /\ \A u \in Turns \ {t} : UNCHANGED <<pc[u], conv[u], result[u]>>
        /\ \/ result'[t] # "reply"
           \/ pc[t] = "idle" /\ result'[t] = result[t]
           \/ /\ UNCHANGED <<conv[t], result[t]>>
              /\ pc[t] \in {"settle", "send"} => pc'[t] \in {"settle", "send", "done"}
    BY <1>5, <1>c
       DEF Arrive, TurnStep, FindConversation, MissConversation,
           AmbiguousConversation, RejectMedia, EnterFree, EnterQueue, Acquire,
           ReadHistory, AddUserFails, Think, ThinkFails, AddAssistantFails, Settle,
           SwallowCancel, Finish, InterruptWaiting, InterruptHolding,
           InterruptSending, LeaveTurn, Interrupted, Goto, db, TypeOK, Tasks
  <2>2. pc[t] # "done"
    BY <1>5 DEF Arrive, TurnStep, FindConversation, MissConversation,
           AmbiguousConversation, RejectMedia, EnterFree, EnterQueue, Acquire,
           ReadHistory, AddUserFails, Think, ThinkFails, AddAssistantFails, Settle,
           SwallowCancel, Finish, InterruptWaiting, InterruptHolding,
           InterruptSending, LeaveTurn, Interrupted, Goto, Holding
  <2>3. \A u \in Turns : result'[u] = "reply" =>
            /\ result[u] = "reply" /\ conv'[u] = conv[u]
            /\ pc'[u] \in {"settle", "send", "done"}
    BY <2>1, <2>2 DEF ReplyInv, ReplyLeaves
  <2>4. ReplyLeaves'
    BY <2>3 DEF ReplyLeaves
  <2>5. ASSUME NEW u \in Turns, result'[u] = "reply", Exists(conv[u])'
        PROVE  Exchange(log'[conv'[u]], u)
    BY <2>1, <2>3, <2>5, <1>a DEF ReplyInv, Exists
  <2> QED
    BY <2>4, <2>5, <1>b
<1>6. CASE \/ \E s \in Stops : StopStep(s)
           \/ \E r \in Resets : ResetFinds(r) \/ ResetMisses(r) \/ ResetAmbiguous(r)
           \/ Restart
           \/ UNCHANGED vars
  <2>1. /\ UNCHANGED <<rows, log>>
        /\ \A u \in Turns : conv'[u] = conv[u]
        /\ \A u \in Turns : result'[u] = "reply" => result[u] = "reply" /\ pc'[u] = pc[u]
    <3>1. CASE \E s \in Stops : StopStep(s)
      BY <3>1, <1>c DEF StopStep, StopTurn, NothingToStop, Goto, db, TypeOK, Tasks
    <3>2. CASE \E r \in Resets : ResetFinds(r) \/ ResetMisses(r) \/ ResetAmbiguous(r)
      BY <3>2, <1>c DEF ResetFinds, ResetMisses, ResetAmbiguous, Goto, db, TypeOK, Tasks
    <3>3. CASE Restart
      BY <3>3, <1>c DEF Restart, db, TypeOK, Tasks
    <3>4. CASE UNCHANGED vars
      BY <3>4 DEF vars
    <3> QED
      BY <1>6, <3>1, <3>2, <3>3, <3>4
  <2>2. ReplyLeaves'
    BY <2>1 DEF ReplyInv, ReplyLeaves
  <2>3. ASSUME NEW u \in Turns, result'[u] = "reply", Exists(conv[u])'
        PROVE  Exchange(log'[conv'[u]], u)
    BY <2>1, <2>3, <1>a DEF ReplyInv, Exists
  <2> QED
    BY <2>2, <2>3, <1>b
<1>7. ASSUME NEW t \in Turns, Arrive(t) \/ TurnStep(t) PROVE ReplyLeaves' /\ ReplyRecorded'
  BY <1>7, <1>1, <1>2, <1>3, <1>5 DEF CreateConversation
<1>8. ASSUME NEW r \in Resets, ResetStep(r) PROVE ReplyLeaves' /\ ReplyRecorded'
  BY <1>8, <1>3, <1>4, <1>6 DEF ResetStep, ResetInsert
<1> QED
  BY <1>6, <1>7, <1>8 DEF Next

\* A reply that goes out stands in the transcript right after its question,
\* unless /new has dropped the conversation.
THEOREM RecordedReplies == Spec => []ReplyRecorded
<1>1. Init /\ Inv => ReplyInv
  BY DEF Init, ReplyInv, ReplyLeaves, ReplyRecorded
<1>2. ReplyInv /\ [Next]_vars /\ Inv' => ReplyInv'
  BY NextReply DEF ReplyInv
<1>3. ReplyInv => ReplyRecorded
  BY DEF ReplyInv
<1> QED
  BY <1>1, <1>2, <1>3, Invariant, PTL DEF Spec

-----------------------------------------------------------------------------
(* The order of the waiters                                                 *)

Queued(t, q) == \E i \in DOMAIN q : q[i] = t

\* Joining a queue, leaving it at the head and leaving it anywhere keep the others.
LEMMA AppendQueued ==
    ASSUME NEW q \in Seq(Turns), NEW t \in Turns
    PROVE  /\ Queued(t, Append(q, t))
           /\ \A u \in Turns : Queued(u, q) => Queued(u, Append(q, t))
<1>1. /\ Len(q) \in Nat /\ DOMAIN q = 1 .. Len(q)
      /\ Append(q, t) \in Seq(Turns) /\ Len(Append(q, t)) = Len(q) + 1
      /\ Append(q, t)[Len(q) + 1] = t
      /\ \A i \in 1 .. Len(q) : Append(q, t)[i] = q[i]
  BY AppendProperties, LenProperties
<1>2. DOMAIN Append(q, t) = 1 .. Len(q) + 1
  BY <1>1, LenProperties
<1>3. Queued(t, Append(q, t))
  BY <1>1, <1>2 DEF Queued
<1>4. ASSUME NEW u \in Turns, Queued(u, q) PROVE Queued(u, Append(q, t))
  <2>1. PICK i \in 1 .. Len(q) : q[i] = u
    BY <1>1, <1>4 DEF Queued
  <2> QED
    BY <1>1, <1>2, <2>1 DEF Queued
<1> QED
  BY <1>3, <1>4

LEMMA TailQueued ==
    ASSUME NEW q \in Seq(Turns), q # <<>>, NEW u \in Turns, Queued(u, q), Head(q) # u
    PROVE  Queued(u, Tail(q))
<1>1. Len(q) \in Nat /\ DOMAIN q = 1 .. Len(q)
  BY LenProperties
<1>2. /\ Tail(q) \in Seq(Turns)
      /\ Len(Tail(q)) = Len(q) - 1
      /\ \A i \in 1 .. Len(Tail(q)) : Tail(q)[i] = q[i + 1]
  BY HeadTailProperties
<1>3. PICK i \in 1 .. Len(q) : q[i] = u
  BY <1>1 DEF Queued
<1>4. i # 1
  <2>1. Head(q) = q[1]
    OBVIOUS
  <2> QED
    BY <1>3, <2>1
<1>5. DOMAIN Tail(q) = 1 .. Len(q) - 1
  BY <1>2, LenProperties
<1>6. i - 1 \in 1 .. Len(Tail(q)) /\ (i - 1) + 1 = i
  BY <1>1, <1>2, <1>3, <1>4
<1>7. Tail(q)[i - 1] = u
  BY <1>2, <1>3, <1>6
<1> QED
  BY <1>2, <1>5, <1>6, <1>7 DEF Queued

LEMMA RemoveQueued ==
    ASSUME NEW q \in Seq(Turns), NEW i \in DOMAIN q, NEW u \in Turns,
           Queued(u, q), q[i] # u
    PROVE  Queued(u, RemoveAt(q, i))
<1> DEFINE a == SubSeq(q, 1, i - 1)
           b == SubSeq(q, i + 1, Len(q))
<1>1. Len(q) \in Nat /\ i \in 1 .. Len(q) /\ DOMAIN q = 1 .. Len(q)
  BY LenProperties
<1>2. PICK j \in 1 .. Len(q) : q[j] = u
  BY <1>1 DEF Queued
<1>3. \A k \in 1 .. Len(q) : q[k] \in Turns
  BY ElementOfSeq
<1>4. /\ a \in Seq(Turns) /\ Len(a) = i - 1
      /\ \A k \in 1 .. i - 1 : a[k] = q[k]
  <2>1. \A k \in 1 .. i - 1 : q[k] \in Turns
    BY <1>1, <1>3
  <2>2. /\ SubSeq(q, 1, i - 1) \in Seq(Turns)
        /\ Len(SubSeq(q, 1, i - 1)) = IF 1 <= i - 1 THEN (i - 1) - 1 + 1 ELSE 0
        /\ \A k \in 1 .. (i - 1) - 1 + 1 : SubSeq(q, 1, i - 1)[k] = q[1 + k - 1]
    BY <1>1, <2>1, SubSeqProperties
  <2> HIDE DEF a
  <2> QED
    BY <1>1, <2>2 DEF a
<1>5. /\ b \in Seq(Turns) /\ Len(b) = Len(q) - i
      /\ \A k \in 1 .. Len(q) - i : b[k] = q[i + k]
  <2>1. \A k \in i + 1 .. Len(q) : q[k] \in Turns
    BY <1>1, <1>3
  <2>2. /\ b \in Seq(Turns)
        /\ Len(b) = IF i + 1 <= Len(q) THEN Len(q) - (i + 1) + 1 ELSE 0
        /\ \A k \in 1 .. Len(q) - (i + 1) + 1 : b[k] = q[(i + 1) + k - 1]
    BY <1>1, <2>1, SubSeqProperties
  <2> HIDE DEF b
  <2>3. \A k \in 1 .. Len(q) - i : (i + 1) + k - 1 = i + k
    BY <1>1
  <2> QED
    BY <1>1, <2>2, <2>3
<1>6. RemoveAt(q, i) = a \o b
  BY DEF RemoveAt
<1> HIDE DEF a, b
<1>7. /\ a \o b \in Seq(Turns)
      /\ Len(a \o b) = Len(q) - 1
      /\ \A k \in 1 .. Len(q) - 1 : (a \o b)[k] = IF k <= i - 1 THEN a[k] ELSE b[k - (i - 1)]
  <2>1. /\ a \o b \in Seq(Turns)
        /\ Len(a \o b) = Len(a) + Len(b)
        /\ \A k \in 1 .. Len(a) + Len(b) :
              (a \o b)[k] = IF k <= Len(a) THEN a[k] ELSE b[k - Len(a)]
    BY <1>4, <1>5, ConcatProperties
  <2>2. Len(a) + Len(b) = Len(q) - 1
    BY <1>1, <1>4, <1>5
  <2> QED
    BY <1>4, <2>1, <2>2
<1>8. DOMAIN (a \o b) = 1 .. Len(q) - 1
  BY <1>7, LenProperties
<1>9. CASE j < i
  <2>1. j \in 1 .. Len(q) - 1 /\ j \in 1 .. i - 1
    BY <1>1, <1>2, <1>9
  <2>2. (a \o b)[j] = u
    BY <1>2, <1>4, <1>7, <2>1
  <2> QED
    BY <1>6, <1>8, <2>1, <2>2 DEF Queued
<1>10. CASE j > i
  <2>1. /\ j - 1 \in 1 .. Len(q) - 1 /\ ~(j - 1 <= i - 1)
        /\ (j - 1) - (i - 1) = j - i /\ j - i \in 1 .. Len(q) - i /\ i + (j - i) = j
    BY <1>1, <1>2, <1>10
  <2>2. (a \o b)[j - 1] = b[j - i]
    BY <1>7, <2>1
  <2>3. b[j - i] = u
    BY <1>2, <1>5, <2>1
  <2> QED
    BY <1>6, <1>8, <2>1, <2>2, <2>3 DEF Queued
<1> QED
  BY <1>1, <1>2, <1>9, <1>10

\* A turn that waits is among the waiters of its conversation's lock.
WaitersQueued == \A t \in Turns : pc[t] = "wait" => Queued(t, queue[conv[t]])

QueueInv == TypeInv /\ WaitersQueued

LEMMA NextWaitersQueued == QueueInv /\ [Next]_vars => WaitersQueued'
<1> SUFFICES ASSUME QueueInv, [Next]_vars PROVE WaitersQueued'
  OBVIOUS
<1>a. TypeOK /\ ConvKnown
  BY DEF QueueInv, TypeInv
<1>b. /\ queue \in [ConvIds -> Seq(Turns)]
      /\ pc \in [Tasks -> TurnPC \cup ResetPC]
      /\ conv \in [Turns \cup Resets -> 0 .. MaxConv]
      /\ \A t \in Turns : pc[t] \in Registered \cup {"media"} => conv[t] \in ConvIds
      /\ \A t \in Turns : pc[t] = "wait" => conv[t] \in ConvIds
  BY <1>a DEF TypeOK, ConvKnown, Registered
<1> USE TasksAssumption
<1>1. ASSUME NEW t \in Turns, EnterQueue(t) PROVE WaitersQueued'
  <2>1. /\ conv[t] \in ConvIds
        /\ \A u \in Turns \ {t} : pc'[u] = pc[u]
        /\ UNCHANGED conv
        /\ queue' = [queue EXCEPT ![conv[t]] = Append(@, t)]
    BY <1>1, <1>b DEF EnterQueue, Goto, Tasks
  <2>2. ASSUME NEW u \in Turns, pc'[u] = "wait" PROVE Queued(u, queue'[conv[u]])
    <3>1. CASE u = t
      BY <3>1, <2>1, <1>b, AppendQueued
    <3>2. CASE u # t /\ conv[u] = conv[t]
      BY <3>2, <2>1, <2>2, <1>b, AppendQueued DEF QueueInv, WaitersQueued
    <3>3. CASE u # t /\ conv[u] # conv[t]
      BY <3>3, <2>1, <2>2, <1>b DEF QueueInv, WaitersQueued
    <3> QED
      BY <3>1, <3>2, <3>3
  <2> QED
    BY <2>1, <2>2 DEF WaitersQueued
<1>2. ASSUME NEW t \in Turns, Acquire(t) PROVE WaitersQueued'
  <2>1. /\ conv[t] \in ConvIds
        /\ pc'[t] = "read"
        /\ \A u \in Turns \ {t} : pc'[u] = pc[u]
        /\ UNCHANGED conv
        /\ queue[conv[t]] # <<>> /\ Head(queue[conv[t]]) = t
        /\ queue' = [queue EXCEPT ![conv[t]] = Tail(@)]
    BY <1>2, <1>b DEF Acquire, Goto, Tasks
  <2>2. ASSUME NEW u \in Turns, pc'[u] = "wait" PROVE Queued(u, queue'[conv[u]])
    <3>1. u # t /\ pc[u] = "wait" /\ Queued(u, queue[conv[u]]) /\ conv[u] \in ConvIds
      BY <2>1, <2>2, <1>b DEF QueueInv, WaitersQueued
    <3>2. CASE conv[u] = conv[t]
      BY <3>1, <3>2, <2>1, <1>b, TailQueued
    <3>3. CASE conv[u] # conv[t]
      BY <3>1, <3>3, <2>1, <1>b
    <3> QED
      BY <3>2, <3>3
  <2> QED
    BY <2>1, <2>2 DEF WaitersQueued
<1>3. ASSUME NEW t \in Turns, InterruptWaiting(t) PROVE WaitersQueued'
  <2>1. PICK i \in DOMAIN queue[conv[t]] :
            /\ queue[conv[t]][i] = t
            /\ queue' = [queue EXCEPT ![conv[t]] = RemoveAt(@, i)]
    BY <1>3 DEF InterruptWaiting
  <2>2. /\ conv[t] \in ConvIds
        /\ pc'[t] = "notice"
        /\ \A u \in Turns \ {t} : pc'[u] = pc[u]
        /\ UNCHANGED conv
    BY <1>3, <1>b DEF InterruptWaiting, Interrupted, Goto, Tasks
  <2>3. ASSUME NEW u \in Turns, pc'[u] = "wait" PROVE Queued(u, queue'[conv[u]])
    <3>1. u # t /\ pc[u] = "wait" /\ Queued(u, queue[conv[u]]) /\ conv[u] \in ConvIds
      BY <2>2, <2>3, <1>b DEF QueueInv, WaitersQueued
    <3>2. CASE conv[u] = conv[t]
      BY <3>1, <3>2, <2>1, <2>2, <1>b, RemoveQueued
    <3>3. CASE conv[u] # conv[t]
      BY <3>1, <3>3, <2>1, <2>2, <1>b
    <3> QED
      BY <3>2, <3>3
  <2> QED
    BY <2>2, <2>3 DEF WaitersQueued
<1>4. ASSUME NEW t \in Turns, Arrive(t) \/ TurnStep(t),
             ~EnterQueue(t), ~Acquire(t), ~InterruptWaiting(t)
      PROVE  WaitersQueued'
  <2>1. /\ pc'[t] # "wait"
        /\ \A u \in Turns \ {t} : pc'[u] = pc[u] /\ conv'[u] = conv[u]
        /\ UNCHANGED queue
    BY <1>4, <1>b
       DEF Arrive, TurnStep, FindConversation, MissConversation,
           AmbiguousConversation, CreateConversation, RejectMedia, EnterFree,
           ReadHistory, AddUser, AddUserFails, Think, ThinkFails, AddAssistant,
           AddAssistantFails, Settle, SwallowCancel, Finish, InterruptHolding,
           InterruptSending, LeaveTurn, Release, Interrupted, Goto, locks, Tasks
  <2> QED
    BY <2>1 DEF QueueInv, WaitersQueued
<1>5. ASSUME NEW r \in Resets, ResetStep(r) PROVE WaitersQueued'
  <2>1. r \notin Turns
    BY TasksAssumption
  <2>2. /\ \A u \in Turns : pc'[u] = pc[u] /\ conv'[u] = conv[u]
        /\ UNCHANGED queue
    BY <1>5, <1>b, <2>1
       DEF ResetStep, ResetFinds, ResetMisses, ResetAmbiguous, ResetDrop, ResetInsert,
           Goto, locks, Tasks
  <2> QED
    BY <2>2 DEF QueueInv, WaitersQueued
<1>6. ASSUME NEW s \in Stops, StopStep(s) PROVE WaitersQueued'
  <2>1. /\ \A u \in Turns : pc'[u] = pc[u]
        /\ UNCHANGED <<conv, queue>>
    BY <1>6, <1>b DEF StopStep, StopTurn, NothingToStop, Goto, locks, Tasks
  <2> QED
    BY <2>1 DEF QueueInv, WaitersQueued
<1>7. CASE Restart
  <2>1. \A u \in Turns : pc'[u] # "wait"
    BY <1>7 DEF Restart, Tasks
  <2> QED
    BY <2>1 DEF WaitersQueued
<1>8. CASE UNCHANGED vars
  BY <1>8 DEF vars, QueueInv, WaitersQueued
<1> QED
  BY <1>1, <1>2, <1>3, <1>4, <1>5, <1>6, <1>7, <1>8 DEF Next

LEMMA QueueInvariant == Spec => []QueueInv
<1>1. Init /\ TypeInv => QueueInv
  BY DEF Init, QueueInv, WaitersQueued, Tasks
<1>2. QueueInv /\ [Next]_vars /\ TypeInv' => QueueInv'
  BY NextWaitersQueued DEF QueueInv
<1> QED
  BY <1>1, <1>2, TypeInvariant, PTL DEF Spec

\* Messages of a conversation enter in the order they came: no newcomer takes
\* the lock while one that has not been stopped waits for it.
THEOREM FirstComeFirstServed == Spec => NoOvertaking
<1> DEFINE Ordered ==
        \A t, u \in Turns :
            pc[t] = "wait" /\ t \notin cancelled /\ conv[u] = conv[t] /\ pc[u] = "media"
              => pc'[u] # "read"
<1>1. QueueInv /\ [Next]_vars => [Ordered]_vars
  <2> SUFFICES ASSUME QueueInv, Next, NEW t \in Turns, NEW u \in Turns,
                      pc[t] = "wait", conv[u] = conv[t], pc[u] = "media"
               PROVE  pc'[u] # "read"
    OBVIOUS
  <2>1. Queued(t, queue[conv[u]]) /\ pc \in [Tasks -> TurnPC \cup ResetPC]
    BY DEF QueueInv, WaitersQueued, TypeInv, TypeOK
  <2>2. queue[conv[u]] # <<>>
    <3>1. DOMAIN <<>> = {}
      BY EmptySeq, LenProperties
    <3> QED
      BY <2>1, <3>1 DEF Queued
  <2>3. ASSUME NEW v \in Turns, Arrive(v) \/ TurnStep(v) PROVE pc'[u] # "read"
    <3>1. \/ pc'[u] = pc[u]
          \/ v = u /\ ~EnterFree(v)
      <4>1. CASE v = u
        BY <4>1, <2>2 DEF EnterFree
      <4>2. CASE v # u
        BY <4>2, <2>1, <2>3
           DEF Arrive, TurnStep, FindConversation, MissConversation,
               AmbiguousConversation, CreateConversation, RejectMedia, EnterFree,
               EnterQueue, Acquire, ReadHistory, AddUser, AddUserFails, Think,
               ThinkFails, AddAssistant, AddAssistantFails, Settle, SwallowCancel,
               Finish, InterruptWaiting, InterruptHolding, InterruptSending,
               LeaveTurn, Goto, Tasks
      <4> QED
        BY <4>1, <4>2
    <3>2. CASE v = u /\ ~EnterFree(v)
      BY <3>2, <2>1, <2>3
         DEF Arrive, TurnStep, FindConversation, MissConversation,
             AmbiguousConversation, CreateConversation, RejectMedia,
             EnterQueue, Acquire, ReadHistory, AddUser, AddUserFails, Think,
             ThinkFails, AddAssistant, AddAssistantFails, Settle, SwallowCancel,
             Finish, InterruptWaiting, InterruptHolding, InterruptSending,
             LeaveTurn, Goto, Holding, Tasks
    <3> QED
      BY <3>1, <3>2
  <2>4. CASE \/ \E s \in Stops : StopStep(s)
             \/ \E r \in Resets : ResetStep(r)
             \/ Restart
    BY <2>1, <2>4, TasksAssumption
       DEF StopStep, StopTurn, NothingToStop, ResetStep, ResetFinds, ResetMisses,
           ResetAmbiguous, ResetDrop, ResetInsert, Restart, Goto, Tasks
  <2> QED
    BY <2>3, <2>4 DEF Next
<1> QED
  BY <1>1, QueueInvariant, PTL DEF Spec, NoOvertaking

-----------------------------------------------------------------------------
(* The transcript it implements                                             *)

\* The holder of a lock is a turn of that conversation, at work inside it.
HolderConv ==
    \A c \in ConvIds : holder[c] # None => conv[holder[c]] = c /\ pc[holder[c]] \in Holding

RefInv == LockInv /\ RowInv /\ HolderConv

LEMMA NextHolderConv == RefInv /\ [Next]_vars => HolderConv'
<1> SUFFICES ASSUME RefInv, [Next]_vars PROVE HolderConv'
  OBVIOUS
<1>a. /\ pc \in [Tasks -> TurnPC \cup ResetPC]
      /\ conv \in [Turns \cup Resets -> 0 .. MaxConv]
      /\ holder \in [ConvIds -> Turns \cup {None}]
      /\ \A t \in Turns : pc[t] \in Registered \cup {"media"} => conv[t] \in ConvIds
      /\ \A c \in ConvIds : holder[c] # None =>
            holder[c] \in Turns /\ conv[holder[c]] = c /\ pc[holder[c]] \in Holding
      /\ \A t \in Turns : pc[t] \in Holding => holder[conv[t]] = t
  BY DEF RefInv, LockInv, TypeInv, TypeOK, ConvKnown, HolderConv, HolderInside
<1> USE TasksAssumption
<1>1. ASSUME NEW t \in Turns, EnterFree(t) \/ Acquire(t) PROVE HolderConv'
  <2>1. /\ pc[t] \notin Holding /\ pc'[t] \in Holding
        /\ \A u \in Turns \ {t} : pc'[u] = pc[u]
        /\ UNCHANGED conv
        /\ holder' = [holder EXCEPT ![conv[t]] = t]
    BY <1>1, <1>a DEF EnterFree, Acquire, Goto, Tasks, Holding
  <2> QED
    BY <2>1, <1>a DEF HolderConv
<1>2. ASSUME NEW t \in Turns,
             \/ AddUserFails(t) \/ ThinkFails(t) \/ AddAssistant(t)
             \/ AddAssistantFails(t) \/ InterruptHolding(t)
      PROVE  HolderConv'
  <2>1. /\ pc[t] \in Holding
        /\ \A u \in Turns \ {t} : pc'[u] = pc[u]
        /\ UNCHANGED conv
        /\ holder' = [holder EXCEPT ![conv[t]] = None]
    BY <1>2, <1>a DEF AddUserFails, ThinkFails, AddAssistant, AddAssistantFails,
                InterruptHolding, LeaveTurn, Release, Interrupted, Goto, Tasks, Holding
  <2>2. conv[t] \in ConvIds
    BY <2>1, <1>a DEF Registered
  <2> QED
    BY <2>1, <2>2, <1>a DEF HolderConv
<1>3. ASSUME NEW t \in Turns, ReadHistory(t) \/ AddUser(t) \/ Think(t) PROVE HolderConv'
  <2>1. /\ pc'[t] \in Holding
        /\ \A u \in Turns \ {t} : pc'[u] = pc[u]
        /\ UNCHANGED <<conv, holder>>
    BY <1>3, <1>a DEF ReadHistory, AddUser, Think, Goto, locks, Tasks, Holding
  <2> QED
    BY <2>1, <1>a DEF HolderConv
<1>4. ASSUME NEW t \in Turns,
             \/ Arrive(t) \/ CreateConversation(t) \/ RejectMedia(t) \/ EnterQueue(t)
             \/ Settle(t) \/ SwallowCancel(t) \/ Finish(t)
             \/ InterruptWaiting(t) \/ InterruptSending(t)
      PROVE  HolderConv'
  <2>1. /\ pc[t] \notin Holding
        /\ \A u \in Turns \ {t} : pc'[u] = pc[u] /\ conv'[u] = conv[u]
        /\ UNCHANGED holder
    BY <1>4, <1>a
       DEF Arrive, FindConversation, MissConversation, AmbiguousConversation,
           CreateConversation, RejectMedia, EnterQueue, Settle, SwallowCancel, Finish,
           InterruptWaiting, InterruptSending, Interrupted, Goto, locks, Tasks, Holding
  <2> QED
    BY <2>1, <1>a DEF HolderConv
<1>5. ASSUME NEW r \in Resets, ResetStep(r) PROVE HolderConv'
  <2>1. r \notin Turns
    BY TasksAssumption
  <2>2. /\ \A u \in Turns : pc'[u] = pc[u] /\ conv'[u] = conv[u]
        /\ UNCHANGED holder
    BY <1>5, <1>a, <2>1
       DEF ResetStep, ResetFinds, ResetMisses, ResetAmbiguous, ResetDrop, ResetInsert,
           Goto, locks, Tasks
  <2> QED
    BY <2>2, <1>a DEF HolderConv
<1>6. ASSUME NEW s \in Stops, StopStep(s) PROVE HolderConv'
  <2>1. /\ \A u \in Turns : pc'[u] = pc[u]
        /\ UNCHANGED <<conv, holder>>
    BY <1>6, <1>a DEF StopStep, StopTurn, NothingToStop, Goto, locks, Tasks
  <2> QED
    BY <2>1, <1>a DEF HolderConv
<1>7. CASE Restart
  BY <1>7 DEF Restart, HolderConv
<1>8. CASE UNCHANGED vars
  BY <1>8, <1>a DEF vars, HolderConv
<1> QED
  BY <1>1, <1>2, <1>3, <1>4, <1>5, <1>6, <1>7, <1>8 DEF Next, TurnStep

LEMMA RefInvariant == Spec => []RefInv
<1>1. Init /\ LockInv /\ RowInv => RefInv
  BY DEF Init, RefInv, HolderConv
<1>2. RefInv /\ [Next]_vars /\ LockInv' /\ RowInv' => RefInv'
  BY NextHolderConv DEF RefInv
<1> QED
  BY <1>1, <1>2, LockInvariant, RowInvariant, PTL DEF Spec

\* A step that touches no row and no message, and moves no turn of a lock
\* between asking and not asking, is invisible to the reader.
LEMMA Invisible ==
    ASSUME RefInv, UNCHANGED <<rows, lastConv, log>>,
           \A c \in ConvIds : AbstractOpen'[c] = AbstractOpen[c]
    PROVE  UNCHANGED T!vars
<1>1. UNCHANGED AbstractStatus
  BY DEF AbstractStatus, Exists
<1>2. UNCHANGED AbstractOpen
  BY DEF AbstractOpen
<1> QED
  BY <1>1, <1>2 DEF T!vars

\* A row inserted is a conversation created.
LEMMA InsertCreates ==
    ASSUME RefInv, NEW t \in Turns \cup Resets, InsertRow(t),
           \A c \in ConvIds : AbstractOpen'[c] = AbstractOpen[c]
    PROVE  T!Next
<1> DEFINE c == lastConv + 1
<1> USE TasksAssumption, ChatsAssumption
<1>1. /\ lastConv \in Nat /\ c \in ConvIds
      /\ rows \in [ConvIds -> Turns \cup Resets \cup {None}]
      /\ rows' = [rows EXCEPT ![c] = t] /\ t # None
      /\ lastConv' = c /\ UNCHANGED log
      /\ \A d \in ConvIds : rows[d] # None => d <= lastConv
  BY DEF RefInv, RowInv, TypeInv, TypeOK, IdsUsed, InsertRow, ConvIds, Tasks
<1>2. AbstractStatus[c] = "unused"
  BY <1>1 DEF AbstractStatus, Exists
<1>3. AbstractStatus' = [AbstractStatus EXCEPT ![c] = "live"]
  <2>1. ASSUME NEW d \in ConvIds, d # c PROVE AbstractStatus'[d] = AbstractStatus[d]
    <3>1. Exists(d)' <=> Exists(d)
      BY <1>1, <2>1 DEF Exists
    <3>2. d <= lastConv' <=> d <= lastConv
      BY <1>1, <2>1 DEF ConvIds
    <3> QED
      BY <3>1, <3>2 DEF AbstractStatus
  <2>2. AbstractStatus'[c] = "live"
    BY <1>1 DEF AbstractStatus, Exists
  <2> QED
    BY <1>1, <2>1, <2>2 DEF AbstractStatus
<1>4. UNCHANGED AbstractOpen
  BY DEF AbstractOpen
<1>5. T!Create(c)
  BY <1>1, <1>2, <1>3, <1>4 DEF T!Create
<1> QED
  BY <1>1, <1>5 DEF T!Next

\* A row deleted is a conversation dropped, once.
LEMMA DeleteDrops ==
    ASSUME RefInv, NEW r \in Resets, ResetDrop(r)
    PROVE  [T!Next]_T!vars
<1> DEFINE c == conv[r]
<1> USE TasksAssumption, ChatsAssumption
<1>1. /\ c \in ConvIds
      /\ rows \in [ConvIds -> Turns \cup Resets \cup {None}]
      /\ log \in [ConvIds -> Seq(Message)]
      /\ rows' = [rows EXCEPT ![c] = None]
      /\ log' = [log EXCEPT ![c] = <<>>]
      /\ UNCHANGED <<lastConv, holder>>
      /\ \A u \in Turns : pc'[u] = pc[u]
  BY DEF RefInv, RowInv, TypeInv, TypeOK, ConvKnown, ResetDrop, DeleteRow, Goto, Tasks,
         locks
<1>2. \A d \in ConvIds : holder[d] # None => holder[d] \in Turns
  BY DEF RefInv, RowInv, TypeInv, TypeOK
<1>3. UNCHANGED AbstractOpen
  BY <1>1, <1>2 DEF AbstractOpen, Asking
<1>4. CASE Exists(c)
  <2>1. AbstractStatus[c] = "live"
    BY <1>1, <1>4 DEF AbstractStatus
  <2>2. c <= lastConv
    BY <1>1, <1>4 DEF Exists, RefInv, RowInv, IdsUsed
  <2>3. AbstractStatus' = [AbstractStatus EXCEPT ![c] = "dropped"]
    BY <1>1, <2>2 DEF AbstractStatus, Exists
  <2>4. T!Drop(c)
    BY <1>1, <1>3, <2>1, <2>3 DEF T!Drop
  <2> QED
    BY <1>1, <2>4 DEF T!Next
<1>5. CASE ~Exists(c)
  <2>1. UNCHANGED rows
    BY <1>1, <1>5 DEF Exists
  <2>2. UNCHANGED log
    BY <1>1, <1>5 DEF Exists, RefInv, RowInv, EmptyWithoutRow
  <2> QED
    BY <1>1, <1>3, <2>1, <2>2, Invisible
<1> QED
  BY <1>4, <1>5

\* Inside the lock, what one turn does is seen in its own conversation only.
LEMMA OwnConversation ==
    ASSUME RefInv, NEW t \in Turns, pc[t] \in Holding, UNCHANGED conv,
           \A u \in Turns \ {t} : pc'[u] = pc[u],
           \A d \in ConvIds \ {conv[t]} : holder'[d] = holder[d]
    PROVE  /\ conv[t] \in ConvIds /\ holder[conv[t]] = t /\ t # None
           /\ \A d \in ConvIds \ {conv[t]} : AbstractOpen'[d] = AbstractOpen[d]
<1> USE TasksAssumption
<1>1. conv[t] \in ConvIds /\ holder[conv[t]] = t /\ t # None
  BY DEF RefInv, LockInv, TypeInv, ConvKnown, Registered, HolderInside, Tasks
<1>2. ASSUME NEW d \in ConvIds \ {conv[t]} PROVE AbstractOpen'[d] = AbstractOpen[d]
  <2>1. holder[d] # None => holder[d] \in Turns \ {t}
    BY <1>2 DEF RefInv, LockInv, TypeInv, TypeOK, HolderConv
  <2> QED
    BY <2>1, <1>2 DEF AbstractOpen, Asking
<1> QED
  BY <1>1, <1>2

\* A question asked inside the lock, and its answer.
LEMMA AddUserAsks ==
    ASSUME RefInv, NEW t \in Turns, AddUser(t)
    PROVE  T!Next
<1> DEFINE c == conv[t]
<1>1. /\ pc[t] = "ask" /\ pc'[t] = "think"
      /\ \A u \in Turns \ {t} : pc'[u] = pc[u]
      /\ UNCHANGED <<conv, rows, lastConv, holder>>
      /\ Exists(c)
      /\ log' = [log EXCEPT ![c] = Append(@, [role |-> "user", turn |-> t])]
  BY DEF AddUser, User, Goto, locks, RefInv, LockInv, TypeInv, TypeOK, Tasks
<1>2. /\ c \in ConvIds /\ holder[c] = t /\ t # None
      /\ \A d \in ConvIds \ {c} : AbstractOpen'[d] = AbstractOpen[d]
  BY <1>1, OwnConversation DEF Holding
<1>3. AbstractOpen[c] = None /\ AbstractOpen'[c] = t
  BY <1>1, <1>2 DEF AbstractOpen, Asking
<1>4. AbstractOpen' = [AbstractOpen EXCEPT ![c] = t]
  BY <1>2, <1>3 DEF AbstractOpen
<1>5. AbstractStatus[c] = "live" /\ UNCHANGED AbstractStatus
  BY <1>1, <1>2 DEF AbstractStatus, Exists
<1>6. T!Ask(c, t)
  BY <1>1, <1>3, <1>4, <1>5 DEF T!Ask
<1> QED
  BY <1>2, <1>6 DEF T!Next

LEMMA AddAssistantAnswers ==
    ASSUME RefInv, NEW t \in Turns, AddAssistant(t)
    PROVE  T!Next
<1> DEFINE c == conv[t]
<1>1. /\ pc[t] = "answer"
      /\ \A u \in Turns \ {t} : pc'[u] = pc[u]
      /\ UNCHANGED <<conv, rows, lastConv>>
      /\ holder' = [holder EXCEPT ![c] = None]
      /\ Exists(c)
      /\ log' = [log EXCEPT ![c] = Append(@, [role |-> "assistant", turn |-> t])]
  BY DEF AddAssistant, Assistant, LeaveTurn, Release, Goto, RefInv, LockInv, TypeInv,
         TypeOK, Tasks
<1>2. /\ holder \in [ConvIds -> Turns \cup {None}]
      /\ \A d \in ConvIds \ {c} : holder'[d] = holder[d]
  BY <1>1 DEF RefInv, LockInv, TypeInv, TypeOK
<1>3. /\ c \in ConvIds /\ holder[c] = t /\ t # None
      /\ \A d \in ConvIds \ {c} : AbstractOpen'[d] = AbstractOpen[d]
  BY <1>1, <1>2, OwnConversation DEF Holding
<1>4. AbstractOpen[c] = t /\ AbstractOpen'[c] = None
  BY <1>1, <1>2, <1>3 DEF AbstractOpen, Asking
<1>5. AbstractOpen' = [AbstractOpen EXCEPT ![c] = None]
  BY <1>3, <1>4 DEF AbstractOpen
<1>6. AbstractStatus[c] = "live" /\ UNCHANGED AbstractStatus
  BY <1>1, <1>3 DEF AbstractStatus, Exists
<1>7. T!Answer(c, t)
  BY <1>1, <1>4, <1>5, <1>6 DEF T!Answer
<1> QED
  BY <1>3, <1>7 DEF T!Next

\* A turn that leaves the lock without an answer, or a restart, abandons.
LEMMA LeaveAbandons ==
    ASSUME RefInv, NEW t \in Turns,
           AddUserFails(t) \/ ThinkFails(t) \/ AddAssistantFails(t) \/ InterruptHolding(t)
    PROVE  T!Next
<1> DEFINE c == conv[t]
<1>1. /\ pc[t] \in Holding
      /\ \A u \in Turns \ {t} : pc'[u] = pc[u]
      /\ UNCHANGED <<conv, rows, lastConv, log>>
      /\ holder' = [holder EXCEPT ![c] = None]
  BY DEF AddUserFails, ThinkFails, AddAssistantFails, InterruptHolding, Interrupted,
         LeaveTurn, Release, Goto, Holding, db, RefInv, LockInv, TypeInv, TypeOK, Tasks
<1>2. /\ holder \in [ConvIds -> Turns \cup {None}]
      /\ \A d \in ConvIds \ {c} : holder'[d] = holder[d]
  BY <1>1 DEF RefInv, LockInv, TypeInv, TypeOK
<1>3. /\ c \in ConvIds
      /\ \A d \in ConvIds \ {c} : AbstractOpen'[d] = AbstractOpen[d]
  BY <1>1, <1>2, OwnConversation
<1>4. AbstractOpen'[c] = None
  BY <1>1, <1>2, <1>3 DEF AbstractOpen, Asking
<1>5. AbstractOpen' = [d \in ConvIds |-> IF d \in {c} THEN None ELSE AbstractOpen[d]]
  BY <1>3, <1>4 DEF AbstractOpen
<1>6. UNCHANGED AbstractStatus
  BY <1>1 DEF AbstractStatus, Exists
<1>7. T!Abandon({c})
  BY <1>1, <1>5, <1>6 DEF T!Abandon
<1> QED
  BY <1>3, <1>7 DEF T!Next

LEMMA RestartAbandons ==
    ASSUME RefInv, Restart
    PROVE  T!Next
<1>1. UNCHANGED <<rows, lastConv, log>> /\ holder' = [c \in ConvIds |-> None]
  BY DEF Restart, db
<1>2. AbstractOpen' = [d \in ConvIds |-> IF d \in ConvIds THEN None ELSE AbstractOpen[d]]
  BY <1>1 DEF AbstractOpen, Asking
<1>3. UNCHANGED AbstractStatus
  BY <1>1 DEF AbstractStatus, Exists
<1>4. T!Abandon(ConvIds)
  BY <1>1, <1>2, <1>3 DEF T!Abandon
<1> QED
  BY <1>4 DEF T!Next

\* Every step of the tasks is a step of the transcript or invisible.
LEMMA NextImplements == RefInv /\ [Next]_vars => [T!Next]_T!vars
<1> SUFFICES ASSUME RefInv, [Next]_vars PROVE [T!Next]_T!vars
  OBVIOUS
<1>a. /\ pc \in [Tasks -> TurnPC \cup ResetPC]
      /\ holder \in [ConvIds -> Turns \cup {None}]
      /\ \A c \in ConvIds : holder[c] # None =>
            holder[c] \in Turns /\ conv[holder[c]] = c /\ pc[holder[c]] \in Holding
  BY DEF RefInv, LockInv, TypeInv, TypeOK, HolderConv
<1> USE TasksAssumption
<1>1. ASSUME NEW t \in Turns, Arrive(t) \/ CreateConversation(t) \/ RejectMedia(t)
                              \/ EnterQueue(t) \/ Settle(t) \/ SwallowCancel(t)
                              \/ Finish(t) \/ InterruptWaiting(t) \/ InterruptSending(t)
      PROVE  [T!Next]_T!vars
  <2>1. /\ pc[t] \notin Holding
        /\ \A u \in Turns \ {t} : pc'[u] = pc[u]
        /\ UNCHANGED holder
    BY <1>1, <1>a
       DEF Arrive, FindConversation, MissConversation, AmbiguousConversation,
           CreateConversation, RejectMedia, EnterQueue, Settle, SwallowCancel, Finish,
           InterruptWaiting, InterruptSending, Interrupted, Goto, locks, Tasks, Holding
  <2>2. \A c \in ConvIds : AbstractOpen'[c] = AbstractOpen[c]
    BY <2>1, <1>a DEF AbstractOpen, Asking
  <2>3. CASE CreateConversation(t)
    BY <2>2, <2>3, InsertCreates DEF CreateConversation
  <2>4. CASE ~CreateConversation(t)
    <3>1. UNCHANGED <<rows, lastConv, log>>
      BY <1>1, <2>4
         DEF Arrive, FindConversation, MissConversation, AmbiguousConversation,
             RejectMedia, EnterQueue, Settle, SwallowCancel, Finish,
             InterruptWaiting, InterruptSending, Interrupted, db
    <3> QED
      BY <2>2, <3>1, Invisible
  <2> QED
    BY <2>3, <2>4
<1>2. ASSUME NEW t \in Turns, EnterFree(t) \/ Acquire(t) PROVE [T!Next]_T!vars
  <2>1. /\ holder[conv[t]] = None /\ pc[t] \notin Holding /\ pc'[t] = "read"
        /\ \A u \in Turns \ {t} : pc'[u] = pc[u]
        /\ holder' = [holder EXCEPT ![conv[t]] = t]
        /\ UNCHANGED <<rows, lastConv, log>>
    BY <1>2, <1>a DEF EnterFree, Acquire, Goto, db, Tasks, Holding
  <2>2. ASSUME NEW c \in ConvIds PROVE AbstractOpen'[c] = AbstractOpen[c]
    <3>1. CASE c = conv[t]
      BY <3>1, <2>1, <1>a DEF AbstractOpen, Asking
    <3>2. CASE c # conv[t]
      BY <3>2, <2>1, <1>a DEF AbstractOpen, Asking
    <3> QED
      BY <3>1, <3>2
  <2> QED
    BY <2>1, <2>2, Invisible
<1>3. ASSUME NEW t \in Turns, ReadHistory(t) \/ Think(t) PROVE [T!Next]_T!vars
  <2>1. /\ pc[t] \in {"think", "answer"} <=> pc'[t] \in {"think", "answer"}
        /\ \A u \in Turns \ {t} : pc'[u] = pc[u]
        /\ UNCHANGED <<rows, lastConv, log, holder>>
    BY <1>3, <1>a DEF ReadHistory, Think, Goto, db, locks, Tasks
  <2>2. ASSUME NEW c \in ConvIds PROVE AbstractOpen'[c] = AbstractOpen[c]
    BY <2>1, <1>a DEF AbstractOpen, Asking
  <2> QED
    BY <2>1, <2>2, Invisible
<1>4. ASSUME NEW t \in Turns, Arrive(t) \/ TurnStep(t) PROVE [T!Next]_T!vars
  BY <1>1, <1>2, <1>3, <1>4, AddUserAsks, AddAssistantAnswers, LeaveAbandons DEF TurnStep
<1>5. ASSUME NEW r \in Resets, ResetStep(r) PROVE [T!Next]_T!vars
  <2>1. r \notin Turns
    BY TasksAssumption
  <2>2. (\A u \in Turns : pc'[u] = pc[u]) /\ UNCHANGED holder
    BY <1>5, <1>a, <2>1
       DEF ResetStep, ResetFinds, ResetMisses, ResetAmbiguous, ResetDrop, ResetInsert,
           Goto, locks, Tasks
  <2>3. \A c \in ConvIds : AbstractOpen'[c] = AbstractOpen[c]
    BY <2>2, <1>a DEF AbstractOpen, Asking
  <2>4. CASE ResetInsert(r)
    BY <2>3, <2>4, InsertCreates DEF ResetInsert
  <2>5. CASE ResetFinds(r) \/ ResetMisses(r) \/ ResetAmbiguous(r)
    BY <2>3, <2>5, Invisible DEF ResetFinds, ResetMisses, ResetAmbiguous, db
  <2> QED
    BY <1>5, <2>4, <2>5, DeleteDrops DEF ResetStep
<1>6. CASE (\E s \in Stops : StopStep(s)) \/ UNCHANGED vars
  <2>1. (\A u \in Turns : pc'[u] = pc[u]) /\ UNCHANGED <<rows, lastConv, log, holder>>
    BY <1>6, <1>a DEF StopStep, StopTurn, NothingToStop, Goto, db, locks, vars, Tasks
  <2>2. \A c \in ConvIds : AbstractOpen'[c] = AbstractOpen[c]
    BY <2>1, <1>a DEF AbstractOpen, Asking
  <2> QED
    BY <2>1, <2>2, Invisible
<1> QED
  BY <1>4, <1>5, <1>6, RestartAbandons DEF Next

\* Messages, /new, /stop, failures and restarts together do nothing to a
\* transcript but create it, ask, answer the open question, abandon it or drop
\* the whole: the tasks implement the transcript.
THEOREM TranscriptImplemented == Spec => ImplementsTranscript
<1>1. Init => T!Init
  <2> SUFFICES ASSUME Init PROVE T!Init
    OBVIOUS
  <2>1. AbstractStatus = [c \in ConvIds |-> "unused"]
    BY ChatsAssumption DEF Init, AbstractStatus, Exists, ConvIds
  <2>2. AbstractOpen = [c \in ConvIds |-> None]
    BY DEF Init, AbstractOpen, Asking
  <2> QED
    BY <2>1, <2>2 DEF Init, T!Init
<1> QED
  BY <1>1, NextImplements, RefInvariant, PTL DEF Spec, ImplementsTranscript, T!Spec

=============================================================================
