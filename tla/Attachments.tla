---------------------------- MODULE Attachments ----------------------------
(***************************************************************************)
(* Images of chat messages: the content-addressed blob store on disk, the  *)
(* attachments table that links blobs to messages, the turn that saves its *)
(* blobs and then links them, and /new, which snapshots the chat's blobs,  *)
(* drops the conversation and deletes the blobs nobody references.         *)
(*                                                                         *)
(* A blob is named by its digest, so equal images share one file, across   *)
(* chats too.  The store's calls are synchronous: a turn saves all of its  *)
(* blobs, and a /new deletes all of its garbage, in one step each.  Every  *)
(* database call is an await between such steps.  Turns of one chat        *)
(* exclude each other by the lock of ChatTurns; /new takes no lock.        *)
(***************************************************************************)
EXTENDS Naturals, FiniteSets, Functions

CONSTANTS
    Turns,       \* messages with images
    Resets,      \* /new commands
    Chats,
    ChatOf,      \* the chat of each task
    Digests,     \* distinct image contents
    ImagesOf,    \* the images of each turn
    MaxCrashes,  \* bound: process crashes
    None         \* "no row"

Tasks == Turns \cup Resets
Ids   == 1 .. Cardinality(Turns)

ASSUME ImagesAssumption ==
    /\ Turns \cap Resets = {}
    /\ IsFiniteSet(Turns)
    /\ ChatOf \in [Tasks -> Chats]
    /\ ImagesOf \in [Turns -> SUBSET Digests \ {{}}]
    /\ None \notin Turns
    /\ MaxCrashes \in Nat

VARIABLES
    pc,        \* where each task is
    dropped,   \* the chats' conversation: how often /new has replaced it
    conv,      \* the conversation a turn works on
    messages,  \* messages table: the turn whose row each id is, or None
    row,       \* the id of a turn's own row (0: none yet)
    links,     \* attachments table
    blobs,     \* the store
    created,   \* blobs a turn has created, not found, in the store
    seen,      \* the digests a /new may orphan
    refs,      \* the digests a /new has found referenced
    raced,     \* history: digests that two overlapping tasks handled
    left,      \* history: digests a crash, a cancellation or an I/O error left behind
    unread,    \* history: links whose blobs went because they could not be read back
    crashes

dbVars == <<dropped, messages, links>>
vars   == <<pc, conv, row, created, seen, refs, dbVars, blobs, raced, left,
            unread, crashes>>

Goto(t, from, to) ==
    /\ pc[t] = from
    /\ pc' = [pc EXCEPT ![t] = to]

\* A task returns, raises or is cancelled: its local variables are gone.
LeaveTurn(t, from) ==
    /\ Goto(t, from, "over")
    /\ conv' = [conv EXCEPT ![t] = 0]
    /\ row' = [row EXCEPT ![t] = 0]
    /\ created' = [created EXCEPT ![t] = {}]
    /\ UNCHANGED <<seen, refs>>

LeaveReset(r, from) ==
    /\ Goto(r, from, "over")
    /\ seen' = [seen EXCEPT ![r] = {}]
    /\ refs' = [refs EXCEPT ![r] = {}]
    /\ UNCHANGED <<conv, row, created>>

Link     == [message : Ids, image : Digests, by : Turns]
Linked   == {l.image : l \in links}
Backed   == {l.image : l \in links \ unread}  \* those no failed read-back has cost its blob
RowsOf(chat) == {m \in Ids : messages[m] # None /\ ChatOf[messages[m]] = chat}
ImagesIn(chat) == {l.image : l \in {k \in links : k.message \in RowsOf(chat)}}

Inside    == {"add", "save", "link", "refresh"}  \* a turn, up to its last row
Reclaimer == {"drop", "refs", "reclaim"}         \* a /new, from its snapshot on

\* What a task handles while it overlaps with others.
Handles(t, d) ==
    \/ t \in Turns /\ pc[t] \in {"link", "refresh"} /\ d \in ImagesOf[t]
    \/ t \in Resets /\ pc[t] \in Reclaimer /\ d \in seen[t]
    \/ t \in Resets /\ pc[t] = "drop" /\ \E u \in Turns : ChatOf[u] = ChatOf[t] /\ d \in ImagesOf[u]

\* Ghost: the digests of D that somebody else is handling as t comes along.
Overlap(t, D) == raced' = raced \cup {d \in D : \E u \in Tasks \ {t} : Handles(u, d)}

\* store.delete of each digest of D; some may fail with an I/O error.
Delete(D) ==
    \E K \in SUBSET D :
        /\ blobs' = blobs \ K
        /\ left' = left \cup (D \ K)

-----------------------------------------------------------------------------
Init ==
    /\ pc = [t \in Tasks |-> "idle"]
    /\ dropped = [c \in Chats |-> 0]
    /\ conv = [t \in Turns |-> 0]
    /\ messages = [m \in Ids |-> None]
    /\ row = [t \in Turns |-> 0]
    /\ links = {}
    /\ blobs = {}
    /\ created = [t \in Turns |-> {}]
    /\ seen = [r \in Resets |-> {}]
    /\ refs = [r \in Resets |-> {}]
    /\ raced = {}
    /\ left = {}
    /\ unread = {}
    /\ crashes = 0

-----------------------------------------------------------------------------
(* A turn                                                                   *)

\* The handler has found the conversation, and process_message takes its lock.
Enter(t) ==
    /\ \A u \in Turns :
          ChatOf[u] = ChatOf[t] /\ conv[u] = dropped[ChatOf[t]] => pc[u] \notin Inside
    /\ Goto(t, "idle", "add")
    /\ conv' = [conv EXCEPT ![t] = dropped[ChatOf[t]]]
    /\ UNCHANGED <<dbVars, row, blobs, created, seen, refs, raced, left, unread, crashes>>

\* messages.id is not AUTOINCREMENT: SQLite hands out one more than the largest.
AddMessage(t) ==
    /\ Goto(t, "add", "save")
    /\ conv[t] = dropped[ChatOf[t]]
    /\ LET taken == {m \in Ids : messages[m] # None} IN
       \E m \in Ids :
          /\ taken \subseteq 1 .. (m - 1)
          /\ m - 1 \in taken \cup {0}
          /\ messages' = [messages EXCEPT ![m] = t]
          /\ row' = [row EXCEPT ![t] = m]
    /\ UNCHANGED <<conv, dropped, links, blobs, created, seen, refs, raced, left, unread, crashes>>

\* The conversation is gone (foreign key), or the insert fails otherwise.
AddFails(t) ==
    /\ LeaveTurn(t, "add")
    /\ UNCHANGED <<dbVars, blobs, raced, left, unread, crashes>>

\* Mutant: every blob the turn saved counts as created by it.
SaveClaimsAll(t) ==
    /\ Goto(t, "save", "link")
    /\ created' = [created EXCEPT ![t] = ImagesOf[t]]
    /\ blobs' = blobs \cup ImagesOf[t]
    /\ Overlap(t, ImagesOf[t])
    /\ UNCHANGED <<conv, dbVars, row, seen, refs, left, unread, crashes>>

\* store.save of each image: an existing blob is reused.
Save(t) ==
    /\ Goto(t, "save", "link")
    /\ created' = [created EXCEPT ![t] = ImagesOf[t] \ blobs]
    /\ blobs' = blobs \cup ImagesOf[t]
    /\ Overlap(t, ImagesOf[t])
    /\ UNCHANGED <<conv, dbVars, row, seen, refs, left, unread, crashes>>

\* A write error after some of them: what was created is deleted again.
SaveFails(t) ==
    /\ LeaveTurn(t, "save")
    /\ \E D \in SUBSET (ImagesOf[t] \ blobs) :
          \E K \in SUBSET D :
             /\ blobs' = blobs \cup K
             /\ left' = left \cup K
    /\ UNCHANGED <<dbVars, raced, unread, crashes>>

LinksOf(t) == {[message |-> row[t], image |-> d, by |-> t] : d \in ImagesOf[t]}

\* The insert of a turn's links: the foreign key only asks for some message with
\* the id.  Ghost: a link on another message is the work of an overlapping /new.
CommitLinks(t) ==
    /\ messages[row[t]] # None
    /\ links' = links \cup LinksOf(t)
    /\ raced' = IF messages[row[t]] = t THEN raced ELSE raced \cup ImagesOf[t]

AddLinks(t) ==
    /\ Goto(t, "link", "refresh")
    /\ CommitLinks(t)
    /\ UNCHANGED <<conv, dropped, messages, row, blobs, created, seen, refs, left, unread, crashes>>

\* After the commit the new rows are read back, if no /new has deleted them.
Refresh(t) ==
    /\ LinksOf(t) \subseteq links
    /\ LeaveTurn(t, "refresh")
    /\ UNCHANGED <<dbVars, blobs, raced, left, unread, crashes>>

\* Reading them back fails, for whatever reason: the turn compensates as if they
\* had not been committed.  Ghost: those that were have lost their blobs.
RefreshFails(t) ==
    /\ LeaveTurn(t, "refresh")
    /\ Delete(created[t])
    /\ unread' = unread \cup {l \in links \cap LinksOf(t) : l.image \in created[t]}
    /\ UNCHANGED <<dbVars, raced, crashes>>

\* Mutant: the compensation is forgotten.
LinkFailsSilently(t) ==
    /\ LeaveTurn(t, "link")
    /\ UNCHANGED <<dbVars, blobs, raced, left, unread, crashes>>

\* The message is gone, or the insert fails otherwise: compensate.
LinkFails(t) ==
    /\ LeaveTurn(t, "link")
    /\ Delete(created[t])
    /\ UNCHANGED <<dbVars, raced, unread, crashes>>

\* A cancelled turn compensates nothing; its insert may still be committed.
Cancel(t) ==
    /\ \E from \in Inside : LeaveTurn(t, from)
    /\ \/ pc[t] \in {"add", "save"} /\ UNCHANGED <<links, raced, left>>
       \/ pc[t] = "link" /\ left' = left \cup created[t] /\ UNCHANGED <<links, raced>>
       \/ pc[t] = "link" /\ CommitLinks(t) /\ UNCHANGED left
       \/ pc[t] = "refresh" /\ left' = left \cup (created[t] \ Linked) /\ UNCHANGED <<links, raced>>
    /\ UNCHANGED <<dropped, messages, blobs, unread, crashes>>

-----------------------------------------------------------------------------
(* /new                                                                     *)

Snapshot(r) ==
    /\ Goto(r, "idle", "drop")
    /\ seen' = [seen EXCEPT ![r] = ImagesIn(ChatOf[r])]
    /\ LET holders == {t \in Turns : pc[t] = "link" /\ ChatOf[t] = ChatOf[r]} IN
       Overlap(r, ImagesIn(ChatOf[r]) \cup UNION {ImagesOf[t] : t \in holders})
    /\ UNCHANGED <<conv, dbVars, row, blobs, created, refs, left, unread, crashes>>

\* Mutant: the delete of the attachments is left to the cascade.
DropKeepsLinks(r) ==
    /\ Goto(r, "drop", "refs")
    /\ messages' = [m \in Ids |-> IF m \in RowsOf(ChatOf[r]) THEN None ELSE messages[m]]
    /\ dropped' = [dropped EXCEPT ![ChatOf[r]] = @ + 1]
    /\ UNCHANGED <<conv, links, row, blobs, created, seen, refs, raced, left, unread, crashes>>

\* reset_conversation deletes links, messages and the row in one transaction;
\* the new row is a second one, which only ChatTurns tells from the first.
Drop(r) ==
    /\ Goto(r, "drop", "refs")
    /\ LET gone == RowsOf(ChatOf[r]) IN
          /\ links' = {l \in links : l.message \notin gone}
          /\ messages' = [m \in Ids |-> IF m \in gone THEN None ELSE messages[m]]
    /\ dropped' = [dropped EXCEPT ![ChatOf[r]] = @ + 1]
    /\ unread' = unread \cap links'
    /\ UNCHANGED <<conv, row, blobs, created, seen, refs, raced, left, crashes>>

\* Mutant: the other chats' references are not looked at.
ReadNoRefs(r) ==
    /\ Goto(r, "refs", "reclaim")
    /\ refs' = [refs EXCEPT ![r] = {}]
    /\ UNCHANGED <<conv, dbVars, row, blobs, created, seen, raced, left, unread, crashes>>

ReadRefs(r) ==
    /\ Goto(r, "refs", "reclaim")
    /\ refs' = [refs EXCEPT ![r] = Linked]
    /\ UNCHANGED <<conv, dbVars, row, blobs, created, seen, raced, left, unread, crashes>>

\* The references cannot be read: nothing is collected.
SkipReclaim(r) ==
    /\ LeaveReset(r, "refs")
    /\ left' = left \cup seen[r]
    /\ UNCHANGED <<dbVars, blobs, raced, unread, crashes>>

Reclaim(r) ==
    /\ LeaveReset(r, "reclaim")
    /\ Delete((seen[r] \ refs[r]) \cap blobs)
    /\ UNCHANGED <<dbVars, raced, unread, crashes>>

-----------------------------------------------------------------------------
\* The process dies: disk and database stay as they are.
Crash ==
    /\ crashes < MaxCrashes
    /\ crashes' = crashes + 1
    /\ pc' = [t \in Tasks |-> IF pc[t] = "idle" THEN "idle" ELSE "over"]
    /\ left' = left \cup (UNION Range(created)) \cup (UNION Range(seen))
    /\ conv' = [t \in Turns |-> 0]
    /\ row' = [t \in Turns |-> 0]
    /\ created' = [t \in Turns |-> {}]
    /\ seen' = [r \in Resets |-> {}]
    /\ refs' = [r \in Resets |-> {}]
    /\ UNCHANGED <<dbVars, blobs, raced, unread>>

TurnStep(t) ==
    \/ Enter(t) \/ AddMessage(t) \/ AddFails(t) \/ Save(t) \/ SaveFails(t)
    \/ AddLinks(t) \/ LinkFails(t) \/ Refresh(t) \/ RefreshFails(t) \/ Cancel(t)

ResetStep(r) == Snapshot(r) \/ Drop(r) \/ ReadRefs(r) \/ SkipReclaim(r) \/ Reclaim(r)

Next ==
    \/ \E t \in Turns : TurnStep(t)
    \/ \E r \in Resets : ResetStep(r)
    \/ Crash

Spec == Init /\ [][Next]_vars

-----------------------------------------------------------------------------
(* Properties                                                               *)

\* Types of the store's, the tables' and the tasks' state.
ImagesTypeOK ==
    /\ pc \in [Tasks -> Inside \cup Reclaimer \cup {"idle", "over"}]
    /\ dropped \in [Chats -> 0 .. Cardinality(Resets)]
    /\ conv \in [Turns -> 0 .. Cardinality(Resets)]
    /\ messages \in [Ids -> Turns \cup {None}]
    /\ row \in [Turns -> {0} \cup Ids]
    /\ links \subseteq Link
    /\ blobs \subseteq Digests
    /\ created \in [Turns -> SUBSET Digests]
    /\ seen \in [Resets -> SUBSET Digests]
    /\ refs \in [Resets -> SUBSET Digests]
    /\ raced \subseteq Digests
    /\ left \subseteq Digests
    /\ unread \subseteq Link
    /\ crashes \in 0 .. MaxCrashes
    /\ \A l \in links : messages[l.message] # None

\* "a dedup'd blob must never be deleted while any attachment still points at
\* it" (service.py:392-394): of the messages of all chats, an image is on disk as
\* long as one is linked to it, whatever is compensated, reclaimed, cancelled or
\* crashes in between.  Two things are excused, and stated without the excuse below:
\* images that two tasks handled at the same time (raced), and the links of a turn
\* that could not read back what it had committed (unread), which the code breaks.
SerialSafe == Backed \ raced \subseteq blobs

\* /new "also reclaims image blobs that were referenced only by the dropped
\* conversation", and a failed turn compensates: a blob without a link is being
\* linked, is being reclaimed, or was left by a crash, a cancelled turn, an I/O
\* error or overlapping tasks.
SerialReclaim ==
    \A d \in (blobs \ Linked) \ (raced \cup left) :
        \E t \in Tasks : Handles(t, d)

-----------------------------------------------------------------------------
\* The same promises as the code states them, each without one of the provisos.

\* service.py:408-409: a GC hiccup "must never touch a shared blob": nor do two
\* tasks that share one.
SharedBlobKept == Backed \subseteq blobs

\* service.py:477-478: the compensation removes a blob "that is now unreferenced":
\* a turn that works alone deletes no blob that a message is linked to.  It does
\* when the read-back fails (RefreshFails).
ReadBackKept == Linked \ raced \subseteq blobs

\* models.py:200: "One attachment links exactly one message": the message it was
\* saved for.
LinkOwned == \A l \in links : messages[l.message] = l.by
=============================================================================
