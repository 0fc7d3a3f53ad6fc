-------------------------- MODULE AttachmentsProofs --------------------------
(***************************************************************************)
(* Proofs about Attachments: for any turns, resets, chats, images and      *)
(* crashes, an image that no two tasks handled at the same time stays on   *)
(* disk as long as some message is linked to it whose turn could read the  *)
(* link back.                                                              *)
(***************************************************************************)
EXTENDS Attachments, TLAPS

Phases  == Inside \cup Reclaimer \cup {"idle", "over"}
Holding == {"link", "refresh"}

Types ==
    /\ pc \in [Tasks -> Phases]
    /\ row \in [Turns -> {0} \cup Ids]
    /\ created \in [Turns -> SUBSET Digests]
    /\ seen \in [Resets -> SUBSET Digests]
    /\ refs \in [Resets -> SUBSET Digests]
    /\ \A l \in links : l.image \in Digests
    /\ \A t \in Turns : created[t] \subseteq ImagesOf[t]
    /\ \A r \in Resets : pc[r] \notin Holding

Holds(t, d) == pc[t] \in Holding /\ d \in ImagesOf[t]

\* Who holds an image that is not raced is the only one to hold it, and nobody
\* reclaims it meanwhile.
Alone ==
    \A t \in Turns : \A d \in Digests \ raced :
        Holds(t, d) =>
            /\ \A u \in Turns \ {t} : ~Holds(u, d)
            /\ \A r \in Resets : pc[r] \in Reclaimer => d \notin seen[r]

\* A turn that is about to link has its blobs, and those it has created have no
\* link; after the commit the only links to them are its own.
LinkingOf(t) ==
    /\ pc[t] = "link" => \A d \in ImagesOf[t] \ raced : d \in blobs
    /\ pc[t] = "link" => \A d \in created[t] \ raced : d \notin Backed
    /\ pc[t] = "refresh" =>
          \A d \in created[t] \ raced : \A l \in links \ unread : l.image = d => l \in LinksOf(t)
Linking == \A t \in Turns : LinkingOf(t)

\* What a /new is about to delete has no link.
Reclaiming ==
    \A r \in Resets :
        pc[r] = "reclaim" => \A d \in (seen[r] \ refs[r]) \ raced : d \notin Backed

SafeInv == Types /\ Alone /\ Linking /\ Reclaiming /\ SerialSafe

-----------------------------------------------------------------------------
LEMMA Apart == Turns \cap Resets = {} /\ Turns \subseteq Tasks /\ Resets \subseteq Tasks
BY ImagesAssumption DEF Tasks

LEMMA SafeInit == Init => SafeInv
<1> SUFFICES ASSUME Init PROVE SafeInv
  OBVIOUS
<1>1. Types
  BY Apart DEF Init, Types, Phases, Holding
<1>2. Alone /\ Linking /\ Reclaiming
  BY DEF Init, Alone, Linking, LinkingOf, Reclaiming, Holds, Holding, Tasks
<1>3. SerialSafe
  BY DEF Init, SerialSafe, Backed
<1> QED
  BY <1>1, <1>2, <1>3 DEF SafeInv

\* A task leaves, or moves on without holding anything new, and the blobs that
\* go are linked to nothing or raced.
LEMMA SafeMoves ==
    ASSUME SafeInv, Types', NEW t \in Tasks,
           \A u \in Tasks \ {t} : pc'[u] = pc[u],
           \A u \in Turns \ {t} : row'[u] = row[u] /\ created'[u] = created[u],
           \A u \in Resets \ {t} : seen'[u] = seen[u] /\ refs'[u] = refs[u],
           pc'[t] \notin {"link", "refresh", "drop", "reclaim"},
           pc'[t] = "refs" => pc[t] = "drop" /\ seen' = seen,
           links' = links, raced \subseteq raced', unread \subseteq unread',
           NEW D, blobs \ D \subseteq blobs',
           \A d \in D \ raced : d \notin Backed',
           \A u \in Turns \ {t} : \A d \in D \ raced : ~Holds(u, d)
    PROVE  SafeInv'
<1>1. Alone'
  BY DEF SafeInv, Types, Alone, Holds, Holding, Reclaimer, Tasks, Phases, Inside
<1>0. Backed' \subseteq Backed /\ links' \ unread' \subseteq links \ unread
  BY DEF Backed
<1>2. Linking'
  BY <1>0 DEF SafeInv, Types, Linking, LinkingOf, Holds, Holding, LinksOf, Tasks
<1>3. Reclaiming'
  BY <1>0 DEF SafeInv, Types, Reclaiming, Tasks
<1>4. SerialSafe'
  BY <1>0 DEF SafeInv, SerialSafe
<1> QED
  BY <1>1, <1>2, <1>3, <1>4 DEF SafeInv

LEMMA LeaveTurnTypes ==
    ASSUME SafeInv, NEW t \in Turns, NEW from, LeaveTurn(t, from), links' = links
    PROVE  /\ Types'
           /\ pc[t] = from /\ pc'[t] = "over" /\ UNCHANGED <<seen, refs>>
           /\ \A u \in Tasks \ {t} : pc'[u] = pc[u]
           /\ \A u \in Turns \ {t} : row'[u] = row[u] /\ created'[u] = created[u]
BY Apart DEF LeaveTurn, Goto, SafeInv, Types, Phases, Holding

LEMMA LeaveResetTypes ==
    ASSUME SafeInv, NEW r \in Resets, NEW from, LeaveReset(r, from), links' = links
    PROVE  /\ Types'
           /\ pc[r] = from /\ pc'[r] = "over" /\ UNCHANGED <<row, created>>
           /\ \A u \in Tasks \ {r} : pc'[u] = pc[u]
           /\ \A u \in Resets \ {r} : seen'[u] = seen[u] /\ refs'[u] = refs[u]
BY Apart DEF LeaveReset, Goto, SafeInv, Types, Phases, Holding

\* A turn leaves before it holds anything, or without deleting anything.
LEMMA TurnLeaves ==
    ASSUME SafeInv, NEW t \in Turns, NEW from, LeaveTurn(t, from),
           links' = links, raced \subseteq raced', unread \subseteq unread', blobs \subseteq blobs'
    PROVE  SafeInv'
BY LeaveTurnTypes, Apart, SafeMoves, Zenon

LEMMA TurnEnters ==
    ASSUME SafeInv, NEW t \in Turns, Enter(t) \/ AddMessage(t)
    PROVE  SafeInv'
<1>1. /\ pc'[t] \in {"add", "save"} /\ UNCHANGED <<links, raced, unread, blobs, created, seen, refs>>
      /\ pc' \in [Tasks -> Phases] /\ \A u \in Tasks \ {t} : pc'[u] = pc[u]
  <2>1. PICK to \in {"add", "save"} : pc' = [pc EXCEPT ![t] = to]
    BY DEF Enter, AddMessage, Goto
  <2>2. to \in Phases /\ pc \in [Tasks -> Phases] /\ t \in Tasks
    BY Apart DEF Phases, Inside, SafeInv, Types
  <2>3. UNCHANGED <<links, raced, unread, blobs, created, seen, refs>>
    BY DEF Enter, AddMessage, dbVars
  <2> QED
    BY <2>1, <2>2, <2>3
<1>2. row' \in [Turns -> {0} \cup Ids] /\ \A u \in Turns \ {t} : row'[u] = row[u]
  BY DEF Enter, AddMessage, SafeInv, Types
<1>3. Types'
  BY <1>1, <1>2, Apart DEF SafeInv, Types, Holding
<1> QED
  BY <1>1, <1>2, <1>3, Apart, SafeMoves, Zenon

\* A turn compensates what it has created: no link to it is left that was not its
\* own, and those it has committed are excused from now on.
LEMMA TurnCompensates ==
    ASSUME SafeInv, NEW t \in Turns, LinkFails(t) \/ RefreshFails(t)
    PROVE  SafeInv'
<1>1. /\ pc[t] \in Holding /\ LeaveTurn(t, pc[t]) /\ links' = links /\ raced' = raced
      /\ blobs \ created[t] \subseteq blobs' /\ unread \subseteq unread'
  BY DEF LinkFails, RefreshFails, LeaveTurn, Goto, Delete, dbVars, Holding
<1>2. /\ Types' /\ pc'[t] = "over" /\ UNCHANGED <<seen, refs>>
      /\ \A u \in Tasks \ {t} : pc'[u] = pc[u]
      /\ \A u \in Turns \ {t} : row'[u] = row[u] /\ created'[u] = created[u]
  BY <1>1, LeaveTurnTypes
<1>3. \A d \in created[t] \ raced : d \notin Backed'
  <2>1. CASE LinkFails(t)
    <3>1. unread' = unread /\ pc[t] = "link"
      BY <2>1 DEF LinkFails, LeaveTurn, Goto
    <3> QED
      BY <1>1, <3>1 DEF SafeInv, Linking, LinkingOf, Backed
  <2>2. CASE RefreshFails(t)
    <3>1. pc[t] = "refresh"
      BY <2>2 DEF RefreshFails, LeaveTurn, Goto
    <3>2. \A d \in created[t] \ raced :
            \A l \in links \ unread : l.image = d => l \in links \cap LinksOf(t)
      BY <3>1 DEF SafeInv, Linking, LinkingOf
    <3>3. \A d \in created[t] \ raced : \A l \in links \ unread : l.image = d => l \in unread'
      BY <2>2, <3>2 DEF RefreshFails
    <3> QED
      BY <1>1, <3>3 DEF Backed
  <2> QED
    BY <2>1, <2>2
<1>4. \A u \in Turns \ {t} : \A d \in created[t] \ raced : ~Holds(u, d)
  BY <1>1 DEF SafeInv, Types, Alone, Holds
<1>5. t \in Tasks /\ t \notin Resets
  BY Apart
<1> QED
  BY <1>1, <1>2, <1>3, <1>4, <1>5, SafeMoves

\* A /new deletes what it has found orphaned.
LEMMA ResetReclaims ==
    ASSUME SafeInv, NEW r \in Resets, SkipReclaim(r) \/ Reclaim(r)
    PROVE  SafeInv'
<1> DEFINE D == IF SkipReclaim(r) THEN {} ELSE (seen[r] \ refs[r]) \cap blobs
<1>1. /\ pc[r] \in {"refs", "reclaim"} /\ LeaveReset(r, pc[r]) /\ links' = links /\ raced' = raced
      /\ unread' = unread /\ blobs \ D \subseteq blobs'
  BY DEF SkipReclaim, Reclaim, LeaveReset, Goto, Delete, dbVars
<1>2. /\ Types' /\ pc'[r] = "over" /\ UNCHANGED <<row, created>>
      /\ \A u \in Tasks \ {r} : pc'[u] = pc[u]
      /\ \A u \in Resets \ {r} : seen'[u] = seen[u] /\ refs'[u] = refs[u]
  BY <1>1, LeaveResetTypes
<1>3. D # {} => pc[r] = "reclaim"
  BY DEF SkipReclaim, Reclaim, LeaveReset, Goto
<1>4. \A d \in D \ raced : d \notin Backed'
  BY <1>1, <1>3 DEF SafeInv, Reclaiming, Backed
<1>5. \A u \in Turns \ {r} : \A d \in D \ raced : ~Holds(u, d)
  BY <1>3 DEF SafeInv, Types, Alone, Reclaimer
<1>6. r \in Tasks /\ r \notin Turns
  BY Apart
<1> HIDE DEF D
<1> QED
  BY <1>1, <1>2, <1>4, <1>5, <1>6, SafeMoves

\* A /new reads the references: what it has seen and they miss has no link.
LEMMA ResetReads ==
    ASSUME SafeInv, NEW r \in Resets, ReadRefs(r)
    PROVE  SafeInv'
<1>1. /\ pc' = [pc EXCEPT ![r] = "reclaim"] /\ refs' = [refs EXCEPT ![r] = Linked] /\ pc[r] = "refs"
      /\ UNCHANGED <<row, created, links, unread, blobs, raced, seen>> /\ r \notin Turns /\ r \in Tasks
  BY Apart DEF ReadRefs, Goto, dbVars
<1>2. Linked \in SUBSET Digests
  BY DEF Linked, SafeInv, Types
<1>3. Types'
  BY <1>1, <1>2, Apart DEF SafeInv, Types, Phases, Reclaimer, Holding
<1>4. Alone' /\ Linking'
  BY <1>1, Apart DEF SafeInv, Types, Alone, Linking, LinkingOf, Holds, Holding, Reclaimer, Backed, LinksOf
<1>5. Reclaiming' /\ SerialSafe'
  BY <1>1, Apart DEF SafeInv, Types, Reclaiming, SerialSafe, Linked, Backed
<1> QED
  BY <1>3, <1>4, <1>5 DEF SafeInv

\* A /new takes its snapshot: what somebody holds of it is raced from now on.
LEMMA ResetSnapshots ==
    ASSUME SafeInv, NEW r \in Resets, Snapshot(r)
    PROVE  SafeInv'
<1> DEFINE I == ImagesIn(ChatOf[r])
<1>1. /\ pc' = [pc EXCEPT ![r] = "drop"] /\ seen' = [seen EXCEPT ![r] = I] /\ pc[r] = "idle"
      /\ UNCHANGED <<row, created, links, unread, blobs, refs>> /\ r \notin Turns /\ r \in Tasks
  BY Apart DEF Snapshot, Goto, dbVars
<1>2. I \in SUBSET Digests
  BY DEF ImagesIn, SafeInv, Types
<1>3. /\ raced \subseteq raced'
      /\ \A d \in I : \A u \in Turns : Holds(u, d) => d \in raced'
  <2>1. PICK J : Overlap(r, I \cup J)
    BY DEF Snapshot
  <2>2. \A u \in Turns : \A d : Holds(u, d) => u \in Tasks \ {r} /\ Handles(u, d)
    BY <1>1, Apart DEF Holds, Handles, Holding
  <2> QED
    BY <2>1, <2>2 DEF Overlap
<1> HIDE DEF I
<1>4. Types'
  BY <1>1, <1>2, Apart DEF SafeInv, Types, Phases, Reclaimer, Holding
<1>5. Alone'
  BY <1>1, <1>3, Apart DEF SafeInv, Types, Alone, Holds, Holding, Reclaimer
<1>6. Linking'
  BY <1>1, <1>3, Apart DEF SafeInv, Types, Linking, LinkingOf, Backed, LinksOf
<1>7. Reclaiming' /\ SerialSafe'
  BY <1>1, <1>3, Apart DEF SafeInv, Types, Reclaiming, SerialSafe, Backed
<1> QED
  BY <1>4, <1>5, <1>6, <1>7 DEF SafeInv

\* A /new drops the messages of its chat with all of their links.
LEMMA ResetDrops ==
    ASSUME SafeInv, NEW r \in Resets, Drop(r)
    PROVE  SafeInv'
<1>1. links' \subseteq links /\ unread' = unread \cap links'
  BY DEF Drop
<1>2. /\ pc' = [pc EXCEPT ![r] = "refs"] /\ pc[r] = "drop" /\ r \notin Turns /\ r \in Tasks
      /\ UNCHANGED <<row, created, blobs, raced, seen, refs>>
  BY Apart DEF Drop, Goto
<1>3. Types'
  BY <1>1, <1>2, Apart DEF SafeInv, Types, Phases, Reclaimer, Holding
<1>4. Alone'
  BY <1>2, Apart DEF SafeInv, Types, Alone, Holds, Holding, Reclaimer
<1>5. links' \ unread' \subseteq links \ unread /\ Backed' \subseteq Backed
  BY <1>1 DEF Backed
<1>6. Linking'
  BY <1>2, <1>5, Apart DEF SafeInv, Types, Linking, LinkingOf, LinksOf
<1>7. Reclaiming' /\ SerialSafe'
  BY <1>2, <1>5, Apart DEF SafeInv, Types, Reclaiming, SerialSafe
<1> QED
  BY <1>3, <1>4, <1>6, <1>7 DEF SafeInv

\* A turn saves its blobs: what somebody else handles of them is raced from now on.
LEMMA TurnSaves ==
    ASSUME SafeInv, NEW t \in Turns, Save(t)
    PROVE  SafeInv'
<1>1. /\ pc' = [pc EXCEPT ![t] = "link"] /\ pc[t] = "save" /\ t \notin Resets /\ t \in Tasks
      /\ created' = [created EXCEPT ![t] = ImagesOf[t] \ blobs] /\ blobs' = blobs \cup ImagesOf[t]
      /\ UNCHANGED <<row, links, unread, seen, refs>> /\ ImagesOf[t] \subseteq Digests
  BY Apart, ImagesAssumption DEF Save, Goto, dbVars
<1>2. /\ raced \subseteq raced'
      /\ \A d \in ImagesOf[t] : \A u \in Turns \ {t} : Holds(u, d) => d \in raced'
      /\ \A d \in ImagesOf[t] : \A r \in Resets : pc[r] \in Reclaimer /\ d \in seen[r] => d \in raced'
  <2>1. \A u \in Turns \ {t} : \A d : Holds(u, d) => u \in Tasks \ {t} /\ Handles(u, d)
    BY Apart DEF Holds, Handles, Holding
  <2>2. \A r \in Resets : \A d : pc[r] \in Reclaimer /\ d \in seen[r] => r \in Tasks \ {t} /\ Handles(r, d)
    BY <1>1, Apart DEF Handles
  <2> QED
    BY <2>1, <2>2 DEF Save, Overlap
<1>3. Types'
  BY <1>1, Apart DEF SafeInv, Types, Phases, Inside, Holding
<1>4. Alone'
  BY <1>1, <1>2, <1>3, Apart DEF SafeInv, Types, Alone, Holds, Holding
<1>5. Linking'
  BY <1>1, <1>2, Apart DEF SafeInv, Types, Linking, LinkingOf, SerialSafe, Backed, LinksOf
<1>6. Reclaiming' /\ SerialSafe'
  BY <1>1, <1>2, Apart DEF SafeInv, Types, Reclaiming, SerialSafe, Backed
<1> QED
  BY <1>3, <1>4, <1>5, <1>6 DEF SafeInv

\* A commit of links by a turn that goes on to read them back, or is cancelled.
LEMMA TurnCommits ==
    ASSUME SafeInv, NEW t \in Turns, pc[t] = "link", CommitLinks(t), Types',
           pc'[t] \in {"refresh", "over"},
           \A u \in Tasks \ {t} : pc'[u] = pc[u],
           pc'[t] = "refresh" => UNCHANGED <<row, created>>,
           \A u \in Turns \ {t} : row'[u] = row[u] /\ created'[u] = created[u],
           UNCHANGED <<blobs, seen, refs, unread>>
    PROVE  SafeInv'
<1>1. links' = links \cup LinksOf(t) /\ raced \subseteq raced'
  BY DEF CommitLinks
<1>2. Backed' \subseteq Backed \cup ImagesOf[t]
  <2>1. \A l \in LinksOf(t) : l.image \in ImagesOf[t]
    BY DEF LinksOf
  <2> QED
    BY <1>1, <2>1 DEF Backed
<1>3. ImagesOf[t] \subseteq Digests /\ t \in Tasks /\ t \notin Resets
  BY Apart, ImagesAssumption
<1>4. Alone'
  BY <1>1, Apart DEF SafeInv, Types, Alone, Holds, Holding
<1>5. SerialSafe'
  BY <1>1, <1>2 DEF SafeInv, Linking, LinkingOf, SerialSafe
<1>6. Reclaiming'
  <2>1. \A r \in Resets : \A d \in seen[r] \ raced : pc[r] = "reclaim" => d \notin ImagesOf[t]
    BY <1>3 DEF SafeInv, Types, Alone, Holds, Holding, Reclaimer
  <2> QED
    BY <1>1, <1>2, <1>3, <2>1, Apart DEF SafeInv, Reclaiming
<1>7. ASSUME NEW u \in Turns, u # t, pc[u] \in Holding
      PROVE  /\ \A d \in ImagesOf[u] \ raced : d \notin ImagesOf[t]
             /\ LinksOf(u)' = LinksOf(u) /\ LinksOf(u) \cap LinksOf(t) = {}
  BY <1>3, <1>7 DEF SafeInv, Types, Alone, Holds, Holding, LinksOf
<1>8. ASSUME NEW u \in Turns, u # t
      PROVE  LinkingOf(u)'
  <2>1. pc'[u] = pc[u] /\ row'[u] = row[u] /\ created'[u] = created[u] /\ blobs' = blobs
    BY <1>8, Apart
  <2>2. LinkingOf(u) /\ created[u] \subseteq ImagesOf[u]
    BY DEF SafeInv, Types, Linking
  <2>3. CASE pc[u] \notin Holding
    BY <2>1, <2>3 DEF LinkingOf, Holding
  <2>4. CASE pc[u] \in Holding
    <3>1. /\ \A d \in ImagesOf[u] \ raced' : d \notin ImagesOf[t]
          /\ LinksOf(u)' = LinksOf(u) /\ LinksOf(u) \cap LinksOf(t) = {}
      BY <1>1, <1>7, <1>8, <2>4
    <3>2. \A l \in LinksOf(t) : l.image \in ImagesOf[t]
      BY DEF LinksOf
    <3>3. CASE pc[u] = "link"
      BY <1>1, <1>2, <2>1, <2>2, <3>1, <3>3 DEF LinkingOf
    <3>4. CASE pc[u] = "refresh"
      BY <1>1, <2>1, <2>2, <3>1, <3>2, <3>4 DEF LinkingOf
    <3> QED
      BY <2>4, <3>3, <3>4 DEF Holding
  <2> QED
    BY <2>3, <2>4
<1>9. LinkingOf(t)'
  <2>1. CASE pc'[t] = "over"
    BY <2>1 DEF LinkingOf
  <2>2. CASE pc'[t] = "refresh"
    <3>1. LinksOf(t)' = LinksOf(t) /\ created' = created
      BY <2>2 DEF LinksOf
    <3>2. \A d \in created[t] \ raced : \A l \in links \ unread : l.image # d
      BY DEF SafeInv, Linking, LinkingOf, Backed
    <3> QED
      BY <1>1, <2>2, <3>1, <3>2 DEF LinkingOf
  <2> QED
    BY <2>1, <2>2
<1> QED
  BY <1>4, <1>5, <1>6, <1>8, <1>9 DEF SafeInv, Linking

LEMMA TurnLinks ==
    ASSUME SafeInv, NEW t \in Turns, AddLinks(t)
    PROVE  SafeInv'
<1>1. /\ pc[t] = "link" /\ pc' = [pc EXCEPT ![t] = "refresh"] /\ CommitLinks(t)
      /\ UNCHANGED <<row, blobs, created, seen, refs, unread>> /\ t \in Tasks /\ t \notin Resets
  BY Apart DEF AddLinks, Goto
<1>2. \A l \in links' : l.image \in Digests
  BY ImagesAssumption DEF SafeInv, Types, AddLinks, CommitLinks, LinksOf
<1>3. Types'
  BY <1>1, <1>2, Apart DEF SafeInv, Types, Phases, Inside, Holding
<1>4. \A u \in Tasks \ {t} : pc'[u] = pc[u]
  BY <1>1 DEF SafeInv, Types
<1>5. pc'[t] = "refresh"
  BY <1>1 DEF SafeInv, Types
<1> QED
  BY <1>1, <1>3, <1>4, <1>5, TurnCommits

\* A cancelled turn deletes nothing; its commit may still arrive.
LEMMA TurnCancelled ==
    ASSUME SafeInv, NEW t \in Turns, Cancel(t)
    PROVE  SafeInv'
<1>1. PICK from \in Inside : LeaveTurn(t, from)
  BY DEF Cancel
<1>2. pc[t] = from /\ UNCHANGED <<blobs, unread>>
  BY <1>1 DEF Cancel, LeaveTurn, Goto
<1>3. CASE UNCHANGED <<links, raced>>
  BY <1>1, <1>2, <1>3, TurnLeaves
<1>4. CASE pc[t] = "link" /\ CommitLinks(t)
  <2>1. \A l \in links' : l.image \in Digests
    BY <1>4, ImagesAssumption DEF SafeInv, Types, CommitLinks, LinksOf
  <2>2. /\ pc' = [pc EXCEPT ![t] = "over"] /\ UNCHANGED <<seen, refs>>
        /\ row' = [row EXCEPT ![t] = 0] /\ created' = [created EXCEPT ![t] = {}]
        /\ t \in Tasks /\ t \notin Resets
    BY <1>1, Apart DEF LeaveTurn, Goto
  <2>3. Types'
    BY <2>1, <2>2, Apart DEF SafeInv, Types, Phases, Holding
  <2>4. /\ pc'[t] = "over" /\ \A u \in Tasks \ {t} : pc'[u] = pc[u]
        /\ \A u \in Turns \ {t} : row'[u] = row[u] /\ created'[u] = created[u]
    BY <2>2 DEF SafeInv, Types
  <2> QED
    BY <1>2, <1>4, <2>2, <2>3, <2>4, TurnCommits
<1> QED
  BY <1>3, <1>4 DEF Cancel

LEMMA AllCrash ==
    ASSUME SafeInv, Crash
    PROVE  SafeInv'
<1>1. /\ pc' = [t \in Tasks |-> IF pc[t] = "idle" THEN "idle" ELSE "over"]
      /\ row' = [t \in Turns |-> 0] /\ created' = [t \in Turns |-> {}]
      /\ seen' = [r \in Resets |-> {}] /\ refs' = [r \in Resets |-> {}]
      /\ UNCHANGED <<links, blobs, raced, unread>>
  BY DEF Crash, dbVars
<1>2. Types'
  BY <1>1, Apart DEF SafeInv, Types, Phases, Holding
<1>3. Alone' /\ Linking' /\ Reclaiming'
  BY <1>1, Apart DEF Alone, Linking, LinkingOf, Reclaiming, Holds, Holding
<1>4. SerialSafe'
  BY <1>1 DEF SafeInv, SerialSafe, Backed
<1> QED
  BY <1>2, <1>3, <1>4 DEF SafeInv

LEMMA SafeNext == ASSUME SafeInv, [Next]_vars PROVE SafeInv'
<1>1. ASSUME NEW t \in Turns, TurnStep(t) PROVE SafeInv'
  <2>1. CASE AddFails(t) \/ SaveFails(t) \/ Refresh(t)
    BY <2>1, TurnLeaves DEF AddFails, SaveFails, Refresh, dbVars
  <2> QED
    BY <1>1, <2>1, TurnEnters, TurnSaves, TurnLinks, TurnCompensates, TurnCancelled DEF TurnStep
<1>2. ASSUME NEW r \in Resets, ResetStep(r) PROVE SafeInv'
  BY <1>2, ResetSnapshots, ResetDrops, ResetReads, ResetReclaims DEF ResetStep
<1>3. CASE UNCHANGED vars
  BY <1>3 DEF vars, dbVars, SafeInv, Types, Alone, Linking, LinkingOf, Reclaiming, SerialSafe,
              Holds, Backed, LinksOf
<1> QED
  BY <1>1, <1>2, <1>3, AllCrash DEF Next

\* An image that no two tasks handled at the same time is on disk as long as a
\* message is linked to it, unless the turn of that message failed to read the
\* link back after its commit (agent/service.py, repository.py).
THEOREM LinkedBlobsKept == Spec => []SerialSafe
<1>1. SafeInv => SerialSafe
  BY DEF SafeInv
<1> QED
  BY <1>1, SafeInit, SafeNext, PTL DEF Spec

-----------------------------------------------------------------------------
(* Blobs without a link                                                     *)

RowTypes ==
    /\ messages \in [Ids -> Turns \cup {None}]
    /\ \A l \in links : l.message \in Ids /\ messages[l.message] # None
    /\ \A t \in Turns : pc[t] \in {"save", "link", "refresh"} => row[t] \in Ids

Excused == Linked \cup raced \cup left

\* What a turn has found in the store, instead of creating it, needs no turn.
FoundExcused ==
    \A t \in Turns : pc[t] \in Holding => ImagesOf[t] \ created[t] \subseteq Excused

\* A /new has seen what it is about to unlink; a turn that may add to it overlaps.
SnapshotHolds ==
    \A r \in Resets : pc[r] = "drop" =>
        /\ ImagesIn(ChatOf[r]) \subseteq seen[r] \cup raced
        /\ \A t \in Turns : pc[t] = "link" /\ ChatOf[t] = ChatOf[r] => ImagesOf[t] \subseteq raced

\* Two resets that have seen the same image overlap.
ResetsApart ==
    \A r, q \in Resets :
        r # q /\ pc[r] \in Reclaimer /\ pc[q] \in Reclaimer => seen[r] \cap seen[q] \subseteq raced

\* What a /new has found referenced needs no /new.
RefsExcused ==
    \A r \in Resets : pc[r] = "reclaim" => seen[r] \cap refs[r] \subseteq Excused

Held(d) ==
    \/ \E t \in Turns : Holds(t, d)
    \/ \E r \in Resets : pc[r] \in Reclaimer /\ d \in seen[r]

Accounted == \A d \in blobs \ Excused : Held(d)

ReclaimInv ==
    SafeInv /\ RowTypes /\ FoundExcused /\ SnapshotHolds /\ ResetsApart /\ RefsExcused /\ Accounted

LEMMA ReclaimInit == Init => ReclaimInv
<1> SUFFICES ASSUME Init PROVE ReclaimInv
  OBVIOUS
<1>1. \A t \in Tasks : pc[t] = "idle"
  BY DEF Init
<1>2. RowTypes
  BY <1>1, Apart DEF Init, RowTypes
<1>3. FoundExcused /\ SnapshotHolds /\ ResetsApart /\ RefsExcused /\ Accounted
  BY <1>1, Apart DEF Init, FoundExcused, SnapshotHolds, ResetsApart, RefsExcused, Accounted,
                     Holding, Reclaimer
<1> QED
  BY <1>2, <1>3, SafeInit DEF ReclaimInv

\* A task leaves: what it handled is gone, or excused without it.
LEMMA ReclaimLeaves ==
    ASSUME ReclaimInv, SafeInv', NEW t \in Tasks, pc'[t] = "over",
           \A u \in Tasks \ {t} : pc'[u] = pc[u],
           \A u \in Turns \ {t} : row'[u] = row[u] /\ created'[u] = created[u],
           \A u \in Resets \ {t} : seen'[u] = seen[u] /\ refs'[u] = refs[u],
           links' = links, messages' = messages, raced \subseteq raced', left \subseteq left',
           \A d \in blobs' \ Excused' : d \in blobs,
           t \in Turns /\ pc[t] \in Holding => created[t] \cap blobs' \subseteq Excused',
           t \in Resets /\ pc[t] \in Reclaimer => seen[t] \cap blobs' \subseteq Excused'
    PROVE  ReclaimInv'
<1>1. Excused \subseteq Excused' /\ pc'[t] \notin Holding \cup Reclaimer
  BY DEF Excused, Linked, Holding, Reclaimer
<1>2. RowTypes'
  BY Apart DEF ReclaimInv, RowTypes
<1>3. FoundExcused' /\ ResetsApart' /\ RefsExcused'
  BY <1>1, Apart DEF ReclaimInv, FoundExcused, ResetsApart, RefsExcused, Reclaimer
<1>4. SnapshotHolds'
  BY Apart DEF ReclaimInv, SnapshotHolds, ImagesIn, RowsOf
<1>5. ASSUME NEW d \in blobs' \ Excused' PROVE Held(d)'
  <2>1. d \in blobs \ Excused
    BY <1>1
  <2>2. CASE \E u \in Turns : Holds(u, d)
    <3>1. PICK u \in Turns : Holds(u, d)
      BY <2>2
    <3>2. u # t
      BY <1>1, <2>1, <3>1 DEF ReclaimInv, FoundExcused, Holds
    <3> QED
      BY <3>1, <3>2, Apart DEF Held, Holds
  <2>3. CASE \E r \in Resets : pc[r] \in Reclaimer /\ d \in seen[r]
    <3>1. PICK r \in Resets : pc[r] \in Reclaimer /\ d \in seen[r]
      BY <2>3
    <3>2. r # t
      BY <3>1
    <3> QED
      BY <3>1, <3>2, Apart DEF Held
  <2> QED
    BY <2>1, <2>2, <2>3 DEF ReclaimInv, Accounted, Held
<1> QED
  BY <1>2, <1>3, <1>4, <1>5 DEF ReclaimInv, Accounted

LEMMA ReclaimTurnLeaves ==
    ASSUME ReclaimInv, SafeInv', NEW t \in Turns, NEW from, LeaveTurn(t, from),
           links' = links, messages' = messages, raced' = raced, left \subseteq left',
           \A d \in blobs' \ Excused' : d \in blobs,
           from \in Holding => created[t] \cap blobs' \subseteq Excused'
    PROVE  ReclaimInv'
BY LeaveTurnTypes, ReclaimLeaves, Apart DEF ReclaimInv

LEMMA ReclaimTurnEnds ==
    ASSUME ReclaimInv, SafeInv', NEW t \in Turns,
           AddFails(t) \/ SaveFails(t) \/ LinkFails(t) \/ Refresh(t) \/ RefreshFails(t)
    PROVE  ReclaimInv'
<1>1. CASE AddFails(t)
  BY <1>1, ReclaimTurnLeaves DEF AddFails, dbVars, Holding
<1>2. CASE SaveFails(t)
  <2>1. LeaveTurn(t, "save") /\ UNCHANGED <<links, messages, raced>> /\ left \subseteq left'
    BY <1>2 DEF SaveFails, dbVars
  <2>2. \A d \in blobs' \ Excused' : d \in blobs
    BY <1>2 DEF SaveFails, Excused
  <2> QED
    BY <2>1, <2>2, ReclaimTurnLeaves DEF Holding
<1>3. CASE LinkFails(t) \/ RefreshFails(t)
  <2>1. PICK from : LeaveTurn(t, from)
    BY <1>3 DEF LinkFails, RefreshFails
  <2>2. UNCHANGED <<links, messages, raced>>
    BY <1>3 DEF LinkFails, RefreshFails, dbVars
  <2>3. left \subseteq left' /\ blobs' \subseteq blobs /\ created[t] \cap blobs' \subseteq left'
    BY <1>3 DEF LinkFails, RefreshFails, Delete
  <2> QED
    BY <2>1, <2>2, <2>3, ReclaimTurnLeaves DEF Excused
<1>4. CASE Refresh(t)
  <2>1. LeaveTurn(t, "refresh") /\ UNCHANGED <<links, messages, raced, blobs, left>>
    BY <1>4 DEF Refresh, dbVars
  <2>2. created[t] \subseteq ImagesOf[t]
    BY DEF ReclaimInv, SafeInv, Types
  <2>3. ASSUME NEW d \in ImagesOf[t] PROVE d \in Linked
    <3>1. [message |-> row[t], image |-> d, by |-> t] \in links
      BY <1>4 DEF Refresh, LinksOf
    <3> QED
      BY <3>1 DEF Linked
  <2>4. created[t] \subseteq Excused'
    BY <2>1, <2>2, <2>3 DEF Excused, Linked
  <2> QED
    BY <1>4, <2>1, <2>4, ReclaimTurnLeaves
<1> QED
  BY <1>1, <1>2, <1>3, <1>4

LEMMA ReclaimResetEnds ==
    ASSUME ReclaimInv, SafeInv', NEW r \in Resets, SkipReclaim(r) \/ Reclaim(r)
    PROVE  ReclaimInv'
<1>1. PICK from : LeaveReset(r, from)
  BY DEF SkipReclaim, Reclaim
<1>2. UNCHANGED <<links, messages, raced>>
  BY DEF SkipReclaim, Reclaim, dbVars
<1>3. /\ pc[r] = from /\ pc'[r] = "over" /\ UNCHANGED <<row, created>>
      /\ \A u \in Tasks \ {r} : pc'[u] = pc[u]
      /\ \A u \in Resets \ {r} : seen'[u] = seen[u] /\ refs'[u] = refs[u]
  BY <1>1, <1>2, LeaveResetTypes DEF ReclaimInv
<1>4. left \subseteq left' /\ blobs' \subseteq blobs /\ seen[r] \cap blobs' \subseteq Excused'
  <2>1. CASE SkipReclaim(r)
    BY <2>1 DEF SkipReclaim, Excused
  <2>2. CASE Reclaim(r)
    <3>1. /\ left \subseteq left' /\ blobs' \subseteq blobs
          /\ (seen[r] \ refs[r]) \cap blobs' \subseteq left'
      BY <2>2 DEF Reclaim, Delete
    <3>2. seen[r] \cap refs[r] \subseteq Excused
      BY <2>2 DEF Reclaim, LeaveReset, Goto, ReclaimInv, RefsExcused
    <3> QED
      BY <1>2, <3>1, <3>2 DEF Excused, Linked
  <2> QED
    BY <2>1, <2>2
<1> QED
  BY <1>2, <1>3, <1>4, ReclaimLeaves, Apart

\* The links of a turn are committed: its images need nobody any more.
LEMMA ReclaimCommits ==
    ASSUME ReclaimInv, SafeInv', NEW t \in Turns, pc[t] = "link", CommitLinks(t),
           pc'[t] \in {"refresh", "over"},
           \A u \in Tasks \ {t} : pc'[u] = pc[u],
           pc'[t] = "refresh" => UNCHANGED <<row, created>>,
           \A u \in Turns \ {t} : row'[u] = row[u] /\ created'[u] = created[u],
           UNCHANGED <<blobs, seen, refs, messages, left>>
    PROVE  ReclaimInv'
<1>1. links' = links \cup LinksOf(t) /\ raced \subseteq raced'
  BY DEF CommitLinks
<1>2. Linked \cup ImagesOf[t] \subseteq Linked'
  <2>1. ASSUME NEW d \in ImagesOf[t] PROVE d \in Linked'
    <3>1. [message |-> row[t], image |-> d, by |-> t] \in links'
      BY <1>1 DEF LinksOf
    <3> QED
      BY <3>1 DEF Linked
  <2> QED
    BY <1>1, <2>1 DEF Linked
<1>3. Excused \cup ImagesOf[t] \subseteq Excused' /\ t \in Tasks /\ t \notin Resets
  BY <1>1, <1>2, Apart DEF Excused
<1>4. row[t] \in Ids /\ messages[row[t]] # None
  BY DEF CommitLinks, ReclaimInv, RowTypes
<1>5. \A l \in LinksOf(t) : l.message = row[t] /\ l.image \in ImagesOf[t]
  BY DEF LinksOf
<1>6. RowTypes'
  <2>1. messages' \in [Ids -> Turns \cup {None}]
    BY DEF ReclaimInv, RowTypes
  <2>2. \A l \in links' : l.message \in Ids /\ messages'[l.message] # None
    BY <1>1, <1>4, <1>5 DEF ReclaimInv, RowTypes
  <2>3. \A u \in Turns : pc'[u] \in {"save", "link", "refresh"} => row'[u] \in Ids
    BY <1>3, <1>4 DEF ReclaimInv, RowTypes, Tasks
  <2> QED
    BY <2>1, <2>2, <2>3 DEF RowTypes
<1>7. FoundExcused'
  BY <1>3, Apart DEF ReclaimInv, FoundExcused, Holding
<1>8. SnapshotHolds'
  <2> SUFFICES ASSUME NEW r \in Resets, pc'[r] = "drop"
               PROVE  /\ ImagesIn(ChatOf[r])' \subseteq seen[r] \cup raced'
                      /\ \A u \in Turns : pc'[u] = "link" /\ ChatOf[u] = ChatOf[r] => ImagesOf[u] \subseteq raced'
    BY DEF SnapshotHolds
  <2>1. /\ pc[r] = "drop"
        /\ ImagesIn(ChatOf[r]) \subseteq seen[r] \cup raced
        /\ \A u \in Turns : pc[u] = "link" /\ ChatOf[u] = ChatOf[r] => ImagesOf[u] \subseteq raced
    BY <1>3, Apart DEF ReclaimInv, SnapshotHolds
  <2>2. ASSUME NEW l \in LinksOf(t), l.message \in RowsOf(ChatOf[r]) PROVE l.image \in raced'
    <3>1. CASE messages[row[t]] = t
      BY <1>1, <1>5, <2>1, <2>2, <3>1 DEF RowsOf
    <3>2. CASE messages[row[t]] # t
      BY <1>5, <3>2 DEF CommitLinks
    <3> QED
      BY <3>1, <3>2
  <2>3. ImagesIn(ChatOf[r])' \subseteq seen[r] \cup raced'
    BY <1>1, <2>1, <2>2 DEF ImagesIn, RowsOf
  <2> QED
    BY <1>1, <1>3, <2>1, <2>3, Apart
<1>9. ResetsApart' /\ RefsExcused'
  BY <1>1, <1>3, Apart DEF ReclaimInv, ResetsApart, RefsExcused
<1>10. ASSUME NEW d \in blobs' \ Excused' PROVE Held(d)'
  BY <1>3, Apart DEF ReclaimInv, Accounted, Held, Holds
<1> QED
  BY <1>6, <1>7, <1>8, <1>9, <1>10 DEF ReclaimInv, Accounted

LEMMA ReclaimLinks ==
    ASSUME ReclaimInv, SafeInv', NEW t \in Turns, AddLinks(t)
    PROVE  ReclaimInv'
<1>1. /\ pc[t] = "link" /\ pc' = [pc EXCEPT ![t] = "refresh"] /\ CommitLinks(t)
      /\ UNCHANGED <<row, created, blobs, seen, refs, messages, left>> /\ t \in Tasks
  BY Apart DEF AddLinks, Goto
<1>2. pc'[t] = "refresh" /\ \A u \in Tasks \ {t} : pc'[u] = pc[u]
  BY <1>1 DEF ReclaimInv, SafeInv, Types
<1> QED
  BY <1>1, <1>2, ReclaimCommits

LEMMA ReclaimCancelled ==
    ASSUME ReclaimInv, SafeInv', NEW t \in Turns, Cancel(t)
    PROVE  ReclaimInv'
<1>1. PICK from \in Inside : LeaveTurn(t, from)
  BY DEF Cancel
<1>2. pc[t] = from /\ UNCHANGED <<messages, blobs>>
  BY <1>1 DEF Cancel, LeaveTurn, Goto
<1>3. CASE pc[t] = "link" /\ CommitLinks(t) /\ UNCHANGED left
  <2>1. /\ pc' = [pc EXCEPT ![t] = "over"] /\ UNCHANGED <<seen, refs>>
        /\ row' = [row EXCEPT ![t] = 0] /\ created' = [created EXCEPT ![t] = {}] /\ t \in Tasks
    BY <1>1, Apart DEF LeaveTurn, Goto
  <2>2. /\ pc'[t] = "over" /\ \A u \in Tasks \ {t} : pc'[u] = pc[u]
        /\ \A u \in Turns \ {t} : row'[u] = row[u] /\ created'[u] = created[u]
    BY <2>1 DEF ReclaimInv, SafeInv, Types
  <2> QED
    BY <1>2, <1>3, <2>1, <2>2, ReclaimCommits
<1>4. CASE /\ UNCHANGED <<links, raced>> /\ left \subseteq left'
           /\ from \in Holding => created[t] \ Linked \subseteq left'
  <2>1. from \in Holding => created[t] \cap blobs' \subseteq Excused'
    BY <1>4 DEF Excused, Linked
  <2>2. \A d \in blobs' \ Excused' : d \in blobs
    BY <1>2
  <2> QED
    BY <1>1, <1>2, <1>4, <2>1, <2>2, ReclaimTurnLeaves
<1>5. \/ pc[t] \in {"add", "save"} /\ UNCHANGED <<links, raced, left>>
      \/ pc[t] = "link" /\ left' = left \cup created[t] /\ UNCHANGED <<links, raced>>
      \/ pc[t] = "link" /\ CommitLinks(t) /\ UNCHANGED left
      \/ pc[t] = "refresh" /\ left' = left \cup (created[t] \ Linked) /\ UNCHANGED <<links, raced>>
  BY DEF Cancel
<1> QED
  BY <1>2, <1>3, <1>4, <1>5 DEF Holding

\* Before a turn holds anything; a new row has no links yet.
LEMMA ReclaimEnters ==
    ASSUME ReclaimInv, SafeInv', NEW t \in Turns, Enter(t) \/ AddMessage(t)
    PROVE  ReclaimInv'
<1>1. /\ t \in Tasks /\ UNCHANGED <<links, raced, blobs, created, seen, refs, left>>
      /\ pc[t] \in {"idle", "add"} /\ pc'[t] \in {"add", "save"}
      /\ \A u \in Tasks \ {t} : pc'[u] = pc[u]
  BY Apart DEF Enter, AddMessage, Goto, dbVars, ReclaimInv, SafeInv, Types
<1>2. /\ \A l \in links : messages'[l.message] = messages[l.message]
      /\ RowTypes'
  <2>1. CASE Enter(t)
    BY <1>1, <2>1, Apart DEF Enter, dbVars, Goto, ReclaimInv, RowTypes
  <2>2. CASE AddMessage(t)
    <3>1. PICK m \in Ids : /\ {i \in Ids : messages[i] # None} \subseteq 1 .. (m - 1)
                           /\ messages' = [messages EXCEPT ![m] = t]
                           /\ row' = [row EXCEPT ![t] = m]
      BY <2>2 DEF AddMessage
    <3>2. m \notin 1 .. (m - 1)
      BY DEF Ids
    <3>3. messages[m] = None /\ \A l \in links : l.message \in Ids /\ l.message # m
      BY <3>1, <3>2 DEF ReclaimInv, RowTypes
    <3>4. \A l \in links : messages'[l.message] = messages[l.message]
      BY <3>1, <3>3 DEF ReclaimInv, RowTypes
    <3>5. messages' \in [Ids -> Turns \cup {None}]
      BY <3>1 DEF ReclaimInv, RowTypes
    <3>6. \A u \in Turns : pc'[u] \in {"save", "link", "refresh"} => row'[u] \in Ids
      BY <1>1, <3>1, Apart DEF ReclaimInv, RowTypes, SafeInv, Types
    <3> QED
      BY <1>1, <3>3, <3>4, <3>5, <3>6 DEF RowTypes, ReclaimInv
  <2> QED
    BY <2>1, <2>2
<1>3. pc[t] \notin Holding \cup Reclaimer /\ pc'[t] \notin Holding \cup Reclaimer /\ t \notin Resets
  BY <1>1, Apart DEF Holding, Reclaimer
<1>4. Excused' = Excused /\ \A c : ImagesIn(c)' = ImagesIn(c)
  <2>1. ASSUME NEW c PROVE \A l \in links : l.message \in RowsOf(c)' <=> l.message \in RowsOf(c)
    BY <1>2 DEF RowsOf, ReclaimInv, RowTypes
  <2> QED
    BY <1>1, <2>1 DEF Excused, Linked, ImagesIn
<1>5. FoundExcused' /\ ResetsApart' /\ RefsExcused'
  BY <1>1, <1>3, <1>4, Apart DEF ReclaimInv, FoundExcused, ResetsApart, RefsExcused
<1>6. SnapshotHolds'
  BY <1>1, <1>3, <1>4, Apart DEF ReclaimInv, SnapshotHolds
<1>7. Accounted'
  BY <1>1, <1>3, <1>4, Apart DEF ReclaimInv, Accounted, Held, Holds
<1> QED
  BY <1>2, <1>5, <1>6, <1>7 DEF ReclaimInv

\* What a turn finds is linked, left, or handled by somebody it overlaps with.
LEMMA ReclaimSaves ==
    ASSUME ReclaimInv, SafeInv', NEW t \in Turns, Save(t)
    PROVE  ReclaimInv'
<1>1. /\ pc' = [pc EXCEPT ![t] = "link"] /\ pc[t] = "save" /\ t \notin Resets /\ t \in Tasks
      /\ created' = [created EXCEPT ![t] = ImagesOf[t] \ blobs] /\ blobs' = blobs \cup ImagesOf[t]
      /\ UNCHANGED <<row, links, messages, seen, refs, left>>
  BY Apart DEF Save, Goto, dbVars
<1>2. /\ pc'[t] = "link" /\ created'[t] = ImagesOf[t] \ blobs
      /\ \A u \in Tasks \ {t} : pc'[u] = pc[u]
      /\ \A u \in Turns \ {t} : created'[u] = created[u]
  BY <1>1 DEF ReclaimInv, SafeInv, Types
<1>3. raced \subseteq raced' /\ \A d \in ImagesOf[t] : \A u \in Tasks \ {t} : Handles(u, d) => d \in raced'
  BY DEF Save, Overlap
<1>4. Excused \subseteq Excused'
  BY <1>1, <1>3 DEF Excused, Linked
<1>5. RowTypes'
  BY <1>1, <1>2, Apart DEF ReclaimInv, RowTypes
<1>6. FoundExcused'
  <2>1. ASSUME NEW d \in ImagesOf[t] \cap blobs PROVE d \in Excused'
    <3>1. CASE d \in Excused
      BY <1>4, <3>1
    <3>2. CASE \E u \in Turns : Holds(u, d)
      BY <1>1, <1>3, <3>2, Apart DEF Holds, Holding, Handles, Excused
    <3>3. CASE \E r \in Resets : pc[r] \in Reclaimer /\ d \in seen[r]
      BY <1>1, <1>3, <3>3, Apart DEF Handles, Excused
    <3> QED
      BY <3>1, <3>2, <3>3 DEF ReclaimInv, Accounted, Held
  <2> QED
    BY <1>2, <1>4, <2>1, Apart DEF ReclaimInv, FoundExcused
<1>7. SnapshotHolds'
  <2>1. \A r \in Resets : pc[r] = "drop" /\ ChatOf[t] = ChatOf[r] => \A d \in ImagesOf[t] : Handles(r, d)
    BY DEF Handles
  <2>2. \A r \in Resets : pc[r] = "drop" /\ ChatOf[t] = ChatOf[r] => ImagesOf[t] \subseteq raced'
    BY <1>1, <1>3, <2>1, Apart
  <2>3. \A c : ImagesIn(c)' = ImagesIn(c)
    BY <1>1 DEF ImagesIn, RowsOf
  <2> QED
    BY <1>1, <1>2, <1>3, <2>2, <2>3, Apart DEF ReclaimInv, SnapshotHolds
<1>8. ResetsApart' /\ RefsExcused'
  BY <1>1, <1>2, <1>3, <1>4, Apart DEF ReclaimInv, ResetsApart, RefsExcused
<1>9. ASSUME NEW d \in blobs' \ Excused' PROVE Held(d)'
  <2>1. CASE d \in ImagesOf[t]
    BY <1>2, <2>1 DEF Held, Holds, Holding
  <2>2. CASE d \notin ImagesOf[t]
    BY <1>1, <1>2, <1>4, <2>2, Apart DEF ReclaimInv, Accounted, Held, Holds
  <2> QED
    BY <2>1, <2>2
<1> QED
  BY <1>5, <1>6, <1>7, <1>8, <1>9 DEF ReclaimInv, Accounted

LEMMA ReclaimSnapshots ==
    ASSUME ReclaimInv, SafeInv', NEW r \in Resets, Snapshot(r)
    PROVE  ReclaimInv'
<1> DEFINE I == ImagesIn(ChatOf[r])
           J == UNION {ImagesOf[t] : t \in {u \in Turns : pc[u] = "link" /\ ChatOf[u] = ChatOf[r]}}
<1>1. /\ pc' = [pc EXCEPT ![r] = "drop"] /\ seen' = [seen EXCEPT ![r] = I] /\ pc[r] = "idle"
      /\ UNCHANGED <<row, created, links, messages, blobs, refs, left>> /\ r \notin Turns /\ r \in Tasks
  BY Apart DEF Snapshot, Goto, dbVars
<1>2. pc'[r] = "drop" /\ seen'[r] = I /\ \A u \in Tasks \ {r} : pc'[u] = pc[u]
  BY <1>1 DEF ReclaimInv, SafeInv, Types
<1>3. /\ raced \subseteq raced'
      /\ \A d \in I \cup J : \A u \in Tasks \ {r} : Handles(u, d) => d \in raced'
  BY DEF Snapshot, Overlap
<1>4. \A t \in Turns : pc[t] = "link" /\ ChatOf[t] = ChatOf[r] => ImagesOf[t] \subseteq J
  OBVIOUS
<1>5. ImagesIn(ChatOf[r])' = I /\ \A c : ImagesIn(c)' = ImagesIn(c)
  BY <1>1 DEF ImagesIn, RowsOf
<1> HIDE DEF I, J
<1>6. Excused \subseteq Excused'
  BY <1>1, <1>3 DEF Excused, Linked
<1>7. RowTypes'
  BY <1>1, <1>2, Apart DEF ReclaimInv, RowTypes
<1>8. FoundExcused' /\ RefsExcused'
  BY <1>1, <1>2, <1>6, Apart DEF ReclaimInv, FoundExcused, RefsExcused, SafeInv, Types
<1>9. ResetsApart'
  <2>1. \A q \in Resets \ {r} : pc[q] \in Reclaimer => seen[q] \cap I \subseteq raced'
    BY <1>3, Apart DEF Handles
  <2> QED
    BY <1>1, <1>2, <1>3, <2>1, Apart DEF ReclaimInv, ResetsApart, SafeInv, Types
<1>10. SnapshotHolds'
  <2>1. ASSUME NEW t \in Turns, pc[t] = "link", ChatOf[t] = ChatOf[r] PROVE ImagesOf[t] \subseteq raced'
    BY <1>1, <1>3, <1>4, <2>1, Apart DEF Handles
  <2>2. \A q \in Resets \ {r} : seen'[q] = seen[q] /\ pc'[q] = pc[q]
    BY <1>1, <1>2, Apart DEF ReclaimInv, SafeInv, Types
  <2>3. \A t \in Turns : pc'[t] = pc[t]
    BY <1>1, <1>2, Apart
  <2> QED
    BY <1>2, <1>3, <1>5, <2>1, <2>2, <2>3 DEF ReclaimInv, SnapshotHolds
<1>11. ASSUME NEW d \in blobs' \ Excused' PROVE Held(d)'
  BY <1>1, <1>2, <1>6, Apart DEF ReclaimInv, Accounted, Held, Holds, SafeInv, Types, Reclaimer
<1> QED
  BY <1>7, <1>8, <1>9, <1>10, <1>11 DEF ReclaimInv, Accounted

\* What a /new unlinks it has seen, or somebody has overlapped with it.
LEMMA ReclaimDrops ==
    ASSUME ReclaimInv, SafeInv', NEW r \in Resets, Drop(r)
    PROVE  ReclaimInv'
<1> DEFINE gone == RowsOf(ChatOf[r])
<1>1. /\ links' = {l \in links : l.message \notin gone}
      /\ messages' = [m \in Ids |-> IF m \in gone THEN None ELSE messages[m]]
      /\ pc' = [pc EXCEPT ![r] = "refs"] /\ pc[r] = "drop" /\ r \notin Turns /\ r \in Tasks
      /\ UNCHANGED <<row, created, blobs, raced, seen, refs, left>>
  BY Apart DEF Drop, Goto
<1>2. pc'[r] = "refs" /\ \A u \in Tasks \ {r} : pc'[u] = pc[u]
  BY <1>1 DEF ReclaimInv, SafeInv, Types
<1>3. \A d \in Excused \ Excused' : d \in seen[r]
  <2>1. ASSUME NEW d \in Linked \ Linked' PROVE d \in ImagesIn(ChatOf[r])
    BY <1>1 DEF Linked, ImagesIn
  <2> QED
    BY <1>1, <2>1 DEF ReclaimInv, SnapshotHolds, Excused
<1>4. \A c : ImagesIn(c)' \subseteq ImagesIn(c)
  <2>1. \A c : RowsOf(c)' \subseteq RowsOf(c)
    BY <1>1 DEF RowsOf
  <2> QED
    BY <1>1, <2>1 DEF ImagesIn
<1>5. RowTypes'
  BY <1>1, <1>2, Apart DEF ReclaimInv, RowTypes
<1> HIDE DEF gone
<1>6. FoundExcused'
  <2>1. ASSUME NEW t \in Turns, pc[t] \in Holding, NEW d \in ImagesOf[t] \ created[t]
        PROVE  d \in Excused'
    <3>1. d \in Excused /\ d \in Digests
      BY <2>1, ImagesAssumption DEF ReclaimInv, FoundExcused
    <3>2. CASE d \in seen[r]
      BY <1>1, <2>1, <3>1, <3>2 DEF ReclaimInv, SafeInv, Alone, Holds, Reclaimer, Excused
    <3> QED
      BY <1>3, <3>1, <3>2
  <2> QED
    BY <1>1, <1>2, <2>1, Apart DEF FoundExcused
<1>7. ResetsApart'
  BY <1>1, <1>2, Apart DEF ReclaimInv, ResetsApart, Reclaimer
<1>8. RefsExcused'
  <2>1. ASSUME NEW q \in Resets, pc'[q] = "reclaim", NEW d \in seen[q] \cap refs[q]
        PROVE  d \in Excused'
    <3>1. q # r /\ pc[q] = "reclaim" /\ d \in Excused
      BY <1>2, <2>1, Apart DEF ReclaimInv, RefsExcused
    <3>2. CASE d \in seen[r]
      BY <1>1, <2>1, <3>1, <3>2 DEF ReclaimInv, ResetsApart, Reclaimer, Excused
    <3> QED
      BY <1>3, <3>1, <3>2
  <2> QED
    BY <1>1, <2>1 DEF RefsExcused
<1>9. SnapshotHolds'
  BY <1>1, <1>2, <1>4, Apart DEF ReclaimInv, SnapshotHolds
<1>10. ASSUME NEW d \in blobs' \ Excused' PROVE Held(d)'
  <2>1. CASE d \in Excused
    BY <1>1, <1>2, <1>3, <2>1, Apart DEF Held, Reclaimer
  <2>2. CASE d \notin Excused
    BY <1>1, <1>2, <2>2, Apart DEF ReclaimInv, Accounted, Held, Holds, Reclaimer
  <2> QED
    BY <2>1, <2>2
<1> QED
  BY <1>5, <1>6, <1>7, <1>8, <1>9, <1>10 DEF ReclaimInv, Accounted

LEMMA ReclaimReads ==
    ASSUME ReclaimInv, SafeInv', NEW r \in Resets, ReadRefs(r)
    PROVE  ReclaimInv'
<1>1. /\ pc' = [pc EXCEPT ![r] = "reclaim"] /\ refs' = [refs EXCEPT ![r] = Linked] /\ pc[r] = "refs"
      /\ UNCHANGED <<row, created, links, messages, blobs, raced, seen, left>>
      /\ r \notin Turns /\ r \in Tasks
  BY Apart DEF ReadRefs, Goto, dbVars
<1>2. /\ pc'[r] = "reclaim" /\ refs'[r] = Linked
      /\ \A u \in Tasks \ {r} : pc'[u] = pc[u] /\ \A q \in Resets \ {r} : refs'[q] = refs[q]
  BY <1>1 DEF ReclaimInv, SafeInv, Types
<1>3. Excused' = Excused /\ \A c : ImagesIn(c)' = ImagesIn(c)
  BY <1>1 DEF Excused, Linked, ImagesIn, RowsOf
<1>4. RowTypes' /\ FoundExcused' /\ SnapshotHolds'
  BY <1>1, <1>2, <1>3, Apart DEF ReclaimInv, RowTypes, FoundExcused, SnapshotHolds
<1>5. ResetsApart'
  BY <1>1, <1>2, Apart DEF ReclaimInv, ResetsApart, Reclaimer
<1>6. RefsExcused'
  BY <1>1, <1>2, <1>3, Apart DEF ReclaimInv, RefsExcused, Excused, SafeInv, Types
<1>7. Accounted'
  BY <1>1, <1>2, <1>3, Apart DEF ReclaimInv, Accounted, Held, Holds, Reclaimer
<1> QED
  BY <1>4, <1>5, <1>6, <1>7 DEF ReclaimInv

LEMMA ReclaimCrash ==
    ASSUME ReclaimInv, SafeInv', Crash
    PROVE  ReclaimInv'
<1>1. /\ pc' = [t \in Tasks |-> IF pc[t] = "idle" THEN "idle" ELSE "over"]
      /\ left' = left \cup (UNION Range(created)) \cup (UNION Range(seen))
      /\ UNCHANGED <<links, messages, blobs, raced>>
  BY DEF Crash, dbVars
<1>2. \A t \in Tasks : pc'[t] \in {"idle", "over"}
  BY <1>1
<1>3. RowTypes' /\ FoundExcused' /\ SnapshotHolds' /\ ResetsApart' /\ RefsExcused'
  BY <1>1, <1>2, Apart DEF ReclaimInv, RowTypes, FoundExcused, SnapshotHolds, ResetsApart, RefsExcused,
                           Holding, Reclaimer
<1>4. /\ \A t \in Turns : created[t] \subseteq left'
      /\ \A r \in Resets : seen[r] \subseteq left'
  <2>1. created \in [Turns -> SUBSET Digests] /\ seen \in [Resets -> SUBSET Digests]
    BY DEF ReclaimInv, SafeInv, Types
  <2>2. \A t \in Turns : created[t] \in Range(created)
    BY <2>1 DEF Range
  <2>3. \A r \in Resets : seen[r] \in Range(seen)
    BY <2>1 DEF Range
  <2> QED
    BY <1>1, <2>2, <2>3
<1>5. ASSUME NEW d \in blobs' \ Excused' PROVE FALSE
  <2>1. d \in blobs \ Excused /\ d \notin left'
    BY <1>1, <1>5 DEF Excused, Linked
  <2>2. \A t \in Turns : ~Holds(t, d)
    BY <1>4, <2>1 DEF ReclaimInv, FoundExcused, Holds
  <2>3. \A r \in Resets : d \notin seen[r]
    BY <1>4, <2>1
  <2> QED
    BY <2>1, <2>2, <2>3 DEF ReclaimInv, Accounted, Held
<1> QED
  BY <1>3, <1>5 DEF ReclaimInv, Accounted

LEMMA ReclaimNext == ASSUME ReclaimInv, [Next]_vars PROVE ReclaimInv'
<1>1. SafeInv'
  BY SafeNext DEF ReclaimInv
<1>2. ASSUME NEW t \in Turns, TurnStep(t) PROVE ReclaimInv'
  BY <1>1, <1>2, ReclaimEnters, ReclaimSaves, ReclaimLinks, ReclaimTurnEnds, ReclaimCancelled DEF TurnStep
<1>3. ASSUME NEW r \in Resets, ResetStep(r) PROVE ReclaimInv'
  BY <1>1, <1>3, ReclaimSnapshots, ReclaimDrops, ReclaimReads, ReclaimResetEnds DEF ResetStep
<1>4. CASE UNCHANGED vars
  <2>1. SafeInv' /\ RowTypes' /\ FoundExcused' /\ SnapshotHolds'
    BY <1>1, <1>4 DEF vars, dbVars, ReclaimInv, RowTypes, FoundExcused, SnapshotHolds, Excused, Linked,
                      ImagesIn, RowsOf
  <2>2. ResetsApart' /\ RefsExcused' /\ Accounted'
    BY <1>4 DEF vars, dbVars, ReclaimInv, ResetsApart, RefsExcused, Accounted, Held, Holds, Excused, Linked
  <2> QED
    BY <2>1, <2>2 DEF ReclaimInv
<1> QED
  BY <1>1, <1>2, <1>3, <1>4, ReclaimCrash DEF Next

\* A blob without a link is being linked, is being reclaimed, or was left by a
\* crash, a cancelled turn, an I/O error or overlapping tasks (service.py:382-432).
THEOREM UnlinkedAccounted == Spec => []SerialReclaim
<1>1. ReclaimInv => SerialReclaim
  <2> SUFFICES ASSUME ReclaimInv, NEW d \in (blobs \ Linked) \ (raced \cup left)
               PROVE  \E t \in Tasks : Handles(t, d)
    BY DEF SerialReclaim
  <2>1. Held(d)
    BY DEF ReclaimInv, Accounted, Excused
  <2> QED
    BY <2>1, Apart DEF Held, Holds, Holding, Handles
<1> QED
  BY <1>1, ReclaimInit, ReclaimNext, PTL DEF Spec
=============================================================================
