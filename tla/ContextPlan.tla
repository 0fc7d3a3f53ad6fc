----------------------------- MODULE ContextPlan -----------------------------
(***************************************************************************)
(* Which memories and which history a request carries: the memories of the *)
(* scope are ranked against the query, then they and the newest turns are  *)
(* chosen so that the request fits the token budget and the message cap.   *)
(*                                                                         *)
(* A text is the sequence of its characters' classes.  A message is its    *)
(* role, its text and the number of its images; a memory is its number,    *)
(* its text, its search terms, whether it contains the whole query, and    *)
(* its age (a later update is a larger number).                            *)
(***************************************************************************)
EXTENDS Naturals, Sequences, SequencesExt, FiniteSetsExt

CONSTANTS
    Envelope,  \* MESSAGE_ENVELOPE_UNITS
    Header,    \* the text of MEMORY_REFERENCE_HEADER
    Bullet,    \* the text before a memory in its line, "- [memory #1] "
    ImageCost  \* context_image_estimated_tokens

Ascii == "ascii"  \* a character in 0x20..0x7e; every other one counts by itself

Text    == Seq({Ascii, "wide", "newline"})
Role    == {"system", "user", "assistant", "tool"}  \* ck_messages_role
Message == [role : Role, text : Text, images : Nat]

ASSUME CostsAssumption == {Envelope, ImageCost} \subseteq Nat /\ {Header, Bullet} \subseteq Text

Total(numbers) == FoldLeft(LAMBDA sum, x : sum + x, 0, numbers)

-----------------------------------------------------------------------------
(* Costs                                                                    *)

\* One unit for four characters of an ASCII run, rounded up.
Chunks(run) == (run + 3) \div 4

Count(acc, char) ==
    IF char = Ascii THEN [total |-> acc.total, run |-> acc.run + 1]
                    ELSE [total |-> acc.total + Chunks(acc.run) + 1, run |-> 0]

\* estimate_text_cost: any other character ends the run and costs one unit.
TextCost(text) ==
    LET end == FoldLeft(Count, [total |-> 0, run |-> 0], text)
    IN  end.total + Chunks(end.run)

MessageCost(text) == Envelope + TextCost(text)

\* A line break, no character of an ASCII run, separates the lines.
MemoryText(selected) ==
    Header \o FlattenSeq([i \in DOMAIN selected |->
                 (IF i = 1 THEN <<>> ELSE <<"newline">>) \o Bullet \o selected[i].text])

MemoryCost(selected) == IF selected = <<>> THEN 0 ELSE MessageCost(MemoryText(selected))

TextOnlyCost(turn) == Total([i \in DOMAIN turn |-> MessageCost(turn[i].text)])
FullCost(turn)     == TextOnlyCost(turn) + ImageCost * Total([i \in DOMAIN turn |-> turn[i].images])

-----------------------------------------------------------------------------
(* rank_memories                                                            *)

Overlap(query, m)  == Cardinality(query \cap m.terms)
Relevant(query, m) == m.whole \/ Overlap(query, m) > 0

\* Mutant: a newer memory goes before one that shares more words.
BetterByAge(query, a, b) ==
    \/ a.whole /\ ~b.whole
    \/ a.whole = b.whole /\ a.updated > b.updated
    \/ a.whole = b.whole /\ a.updated = b.updated /\ a.id > b.id

\* _score_key: the whole query, shared terms, the later update, the larger id.
Better(query, a, b) ==
    \/ a.whole /\ ~b.whole
    \/ /\ a.whole = b.whole
       /\ \/ Overlap(query, a) > Overlap(query, b)
          \/ /\ Overlap(query, a) = Overlap(query, b)
             /\ \/ a.updated > b.updated
                \/ a.updated = b.updated /\ a.id > b.id

\* query is the set of its terms; one without terms searches nothing.
Found(query, memories) == IF query = {} THEN {} ELSE {m \in memories : Relevant(query, m)}

Ranked(query, found) ==
    CHOOSE ranked \in [1 .. Cardinality(found) -> found] :
        \A i, j \in 1 .. Cardinality(found) : i < j => Better(query, ranked[i], ranked[j])

RankMemories(query, memories, limit) ==
    LET ranked == Ranked(query, Found(query, memories))
    IN  SubSeq(ranked, 1, Min({limit, Len(ranked)}))

-----------------------------------------------------------------------------
(* plan_context                                                             *)

\* group_turns: a user message opens a turn, the others belong to the open one.
AddToTurns(turns, m) ==
    IF m.role = "user" \/ turns = <<>> THEN Append(turns, <<m>>)
    ELSE [turns EXCEPT ![Len(turns)] = Append(@, m)]

GroupTurns(history) == FoldLeft(AddToTurns, <<>>, history)

\* A memory that does not fit is passed over, the next ones are still tried.
TakeMemory(chosen, m, subBudget, budget) ==
    LET cost == MemoryCost(Append(chosen, m))
    IN  IF cost > subBudget \/ cost > budget THEN chosen ELSE Append(chosen, m)

\* Mutant: the search ends at the first memory that does not fit.
SelectMemoriesToMisfit(ranked, subBudget, budget) ==
    LET chosen(k) == FoldLeft(LAMBDA taken, m : TakeMemory(taken, m, subBudget, budget), <<>>,
                              SubSeq(ranked, 1, k))
        misfits   == {k \in 1 .. Len(ranked) : Len(chosen(k)) < k}
    IN  IF misfits = {} THEN chosen(Len(ranked)) ELSE chosen(Min(misfits))

SelectMemories(ranked, subBudget, budget) ==
    FoldLeft(LAMBDA chosen, m : TakeMemory(chosen, m, subBudget, budget), <<>>, ranked)

\* One turn, newest first: whole, or its text alone, or the end of the search.
TakeTurn(acc, turn) ==
    LET fits(cost)       == cost <= acc.tokens
        take(keep, cost) ==
          [turns |-> <<[messages |-> turn, keep |-> keep]>> \o acc.turns,
           room |-> acc.room - Len(turn), tokens |-> acc.tokens - cost,
           open |-> acc.room > Len(turn)]
    IN  IF ~acc.open THEN acc
        ELSE IF Len(turn) > acc.room THEN [acc EXCEPT !.open = FALSE]
        ELSE IF fits(FullCost(turn)) THEN take(TRUE, FullCost(turn))
        ELSE IF fits(TextOnlyCost(turn)) THEN take(FALSE, TextOnlyCost(turn))
        ELSE [acc EXCEPT !.open = FALSE]

\* Mutant: a turn that does not fit is passed over, and an older one is taken.
SelectTurnsPastGaps(turns, room, tokens) ==
    FoldLeft(LAMBDA acc, turn : [TakeTurn(acc, turn) EXCEPT !.open = (room > 0)],
             [turns |-> <<>>, room |-> room, tokens |-> tokens, open |-> TRUE],
             Reverse(turns)).turns

SelectTurns(turns, room, tokens) ==
    FoldLeft(TakeTurn, [turns |-> <<>>, room |-> room, tokens |-> tokens, open |-> TRUE],
             Reverse(turns)).turns

Mandatory(r) == TextCost(r.system) + FullCost(<<r.current>>)

\* process_message: rank, then plan; the memories are paid before the history.
Plan(r) ==
    IF Mandatory(r) > r.budget \/ r.cap < 1
    THEN [status |-> "current_over_budget", turns |-> <<>>, memories |-> <<>>]
    ELSE LET left     == r.budget - Mandatory(r)
             memories == SelectMemories(RankMemories(r.query, r.memories, r.limit),
                                        r.subBudget, left)
         IN  [status |-> "ok", memories |-> memories,
              turns |-> SelectTurns(GroupTurns(r.history), r.cap - 1,
                                    left - MemoryCost(memories))]

-----------------------------------------------------------------------------
(* What a plan must be, without reference to how it is found                *)

Messages(turns) == FlattenSeq([i \in DOMAIN turns |-> turns[i].messages])

TurnCost(turn) == IF turn.keep THEN FullCost(turn.messages) ELSE TextOnlyCost(turn.messages)
CostOf(turns)  == Total([i \in DOMAIN turns |-> TurnCost(turns[i])])

\* The request fits both limits as it will be sent.
WithinBudget(r, p) ==
    /\ Mandatory(r) + MemoryCost(p.memories) + CostOf(p.turns) <= r.budget
    /\ MemoryCost(p.memories) <= r.subBudget
    /\ 1 + Len(Messages(p.turns)) <= r.cap

\* The history is the end of the conversation, cut between two turns, and the
\* turn before the cut would not have fitted even without its images.
NewestTurns(r, p) ==
    LET all  == GroupTurns(r.history)
        kept == Len(p.turns)
    IN  /\ Messages(p.turns) = FlattenSeq(SubSeq(all, Len(all) - kept + 1, Len(all)))
        /\ kept < Len(all) =>
             LET next == all[Len(all) - kept] IN
             \/ Len(next) + Len(Messages(p.turns)) + 1 > r.cap
             \/ TextOnlyCost(next) + CostOf(p.turns)
                  > r.budget - Mandatory(r) - MemoryCost(p.memories)

\* A turn lost its images only where they did not fit after the newer turns.
ImagesKept(r, p) ==
    \A i \in DOMAIN p.turns :
        p.turns[i].keep \/
        FullCost(p.turns[i].messages) + CostOf(SubSeq(p.turns, i + 1, Len(p.turns)))
          > r.budget - Mandatory(r) - MemoryCost(p.memories)

\* What ranks a memory before another, the first difference deciding.
Score(query, m) == <<IF m.whole THEN 1 ELSE 0, Overlap(query, m), m.updated, m.id>>

Outranks(query, a, b) ==
    \E d \in 1 .. 4 :
        /\ Score(query, a)[d] > Score(query, b)[d]
        /\ \A e \in 1 .. d - 1 : Score(query, a)[e] = Score(query, b)[e]

\* The memories that may be sent: relevant, and among the best of the scope.
Candidates(r) ==
    {m \in r.memories :
        /\ r.query # {} /\ Relevant(r.query, m)
        /\ Cardinality({n \in r.memories : Outranks(r.query, n, m)}) < r.limit}

\* Beside the memories sent that outrank it, m would not have fitted.
NoRoomFor(r, sent, m) ==
    \E k \in 0 .. Len(sent) :
        /\ \A i \in 1 .. Len(sent) : IF i <= k THEN Outranks(r.query, sent[i], m)
                                              ELSE Outranks(r.query, m, sent[i])
        /\ \/ MemoryCost(Append(SubSeq(sent, 1, k), m)) > r.subBudget
           \/ Mandatory(r) + MemoryCost(Append(SubSeq(sent, 1, k), m)) > r.budget

\* The memories are candidates, best first, and every candidate is among them
\* that would have fitted beside the better ones.
BestMemories(r, p) ==
    /\ \A i \in 1 .. Len(p.memories) : p.memories[i] \in Candidates(r)
    /\ \A i, j \in 1 .. Len(p.memories) :
          i < j => Outranks(r.query, p.memories[i], p.memories[j])
    /\ \A m \in Candidates(r) :
          \/ \E i \in 1 .. Len(p.memories) : p.memories[i] = m
          \/ NoRoomFor(r, p.memories, m)
=============================================================================
