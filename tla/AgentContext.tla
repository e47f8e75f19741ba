---------------------------- MODULE AgentContext ----------------------------
(***************************************************************************)
(* One agent's conversation history between its turns, its model calls and *)
(* the summaries that replace old messages: run_turn and the retries of a  *)
(* model call (src/sdk/turn/_execution.py), the default hooks around it    *)
(* (src/sdk/hooks) and the compaction of a full context                    *)
(* (src/sdk/context/_strategy.py).                                         *)
(*                                                                         *)
(* A message stands for itself: "covers" is the set of messages whose      *)
(* content a reader of it can still learn, itself for a plain message, the *)
(* compacted ones for a summary. The system message, which no step reads,  *)
(* is left out; sizes are in units of the estimator.                       *)
(***************************************************************************)
EXTENDS Integers, SequencesExt, FiniteSetsExt

CONSTANTS
    Tool,           \* names of tools
    Reply,          \* what a model may answer: its calls, and whether it wrote text
    Sizes,          \* sizes of a tool's result
    Limit,          \* size at which the context is full enough to compact
    KeepGroups,     \* keep_recent_groups of the strategy
    ChunkTarget,    \* chunk_target of the summarizer
    MaxIterations,  \* max_iterations of the agent, 0 for no budget
    LoopThreshold,  \* threshold of LoopDetector
    ResultCap,      \* size above which ToolResultCapHook discards a result
    Parallel,       \* whether the calls of a round run concurrently
    Retries,        \* retries of a model call
    MaxMessages     \* bound: messages ever appended

ASSUME ContextAssumption ==
    /\ Reply \subseteq [calls : Seq(Tool), text : BOOLEAN]
    /\ Sizes \subseteq Nat \ {0}
    /\ Limit \in Nat /\ KeepGroups \in Nat /\ ChunkTarget \in Nat
    /\ MaxIterations \in Nat /\ LoopThreshold \in Nat \ {0}
    /\ ResultCap \in Nat /\ Parallel \in BOOLEAN /\ Retries \in Nat /\ MaxMessages \in Nat

VARIABLES
    hist,       \* ConversationHistory without its system message
    at,         \* where run_turn awaits
    iteration,  \* iteration of the tool loop
    warned,     \* BudgetGuard._exhausted
    round,      \* LoopDetector._current_round, in order of completion
    recent,     \* LoopDetector._recent
    nudged,     \* whether the agent's nudge queue holds something
    stop,       \* whether the turn's stop event is set
    attempt,    \* failed attempts of the model call
    shown,      \* what of the answer the client has been sent
    results,    \* sizes of the round's results so far, 0 for a call that runs
    plan,       \* the messages the strategy has picked, counted before it awaits
    summary,    \* what the summarizer has answered, while the intent is extracted
    born,       \* observed: messages appended so far
    voided,     \* observed: messages condensed into an empty answer
    cut,        \* observed: assistant messages whose round never completed
    rounds      \* observed: calls of the turn's rounds since the last warning

agent == <<iteration, warned, nudged, stop>>
loop  == <<round, recent, rounds>>
seen  == <<born, voided, cut>>
vars  == <<hist, at, agent, loop, attempt, shown, results, plan, summary, seen>>

Stage == {"idle", "hooks", "summarizing", "intent", "calling", "backoff", "tools"}
Busy  == {"summarizing", "intent", "calling", "backoff", "tools"}
None  == [covers |-> {}, size |-> 0]

Plain(role, id, size) ==
    [role |-> role, id |-> id, summary |-> FALSE, text |-> TRUE, calls |-> <<>>,
     call |-> <<>>, size |-> size, covers |-> {id}]
Covered(s) == UNION {s[i].covers : i \in DOMAIN s}
Size(s) == FoldSeq(LAMBDA m, n : m.size + n, 0, s)

Init ==
    /\ hist = <<>> /\ at = "idle"
    /\ iteration = 0 /\ warned = FALSE /\ nudged = FALSE /\ stop = FALSE
    /\ round = <<>> /\ recent = <<>> /\ rounds = <<>>
    /\ attempt = 0 /\ shown = "nothing" /\ results = <<>>
    /\ plan = <<>> /\ summary = None
    /\ born = 0 /\ voided = {} /\ cut = {}

-----------------------------------------------------------------------------
(* The compaction strategy's choices                                       *)

IsAssistant(m) == m.role = "assistant"

(* The messages from the KeepGroups-th last assistant message on.          *)
CountKept(s) ==
    LET says == {i \in DOMAIN s : IsAssistant(s[i])}
        last == {i \in says : Cardinality({j \in says : j > i}) < KeepGroups}
    IN IF last = {} THEN 0 ELSE Len(s) + 1 - Min(last)

(* A pinned message is the first of the history, wherever the first user   *)
(* message is.                                                             *)
HasPinned(s) == \E i \in DOMAIN s : s[i].role = "user"
Body(s) == IF HasPinned(s) THEN Tail(s) ELSE s
Compactable(s) == LET b == Body(s) IN SubSeq(b, 1, Len(b) - CountKept(b))

(* What a reader of the summarizer's input can learn: every message but    *)
(* summaries, and the first summary as the prior one.                      *)
Prior(s) == LET old == {i \in DOMAIN s : s[i].summary}
            IN IF old = {} THEN {} ELSE s[Min(old)].covers
SummarizerInput(s) == Prior(s) \cup UNION {s[i].covers : i \in {j \in DOMAIN s : ~s[j].summary}}

(* Whether the split before m would separate a call from its result, as    *)
(* the code looks at it: by the chunk's last message alone.                *)
WouldSplitPair(chunk, m) ==
    /\ m.role = "tool"
    /\ IsAssistant(Last(chunk)) /\ Last(chunk).calls # <<>>

SplitIntoChunks(s) ==
    FoldLeft(LAMBDA chunks, m :
        IF chunks = <<>> THEN <<<<m>>>>
        ELSE IF /\ Size(Last(chunks)) + m.size > ChunkTarget
                /\ ~WouldSplitPair(Last(chunks), m)
        THEN Append(chunks, <<m>>)
        ELSE Append(Front(chunks), Append(Last(chunks), m)),
        <<>>, s)

-----------------------------------------------------------------------------
(* A turn                                                                  *)

EndTurn ==
    /\ at' = "idle" /\ nudged' = FALSE /\ stop' = FALSE
    /\ plan' = <<>> /\ summary' = None /\ results' = <<>>

(* A request appends its message; hooks are made anew for each turn.       *)
UserMessage ==
    /\ at = "idle" /\ born < MaxMessages
    /\ hist' = Append(hist, Plain("user", born + 1, 1))
    /\ born' = born + 1
    /\ at' = "hooks"
    /\ iteration' = 0 /\ warned' = FALSE
    /\ round' = <<>> /\ recent' = <<>> /\ rounds' = <<>>
    /\ attempt' = 0 /\ shown' = "nothing"
    /\ UNCHANGED <<nudged, stop, results, plan, summary, voided, cut>>

Nudge == at \in Busy /\ ~nudged /\ nudged' = TRUE
         /\ UNCHANGED <<hist, at, iteration, warned, stop, loop, attempt, shown,
                        results, plan, summary, seen>>
Stop  == at \in Busy /\ ~stop /\ stop' = TRUE
         /\ UNCHANGED <<hist, at, iteration, warned, nudged, loop, attempt, shown,
                        results, plan, summary, seen>>

(* LoopDetector closes the round before a call: the same signature         *)
(* LoopThreshold times in a row is a loop.                                 *)
Remembered == LET r == Append(recent, round)
              IN IF Len(r) > LoopThreshold THEN Tail(r) ELSE r

Looping == /\ round # <<>>
           /\ Len(Remembered) = LoopThreshold
           /\ Cardinality(ToSet(Remembered)) = 1

Exhausted == MaxIterations > 0 /\ ~warned /\ iteration + 1 > MaxIterations

(* The before_model hooks, in order: nudges, the stop check, the budget,   *)
(* the loop detector, compaction. The strategy counts, then awaits.        *)
StopSeen == stop
BeforeModel ==
    LET said  == (IF nudged THEN 1 ELSE 0)
        more  == said + (IF Exhausted THEN 1 ELSE 0) + (IF Looping THEN 1 ELSE 0)
        added == IF StopSeen THEN said ELSE more
        h     == hist \o [k \in 1..added |-> Plain("user", born + k, 1)]
    IN
    /\ at = "hooks"
    /\ hist' = h /\ born' = born + added
    /\ IF StopSeen
       THEN EndTurn /\ UNCHANGED <<iteration, warned, loop, attempt, shown, voided, cut>>
       ELSE /\ iteration' = iteration + 1
            /\ warned' = (warned \/ Exhausted)
            /\ nudged' = FALSE
            /\ recent' = IF round = <<>> THEN recent
                         ELSE IF Looping THEN <<>> ELSE Remembered
            /\ rounds' = IF Looping THEN <<>> ELSE rounds
            /\ round' = <<>>
            /\ attempt' = 0 /\ shown' = "nothing"
            /\ LET full == Size(h) >= Limit /\ Compactable(h) # <<>>
               IN /\ plan' = IF full THEN Compactable(h) ELSE <<>>
                  /\ at' = IF full THEN "summarizing" ELSE "calling"
            /\ UNCHANGED <<stop, results, summary, voided, cut>>

(* No model configured, a time-out, an error: the call goes ahead with the *)
(* history as it is.                                                       *)
SummaryFails ==
    /\ at = "summarizing"
    /\ at' = "calling" /\ plan' = <<>>
    /\ UNCHANGED <<hist, agent, loop, attempt, shown, results, summary, seen>>

\* Slip: the range starts at the pinned message's place, as if it were dropped too.
ReplacedOneMore(s, learnt, pinned) ==
    LET note == [Plain("assistant", 0, 1) EXCEPT !.summary = TRUE, !.covers = learnt]
    IN pinned \o <<note>> \o SubSeq(s, Len(pinned) + Len(plan) + 2, Len(s))

(* The picked messages give way to a summary after the pinned one, by      *)
(* position; the pinned message takes the extracted intent, if any.        *)
Replaced(s, learnt, pinned) ==
    LET start == IF HasPinned(s) THEN 1 ELSE 0
        note  == [Plain("assistant", 0, 1) EXCEPT !.summary = TRUE, !.covers = learnt]
    IN pinned \o <<note>> \o SubSeq(s, start + Len(plan) + 1, Len(s))

UserIds(s) == UNION {s[i].covers : i \in {j \in DOMAIN s : s[j].role = "user"}}

Compact(learnt, intent) ==
    LET pinned == IF HasPinned(hist) THEN <<Head(hist)>> ELSE <<>>
        kept   == CASE intent = "none"  -> pinned
                    [] intent = "text"  -> <<[Head(hist) EXCEPT !.covers = UserIds(hist), !.size = 1]>>
                    [] intent = "blank" -> <<[Head(hist) EXCEPT !.covers = {}, !.size = 1]>>
        new    == Replaced(hist, learnt, kept)
    IN
    /\ hist' = new
    /\ voided' = voided \cup (IF intent = "blank" THEN Covered(pinned) ELSE {})
                       \cup (IF learnt = {} THEN Covered(plan) ELSE {})
    /\ at' = "calling" /\ plan' = <<>> /\ summary' = None

(* The summarizer answers, with nothing at worst. More than one user       *)
(* message asks for the intent next, which may time out or be empty too.   *)
SummaryDone(blank) ==
    LET learnt == IF blank THEN {} ELSE SummarizerInput(plan)
    IN
    /\ at = "summarizing"
    /\ IF HasPinned(hist) /\ Cardinality({i \in DOMAIN hist : hist[i].role = "user"}) > 1
       THEN /\ at' = "intent" /\ summary' = [covers |-> learnt, size |-> 1]
            /\ UNCHANGED <<hist, plan, voided>>
       ELSE Compact(learnt, "none")
    /\ UNCHANGED <<agent, loop, attempt, shown, results, born, cut>>

IntentDone(intent) ==
    /\ at = "intent"
    /\ Compact(summary.covers, intent)
    /\ UNCHANGED <<agent, loop, attempt, shown, results, born, cut>>

-----------------------------------------------------------------------------
(* The model call                                                          *)

(* A delta is published as it arrives, on the first attempt only: a retry  *)
(* does not stream.                                                        *)
Delta ==
    /\ at = "calling" /\ attempt = 0 /\ shown = "nothing"
    /\ shown' = "part"
    /\ UNCHANGED <<hist, at, agent, loop, attempt, results, plan, summary, seen>>

CallFails(retryable) ==
    /\ at = "calling"
    /\ IF retryable /\ attempt < Retries
       THEN /\ attempt' = attempt + 1 /\ at' = "backoff"
            /\ UNCHANGED <<nudged, stop, plan, summary, results>>
       ELSE EndTurn /\ UNCHANGED attempt
    /\ UNCHANGED <<hist, iteration, warned, loop, shown, seen>>

Retry ==
    /\ at = "backoff"
    /\ at' = "calling"
    /\ UNCHANGED <<hist, agent, loop, attempt, shown, results, plan, summary, seen>>

(* after_model: a stop strips the calls and leaves a note instead of the   *)
(* answer. Otherwise the answer is appended, published whole unless some   *)
(* of it was streamed, on whichever attempt, and its calls start.          *)
Answer(calls, text) ==
    /\ at = "calling" /\ born < MaxMessages
    /\ born' = born + 1
    /\ IF StopSeen
       THEN /\ hist' = Append(hist, Plain("user", born + 1, 1))
            /\ EndTurn /\ UNCHANGED <<shown, rounds>>
       ELSE /\ hist' = Append(hist, [Plain("assistant", born + 1, 1) EXCEPT
                          !.calls = calls, !.text = text])
            /\ shown' = IF shown = "nothing" \/ attempt = 0 THEN "whole" ELSE shown
            /\ rounds' = IF calls = <<>> THEN rounds ELSE Append(rounds, calls)
            /\ IF calls = <<>> THEN EndTurn
               ELSE /\ at' = "tools" /\ results' = [k \in DOMAIN calls |-> 0]
                    /\ UNCHANGED <<nudged, stop, plan, summary>>
    /\ UNCHANGED <<iteration, warned, round, recent, attempt, voided, cut>>

(* An oversized result is replaced by a short error.                       *)
Capped(size) == IF size <= ResultCap THEN size ELSE 1

(* A call completes: its result, capped, waits for the others. Results are *)
(* appended in the order of the calls when the last one completes.         *)
ToolDone(k, size) ==
    LET a    == Last(hist)
        done == [results EXCEPT ![k] = Capped(size)]
    IN
    /\ at = "tools" /\ k \in DOMAIN results /\ results[k] = 0
    /\ Parallel \/ \A j \in 1..(k - 1) : results[j] # 0
    /\ round' = Append(round, a.calls[k])
    /\ IF \E j \in DOMAIN done : done[j] = 0
       THEN results' = done /\ UNCHANGED <<hist, at, born>>
       ELSE /\ hist' = hist \o [j \in DOMAIN done |->
                          [Plain("tool", born + j, done[j]) EXCEPT !.call = <<a.id, j>>]]
            /\ born' = born + Len(done)
            /\ results' = <<>> /\ at' = "hooks"
    /\ UNCHANGED <<agent, recent, rounds, attempt, shown, plan, summary, voided, cut>>

(* A sub-agent among the calls sees the stop, or the turn's task is        *)
(* cancelled where it awaits: the round is lost.                           *)
Abandon ==
    /\ at \in Busy
    /\ cut' = IF at = "tools" THEN cut \cup {Last(hist).id} ELSE cut
    /\ EndTurn
    /\ UNCHANGED <<hist, iteration, warned, loop, attempt, shown, born, voided>>

Next ==
    \/ UserMessage
    \/ Nudge
    \/ Stop
    \/ BeforeModel
    \/ SummaryFails
    \/ \E blank \in BOOLEAN : SummaryDone(blank)
    \/ \E intent \in {"none", "text", "blank"} : IntentDone(intent)
    \/ Delta
    \/ \E retryable \in BOOLEAN : CallFails(retryable)
    \/ Retry
    \/ \E r \in Reply : Answer(r.calls, r.text)
    \/ \E k \in 1..2, size \in Sizes : ToolDone(k, size)
    \/ Abandon

Spec == Init /\ [][Next]_vars

-----------------------------------------------------------------------------
(* Properties                                                              *)

TypeOK ==
    /\ at \in Stage
    /\ iteration \in Nat /\ attempt \in 0..Retries
    /\ {warned, nudged, stop} \subseteq BOOLEAN
    /\ born \in Nat /\ voided \subseteq 1..born /\ cut \subseteq 1..born
    /\ Covered(hist) \subseteq 1..born
    /\ Len(recent) <= LoopThreshold
    /\ (at = "tools") = (results # <<>>)
    /\ shown \in {"nothing", "part", "whole"}

(* However often a history is compacted, by position and after awaits, and *)
(* whatever fails in between, every message ever appended is still in the  *)
(* history, its summary or its intent, unless a model answered nothing.    *)
NothingForgotten == 1..born \subseteq Covered(hist) \cup voided

(* The history a model is asked with starts with the user's message, and   *)
(* each result in it stands among the results of its call's message, right *)
(* after it; every call has its result unless its round was lost.          *)
Follows(s, j) == CHOOSE i \in 0..(j - 1) :
    /\ i = 0 \/ s[i].role # "tool"
    /\ \A k \in (i + 1)..(j - 1) : s[k].role = "tool"
CallsAreAnswered(s) ==
    /\ s # <<>> => s[1].role = "user"
    /\ \A j \in DOMAIN s : s[j].role = "tool" =>
          LET i == Follows(s, j) IN
          i > 0 /\ s[i].id = s[j].call[1] /\ j - i = s[j].call[2]
    /\ \A i \in DOMAIN s : s[i].id \notin cut /\ s[i].calls # <<>> =>
          \A k \in DOMAIN s[i].calls :
              i + k \in DOMAIN s /\ s[i + k].call = <<s[i].id, k>>
SentIsWellFormed == at = "calling" => CallsAreAnswered(hist)

(* A warning to break a loop follows LoopThreshold rounds that asked for   *)
(* the same calls, and no earlier warning counts any of them.              *)
SameCalls(r1, r2) == \A t \in Tool :
    Cardinality({i \in DOMAIN r1 : r1[i] = t}) = Cardinality({i \in DOMAIN r2 : r2[i] = t})
Warned == at = "hooks" /\ rounds # <<>> /\ rounds' = <<>>
Repeated(s) ==
    /\ Len(s) >= LoopThreshold
    /\ \A i \in (Len(s) - LoopThreshold + 1)..Len(s) : SameCalls(s[i], Last(s))
LoopWarningsAreEarned == [][Warned => Repeated(rounds)]_vars

(* "On retry, fall back to non-streaming chat() to yield a single complete *)
(* ChatResponse instead" (_stream_chat_with_retries), "Emit full content   *)
(* only if no deltas were streamed" (run_turn): either way the client is   *)
(* shown the whole answer that the history keeps.                          *)
AnswersAreShown ==
    [][(at = "calling" /\ rounds' # rounds) => shown' = "whole"]_vars

(* The docstring of LLMCompactionStrategy: "The most recent messages are   *)
(* preserved verbatim".                                                    *)
MostRecentIsVerbatim ==
    [][(at \in {"summarizing", "intent"} /\ at' = "calling") => Last(hist') = Last(hist)]_vars

(* The docstring of _split_into_chunks: "a tool call and its result are    *)
(* never separated across chunks".                                         *)
ChunksKeepPairs ==
    at = "summarizing" =>
        \A c \in ToSet(SplitIntoChunks(plan)) : c[1].role # "tool"

(* Every picked message is summarized in exactly one chunk, in order.      *)
ChunksCoverPlan == at = "summarizing" => FlattenSeq(SplitIntoChunks(plan)) = plan
=============================================================================
