-------------------------- MODULE ConversationTurns -------------------------
(***************************************************************************)
(* Chat requests of the application server: the in-memory conversation     *)
(* cache (src/server/message_handler.py), the registration of active turns *)
(* and their stop events (src/sdk/turn/_turn.py), the tool loop with its   *)
(* hooks (src/sdk/turn/_execution.py, src/sdk/hooks) and the history file  *)
(* of each conversation (src/conversations/_store.py).                     *)
(*                                                                         *)
(* A request is a coroutine on one event loop; its stage "at" is where it  *)
(* awaits, and everything up to the next await is one step. Requests share *)
(* history objects by reference, so they live in a heap. A message is its  *)
(* turn and its kind; all results of one round of calls are one message,   *)
(* since the loop appends them without an await in between. The summaries  *)
(* that replace old messages when the context fills up are left out.       *)
(***************************************************************************)
EXTENDS Integers, SequencesExt, FiniteSetsExt

CONSTANTS
    Conv,           \* conversations
    MaxCached,      \* _MAX_CACHED_CONVERSATIONS
    Patient,        \* whether a client asks for a conversation only when it
                    \* has no request in flight for it
    MaxRequests,    \* bound: chat and resume requests
    MaxRounds,      \* bound: rounds of tool calls in a turn
    MaxRestarts     \* bound: restarts of the server

ASSUME TurnsAssumption ==
    /\ MaxCached \in Nat
    /\ Patient \in BOOLEAN
    /\ MaxRequests \in Nat \ {0}
    /\ MaxRounds \in Nat
    /\ MaxRestarts \in Nat

VARIABLES
    cached,     \* _conversations: the history object of each, 0 if it has none
    lru,        \* the keys of _conversations, least recently used first
    heap,       \* ConversationHistory objects, named by the request that made them
    disk,       \* history.json of each conversation, or NoFile
    active,     \* _active_conversations
    stopEvent,  \* _active_stop_events: the turn whose event is registered, or 0
    req,        \* the requests
    kept,       \* observed: turns that have ended, their conversation not deleted since
    restarts    \* restarts so far

cache == <<cached, lru>>
scope == <<active, stopEvent>>
vars  == <<cache, heap, disk, scope, req, kept, restarts>>

Request == 1..MaxRequests
Object  == Request
Message == [turn : Request, kind : {"user", "nudge", "halt", "calls", "results", "reply"}]
NoFile  == <<>>             \* a file that exists holds at least one message
NoConv  == "none"
ASSUME NoConvAssumption == NoConv \notin Conv

Stage    == {"unused", "evicting", "starting", "model", "tools", "closing", "done"}
InScope  == {"model", "tools", "closing"}       \* between the ends of turn_scope
InFlight == {"evicting", "starting"} \cup InScope

NoReq == [kind |-> "chat", at |-> "unused", conv |-> NoConv, obj |-> 0,
          stop |-> FALSE, nudged |-> FALSE, cut |-> "no", rounds |-> 0]

Ended(q)   == [NoReq EXCEPT !.kind = q.kind, !.at = "done", !.conv = q.conv, !.cut = q.cut]
Msg(r, k)  == <<[turn |-> r, kind |-> k]>>
Turns(c)   == {r \in Request : req[r].conv = c /\ req[r].at \in InScope}
Waiting(c) == {r \in Request : req[r].conv = c /\ req[r].at \in InFlight}

Fresh(r)  == req[r].at = "unused" /\ \A s \in 1..(r - 1) : req[s].at # "unused"
MayAsk(c) == Patient => Waiting(c) = {}

------------------------------------------------------------------------------
(* The cache. *)

Init ==
    /\ cached = [c \in Conv |-> 0] /\ lru = <<>>
    /\ heap = [o \in Object |-> <<>>]
    /\ disk = [c \in Conv |-> NoFile]
    /\ active = {} /\ stopEvent = [c \in Conv |-> 0]
    /\ req = [r \in Request |-> NoReq]
    /\ kept = {} /\ restarts = 0

Moved(c) == Append(Remove(lru, c), c)

\* Slip: a cache miss starts an empty history.
HydratedEmpty(c) == <<>>

\* load_conversation_history: what a history object made on a cache miss holds
Hydrated(c) == disk[c]

\* The end of _get_conversation, which looks its conversation up again (a
\* KeyError if it is gone), or of resume_conversation; q is the request.
Returned(q, objs) ==
    IF q.kind = "chat" /\ objs[q.conv] # 0
    THEN [q EXCEPT !.at = "starting", !.obj = objs[q.conv]]
    ELSE Ended(q)

\* Slip: eviction does not ask whether a turn is active.
EvictableAny(order, c) == {i \in 1..Len(order) : order[i] # c}

\* The positions _evict_lru_conversation may drop on behalf of c.
Evictable(order, c) == {i \in 1..Len(order) : order[i] \notin active \cup {c}}

\* One test of the eviction loop of request r, whose record is q, in a cache
\* with these keys and objects, and what follows up to an await or its return.
Evict(r, q, order, objs) ==
    LET room == Evictable(order, q.conv)
    IN  IF Len(order) <= MaxCached \/ room = {}
        THEN /\ lru' = order /\ cached' = objs
             /\ req' = [req EXCEPT ![r] = Returned(q, objs)]
        ELSE /\ lru' = RemoveAt(order, Min(room))
             /\ cached' = [objs EXCEPT ![order[Min(room)]] = 0]
             /\ req' = [req EXCEPT ![r] = [q EXCEPT !.at = "evicting"]]

\* chat_handler, _get_conversation: a hit goes on to the turn without an
\* await, a miss installs what the file holds and makes room.
ChatHit(r, c) ==
    /\ Fresh(r) /\ MayAsk(c) /\ cached[c] # 0
    /\ lru' = Moved(c)
    /\ req' = [req EXCEPT ![r] = [NoReq EXCEPT !.at = "starting", !.conv = c, !.obj = cached[c]]]
    /\ UNCHANGED <<cached, heap, disk, scope, kept, restarts>>

ChatMiss(r, c) ==
    /\ Fresh(r) /\ MayAsk(c) /\ cached[c] = 0
    /\ heap' = [heap EXCEPT ![r] = Hydrated(c)]
    /\ Evict(r, [NoReq EXCEPT !.conv = c], Append(lru, c), [cached EXCEPT ![c] = r])
    /\ UNCHANGED <<disk, scope, kept, restarts>>

\* resume_conversation of a conversation that has a file, cached or not
Resume(r, c) ==
    /\ Fresh(r) /\ MayAsk(c) /\ disk[c] # NoFile
    /\ heap' = [heap EXCEPT ![r] = Hydrated(c)]
    /\ Evict(r, [NoReq EXCEPT !.kind = "resume", !.conv = c], Moved(c), [cached EXCEPT ![c] = r])
    /\ UNCHANGED <<disk, scope, kept, restarts>>

\* release_agent_browser has returned.
EvictMore(r) ==
    /\ req[r].at = "evicting"
    /\ Evict(r, req[r], lru, cached)
    /\ UNCHANGED <<heap, disk, scope, kept, restarts>>

------------------------------------------------------------------------------
(* A turn. *)

Wrote(r, messages) == heap' = [heap EXCEPT ![req[r].obj] = @ \o messages]

\* run_turn's finally: on_turn_end saves the whole history.
Saved(r, messages) ==
    /\ Wrote(r, messages)
    /\ disk' = [disk EXCEPT ![req[r].conv] = heap'[req[r].obj]]
    /\ kept' = kept \cup {r}

\* The profile is refused or the client goes away before the turn.
Abandon(r) ==
    /\ req[r].at = "starting"
    /\ req' = [req EXCEPT ![r] = Ended(@)]
    /\ UNCHANGED <<cache, heap, disk, scope, kept, restarts>>

\* _run_turn up to the first model call; no nudge or stop can come before it.
BeginTurn(r) ==
    /\ req[r].at = "starting"
    /\ active' = active \cup {req[r].conv}
    /\ stopEvent' = [stopEvent EXCEPT ![req[r].conv] = r]
    /\ Wrote(r, Msg(r, "user"))
    /\ req' = [req EXCEPT ![r].at = "model"]
    /\ UNCHANGED <<cache, disk, kept, restarts>>

\* The model answers without tool calls. A stop seen by after_model drops the
\* answer and appends the request to wrap up instead.
Answer(r) ==
    /\ req[r].at = "model"
    /\ Saved(r, Msg(r, IF req[r].stop THEN "halt" ELSE "reply"))
    /\ req' = [req EXCEPT ![r].at = "closing"]
    /\ UNCHANGED <<cache, scope, restarts>>

\* Slip: after_model does not look at the stop event.
CallToolsAnyway(r) ==
    /\ req[r].at = "model" /\ req[r].rounds < MaxRounds
    /\ Wrote(r, Msg(r, "calls"))
    /\ req' = [req EXCEPT ![r].at = "tools", ![r].rounds = @ + 1]
    /\ UNCHANGED <<cache, disk, scope, kept, restarts>>

\* The model answers with tool calls, which start to run; the bound on rounds
\* is the model's, not the code's.
CallTools(r) ==
    /\ req[r].at = "model" /\ ~req[r].stop /\ req[r].rounds < MaxRounds
    /\ Wrote(r, Msg(r, "calls"))
    /\ req' = [req EXCEPT ![r].at = "tools", ![r].rounds = @ + 1]
    /\ UNCHANGED <<cache, disk, scope, kept, restarts>>

\* The provider fails for good, or the client goes away while it answers.
ModelFails(r) ==
    /\ req[r].at = "model"
    /\ Saved(r, <<>>)
    /\ req' = [req EXCEPT ![r].at = "closing"]
    /\ UNCHANGED <<cache, scope, restarts>>

\* check_stop in before_model
Halted(r) == req[r].stop

\* gather returns and the results are appended; before_model injects the
\* nudges, then looks at the stop event.
Results(r) ==
    LET added == Msg(r, "results") \o IF req[r].nudged THEN Msg(r, "nudge") ELSE <<>>
    IN  /\ req[r].at = "tools"
        /\ IF Halted(r) THEN Saved(r, added) ELSE Wrote(r, added) /\ UNCHANGED <<disk, kept>>
        /\ req' = [req EXCEPT ![r].at = IF Halted(r) THEN "closing" ELSE "model",
                              ![r].nudged = FALSE]
        /\ UNCHANGED <<cache, scope, restarts>>

\* gather raises: a sub-agent among the tools has seen the stop, or the
\* client went away and the producer task is cancelled.
CutShort(r, why) ==
    /\ req[r].at = "tools"
    /\ Saved(r, <<>>)
    /\ req' = [req EXCEPT ![r].at = "closing", ![r].cut = why]
    /\ UNCHANGED <<cache, scope, restarts>>

SubAgentStops(r) == req[r].stop /\ CutShort(r, "stop")
ClientGone(r)    == CutShort(r, "gone")

\* turn_scope's finally, after the drain: the conversation is no longer
\* active, whoever else runs a turn of it.
Left(c) == active' = active \ {c} /\ stopEvent' = [stopEvent EXCEPT ![c] = 0]

EndTurn(r) ==
    /\ req[r].at = "closing"
    /\ Left(req[r].conv)
    /\ req' = [req EXCEPT ![r] = Ended(@)]
    /\ UNCHANGED <<cache, heap, disk, kept, restarts>>

------------------------------------------------------------------------------
(* Other requests, and the end of the process. *)

\* stop_handler: request_stop sets the event registered for the conversation.
Stop(c) ==
    /\ stopEvent[c] # 0 /\ ~req[stopEvent[c]].stop
    /\ req' = [req EXCEPT ![stopEvent[c]].stop = TRUE]
    /\ UNCHANGED <<cache, heap, disk, scope, kept, restarts>>

\* Slip: the nudge goes into the history at once.
NudgeAtOnce(r) ==
    /\ req[r].at \in {"model", "tools"} /\ req[r].conv \in active /\ ~req[r].nudged
    /\ Wrote(r, Msg(r, "nudge"))
    /\ req' = [req EXCEPT ![r].nudged = TRUE]
    /\ UNCHANGED <<cache, disk, scope, kept, restarts>>

\* nudge_handler: queued for the turn's root agent while the conversation is
\* active; the queue goes with the agent's span.
Nudge(r) ==
    /\ req[r].at \in {"model", "tools"} /\ req[r].conv \in active /\ ~req[r].nudged
    /\ req' = [req EXCEPT ![r].nudged = TRUE]
    /\ UNCHANGED <<cache, heap, disk, scope, kept, restarts>>

\* delete_conversation_handler removes the directory and leaves the cache.
Delete(c) ==
    /\ disk[c] # NoFile /\ MayAsk(c)
    /\ disk' = [disk EXCEPT ![c] = NoFile]
    /\ kept' = {r \in kept : req[r].conv # c}
    /\ UNCHANGED <<cache, heap, scope, req, restarts>>

Restart ==
    /\ restarts < MaxRestarts
    /\ restarts' = restarts + 1
    /\ cached' = [c \in Conv |-> 0] /\ lru' = <<>> /\ heap' = [o \in Object |-> <<>>]
    /\ active' = {} /\ stopEvent' = [c \in Conv |-> 0]
    /\ req' = [r \in Request |-> IF req[r].at \in InFlight THEN Ended(req[r]) ELSE req[r]]
    /\ UNCHANGED <<disk, kept>>

TurnStep(r) ==
    \/ BeginTurn(r) \/ Abandon(r)
    \/ Answer(r) \/ CallTools(r) \/ ModelFails(r)
    \/ Results(r) \/ SubAgentStops(r) \/ ClientGone(r)
    \/ EndTurn(r)

Next ==
    \/ \E r \in Request, c \in Conv : ChatHit(r, c) \/ ChatMiss(r, c) \/ Resume(r, c)
    \/ \E r \in Request : EvictMore(r) \/ TurnStep(r) \/ Nudge(r)
    \/ \E c \in Conv : Stop(c) \/ Delete(c)
    \/ Restart

Spec == Init /\ [][Next]_vars

------------------------------------------------------------------------------
(* Properties. *)

\* Every variable has its type, and a request that has a turn to run or runs
\* it holds a history object.
TypeOK ==
    /\ cached \in [Conv -> Object \cup {0}]
    /\ lru \in Seq(Conv)
    /\ heap \in [Object -> Seq(Message)]
    /\ disk \in [Conv -> Seq(Message)]
    /\ active \subseteq Conv
    /\ stopEvent \in [Conv -> Request \cup {0}]
    /\ req \in [Request -> [kind : {"chat", "resume"}, at : Stage, conv : Conv \cup {NoConv},
                            obj : Object \cup {0}, stop : BOOLEAN, nudged : BOOLEAN,
                            cut : {"no", "stop", "gone"}, rounds : 0..MaxRounds]]
    /\ \A r \in Request : req[r].at \in InScope \cup {"starting"} => req[r].obj # 0 /\ req[r].conv \in Conv
    /\ kept \subseteq Request
    /\ restarts \in 0..MaxRestarts

\* A history in which message i holds tool calls has their results next.
CallAnswered(h, i) == i < Len(h) /\ h[i + 1] = [h[i] EXCEPT !.kind = "results"]

\* A stop leaves no dangling calls in what a model is sent later: calls
\* without results are only those of a turn whose client went away.
StopLeavesNoDanglingCalls ==
    \A r \in Request : req[r].at = "model" =>
        LET h == heap[req[r].obj]
        IN  \A i \in 1..Len(h) :
              h[i].kind = "calls" /\ ~CallAnswered(h, i) => req[h[i].turn].cut = "gone"

\* Only a turn cut short during its tools leaves calls without results, and
\* results never stand anywhere but behind their calls, whatever nudges,
\* stops, evictions and restarts come in between.
OnlyCutTurnsDangle ==
    \A r \in Request : req[r].at = "model" =>
        LET h == heap[req[r].obj]
        IN  \A i \in 1..Len(h) :
              /\ h[i].kind = "calls" /\ ~CallAnswered(h, i) => req[h[i].turn].cut # "no"
              /\ h[i].kind = "results" =>
                    i > 1 /\ h[i - 1].kind = "calls" /\ h[i - 1].turn = h[i].turn

\* The cached history of a conversation at rest is the one its file holds, so
\* that dropping it from the cache loses nothing; the file may be gone.
CacheMatchesDisk ==
    \A c \in Conv : Waiting(c) = {} /\ cached[c] # 0 /\ disk[c] # NoFile =>
        disk[c] = heap[cached[c]]

\* A turn that has ended stays in its conversation's file through evictions,
\* resumes, failures and restarts, until the conversation is deleted.
NoTurnLost ==
    \A r \in kept :
        LET h == disk[req[r].conv]
        IN  \E i \in 1..Len(h) : h[i] = [turn |-> r, kind |-> "user"]

\* is_turn_active and request_stop speak of the turn that runs: a
\* conversation is active exactly while a turn of it is in scope, and the
\* stop event registered for it is that turn's.
ScopeTracked ==
    \A c \in Conv :
        /\ c \in active <=> Turns(c) # {}
        /\ Turns(c) = IF stopEvent[c] = 0 THEN {} ELSE {stopEvent[c]}

\* A conversation whose turn is in flight keeps its cache entry (the promise
\* of _evict_lru_conversation).
ActiveStaysCached ==
    [][\A r \in Request :
          /\ req[r].at \in InScope /\ cached[req[r].conv] = req[r].obj
          /\ req'[r].at \in InScope
          => cached'[req[r].conv] = req[r].obj]_vars

\* A turn that has been asked to stop writes no further reply and starts no
\* further tools, at whatever await the request finds it.
StopIsHeard ==
    [][\A r \in Request : req[r].stop =>
          LET h == heap'[req[r].obj]
          IN  Len(h) > Len(heap[req[r].obj]) /\ Last(h).turn = r => Last(h).kind \notin {"calls", "reply"}]_vars

\* There are no two parallel writers of one conversation: turns in scope of
\* the same conversation write to the same history object.
SoleWriter ==
    \A r, s \in Request :
        req[r].at \in InScope /\ req[s].at \in InScope /\ req[r].conv = req[s].conv
            => req[r].obj = req[s].obj
=============================================================================
