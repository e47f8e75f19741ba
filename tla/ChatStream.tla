------------------------------ MODULE ChatStream ------------------------------
(***************************************************************************)
(* From the agents of a turn to the page that shows them: the dispatcher   *)
(* of the turn's events (src/sdk/events), the buffer that keeps them for   *)
(* the file (src/sdk/hooks/_agent_event_buffer.py), the queue and the      *)
(* stream of the answer (src/server/message_handler.py, aiohttp_app.py),   *)
(* and the client that reads it (src/server/ui/src/hooks/useStreamingChat  *)
(* and useAgentState). Previews (screenshots, terminals, files) go to      *)
(* their agent as they are read and are left out, as are panels and        *)
(* selections. An event is its type and its agent.                         *)
(***************************************************************************)
EXTENDS Integers, SequencesExt, FiniteSets

CONSTANTS
    Plans,          \* what may be sent: for each message, the sub-agents (numbers
                    \* above 0) that its turn may spawn
    MaxSends,       \* bound: messages in a plan
    MaxPieces,      \* bound: pieces of text each agent streams between two calls
    Ahead,          \* bound: by the length of the plan, how many events a turn is
                    \* ahead of the client at most when it publishes more
    MaxSwitches     \* bound: new conversations begun and conversations loaded

\* The sub-agents of a turn are numbered from 1.
ASSUME PlansAssumption ==
    \A p \in Plans : \A s \in DOMAIN p : IsFiniteSet(p[s]) /\ p[s] = 1..Cardinality(p[s])

VARIABLES
    plan,       \* the plan that is followed
    phase,      \* each turn on the server
    agent,      \* each agent of a turn: "idle", "running", "ended", "stopped"
    said,       \* the events each turn has published
    heard,      \* how many of them the subscribers have handled
    mark,       \* how many there were when the root's span ended
    saved,      \* how many the file has got, Unsaved before
    stop,       \* whether the turn's stop event is set
    stream,     \* the client's side of each request: "unused", "open", "ended", "aborted", "failed"
    read,       \* how many events the client has taken from the stream
    pending,    \* entries that wait for the next animation frame
    streaming,  \* isStreaming
    ctrl,       \* abortControllerRef: the request it aborts, 0 if none
    messages,   \* the assistant messages shown
    node,       \* the agent nodes of the reducer
    conv,       \* conversationIdRef, and the conversation of each message sent
    loading     \* whether the answer to a resume request is awaited

serverVars == <<phase, agent, said, heard, mark, saved, stop>>
viewVars   == <<messages, node>>
clientVars == <<stream, read, pending, streaming, ctrl, viewVars, conv, loading>>
vars       == <<plan, serverVars, clientVars>>

Turn    == DOMAIN plan
Root    == 0
Member(s) == {Root} \cup plan[s]
Nobody  == -1               \* an event outside any agent's span has no agent_id
Unsaved == -1
Event(t, a) == [type |-> t, agent |-> a]
NoNode  == [status |-> "none", log |-> <<>>]
Subscribed == {"model", "tools", "closing", "yielding"}   \* the queue's handler is subscribed
Up      == Subscribed \cup {"draining"}                     \* within turn_scope

Init ==
    /\ plan \in Plans
    /\ phase = [s \in Turn |-> "unused"] /\ agent = [s \in Turn |-> [a \in Member(s) |-> "idle"]]
    /\ said = [s \in Turn |-> <<>>] /\ heard = [s \in Turn |-> 0]
    /\ mark = [s \in Turn |-> 0] /\ saved = [s \in Turn |-> Unsaved] /\ stop = [s \in Turn |-> FALSE]
    /\ stream = [s \in Turn |-> "unused"] /\ read = [s \in Turn |-> 0]
    /\ pending = [s \in Turn |-> <<>>] /\ streaming = FALSE /\ ctrl = 0
    /\ messages = <<>> /\ node = [s \in Turn |-> [a \in Member(s) |-> NoNode]]
    /\ conv = [now |-> 0, of |-> [s \in Turn |-> 0]] /\ loading = FALSE

-----------------------------------------------------------------------------
(* The turn: publish schedules each subscriber for each event.             *)

Publish(s, events) ==
    Len(said[s]) - read[s] <= Ahead[Len(plan)] /\ said' = [said EXCEPT ![s] = @ \o events]
Becomes(s, a, st)  == agent' = [agent EXCEPT ![s][a] = st]
Pieces(s, a) ==     \* pieces of text since the agent's last call
    LET mine == SelectSeq(said[s], LAMBDA e : e.agent = a)
    IN  Len(mine) - SelectLastInSeq(mine, LAMBDA e : e.type # "content")

(* The turn scope and the root's span are entered.                         *)
Begin(s) ==
    /\ phase[s] = "starting"
    /\ phase' = [phase EXCEPT ![s] = "model"]
    /\ Becomes(s, Root, "running") /\ Publish(s, <<Event("started", Root)>>)
    /\ UNCHANGED <<heard, mark, saved, stop, clientVars>>

Errors == {<<>>, <<Event("turn_end", Nobody)>>, <<Event("content", Nobody), Event("turn_end", Nobody)>>}
\* Slip: only a turn that has begun queues the stream's end (no finally).
RefusedUnended(s) ==
    /\ phase[s] = "starting"
    /\ phase' = [phase EXCEPT ![s] = "gone"]
    /\ \E events \in Errors : Publish(s, events) /\ heard' = [heard EXCEPT ![s] = Len(events)]
    /\ UNCHANGED <<agent, mark, saved, stop, clientVars>>
(* A request that is refused, or fails before its root starts: an error    *)
(* line, an event of nobody, or nothing at all.                            *)
Refused(s) ==
    /\ phase[s] = "starting"
    /\ phase' = [phase EXCEPT ![s] = "refused"]
    /\ \E events \in Errors : Publish(s, events) /\ heard' = [heard EXCEPT ![s] = Len(events)]
    /\ UNCHANGED <<agent, mark, saved, stop, clientVars>>

(* run_turn publishes what the model streams.                              *)
Says(s, a) ==
    /\ agent[s][a] = "running" /\ phase[s] \in Subscribed /\ Pieces(s, a) < MaxPieces
    /\ a = Root => phase[s] = "model"
    /\ Publish(s, <<Event("content", a)>>)
    /\ UNCHANGED <<phase, agent, heard, mark, saved, stop, clientVars>>

(* A round of calls, one for each sub-agent, which start one after the     *)
(* other and then run side by side.                                        *)
Spawns(s) ==
    /\ phase[s] = "model" /\ ~stop[s] /\ plan[s] # {} /\ \A k \in plan[s] : agent[s][k] = "idle"
    /\ phase' = [phase EXCEPT ![s] = "tools"]
    /\ agent' = [agent EXCEPT ![s] = [a \in Member(s) |-> "running"]]
    /\ Publish(s, FlattenSeq([i \in 1..Cardinality(plan[s]) |->
           <<Event("tool_call", Root), Event("started", i)>>]))
    /\ UNCHANGED <<heard, mark, saved, stop, clientVars>>

(* The sub-agent's run_turn publishes its turn_end and its span ends; when *)
(* the root's gather was cut short, nobody waits for it any more.          *)
SubEnds(s, k) ==
    /\ agent[s][k] = "running" /\ phase[s] \in Subscribed
    /\ \/ Becomes(s, k, "ended")
       \/ stop[s] /\ Becomes(s, k, "stopped")
    /\ Publish(s, <<Event("turn_end", k), Event("completed", k)>>)
    /\ UNCHANGED <<phase, heard, mark, saved, stop, clientVars>>

Gathered(s) ==
    /\ phase[s] = "tools" /\ \A k \in plan[s] : agent[s][k] = "ended"
    /\ phase' = [phase EXCEPT ![s] = "model"]
    /\ UNCHANGED <<agent, said, heard, mark, saved, stop, clientVars>>

(* The root answers, fails or is stopped, or a call saw the stop.          *)
RootEnds(s) ==
    /\ \/ phase[s] = "model"
       \/ phase[s] = "tools" /\ \E k \in plan[s] : agent[s][k] = "stopped"
    /\ phase' = [phase EXCEPT ![s] = "closing"] /\ Publish(s, <<Event("turn_end", Root)>>)
    /\ UNCHANGED <<agent, heard, mark, saved, stop, clientVars>>

(* The root's span ends; the loop gets round to what was scheduled before  *)
(* (sleep(0)).                                                             *)
SpanEnds(s) ==
    /\ phase[s] = "closing"
    /\ phase' = [phase EXCEPT ![s] = "yielding"] /\ Becomes(s, Root, "ended")
    /\ Publish(s, <<Event("completed", Root)>>) /\ mark' = [mark EXCEPT ![s] = Len(said'[s])]
    /\ UNCHANGED <<heard, saved, stop, clientVars>>

\* Slip: the buffer is read without a yield to the loop.
GetEventsAtOnce(s) ==
    /\ phase[s] = "yielding"
    /\ saved' = [saved EXCEPT ![s] = heard[s]] /\ phase' = [phase EXCEPT ![s] = "draining"]
    /\ UNCHANGED <<agent, said, heard, mark, stop, clientVars>>
(* What the buffer holds is appended to the file; the queue's handler is   *)
(* unsubscribed, and what is said later reaches nobody.                    *)
GetEvents(s) ==
    /\ phase[s] = "yielding" /\ heard[s] >= mark[s]
    /\ saved' = [saved EXCEPT ![s] = heard[s]] /\ phase' = [phase EXCEPT ![s] = "draining"]
    /\ UNCHANGED <<agent, said, heard, mark, stop, clientVars>>

(* One round of the loop runs the subscribers that were scheduled, in their *)
(* order.                                                                  *)
Deliver(s) ==
    /\ heard[s] < Len(said[s])
    /\ heard' = [heard EXCEPT ![s] = Len(said[s])]
    /\ UNCHANGED <<phase, agent, said, mark, saved, stop, clientVars>>

(* The scope is left once the handlers are through, and the stream's end   *)
(* goes into the queue.                                                    *)
Drained(s) ==
    /\ phase[s] = "draining" /\ heard[s] = Len(said[s])
    /\ phase' = [phase EXCEPT ![s] = "over"]
    /\ UNCHANGED <<agent, said, heard, mark, saved, stop, clientVars>>

(* A write to a client that is gone cancels the turn; the steps it takes   *)
(* before that write show nowhere, and nothing of it is kept.              *)
Cancelled(s) ==
    /\ phase' = [phase EXCEPT ![s] = "gone"]
    /\ agent' = [agent EXCEPT ![s] = [a \in Member(s) |-> "idle"]]
    /\ said' = [said EXCEPT ![s] = <<>>] /\ heard' = [heard EXCEPT ![s] = 0]
    /\ mark' = [mark EXCEPT ![s] = 0] /\ saved' = [saved EXCEPT ![s] = Unsaved]
    /\ read' = [read EXCEPT ![s] = 0]

-----------------------------------------------------------------------------
(* The client                                                              *)

LastSent(s) == messages # <<>> /\ Last(messages).send = s
Shown(s, status) ==     \* the message of s, if it is the last one
    messages' = IF LastSent(s) THEN [messages EXCEPT ![Len(messages)] = [@ EXCEPT !.status = status]]
                ELSE messages
Logged(log, t) ==       \* pieces of text are merged into one entry
    IF t = "content" /\ log # <<>> /\ Last(log).type = t
    THEN [log EXCEPT ![Len(log)].pieces = @ + 1]
    ELSE Append(log, [type |-> t, pieces |-> 1])
(* APPEND_STREAM_CHUNK and APPEND_ACTIVITY: an agent without a node is     *)
(* ignored.                                                                *)
AppendEntry(nodes, e) ==
    IF nodes[e.agent].status = "none" THEN nodes
    ELSE [nodes EXCEPT ![e.agent].log = Logged(@, e.type)]
Flushed(s) == [node EXCEPT ![s] = FoldLeft(AppendEntry, @, pending[s])]

(* sendMessage: Send is a nudge while isStreaming.                         *)
Send(s) ==
    /\ stream[s] = "unused" /\ \A r \in 1..(s - 1) : stream[r] # "unused"
    /\ ~streaming
    /\ stream' = [stream EXCEPT ![s] = "open"] /\ phase' = [phase EXCEPT ![s] = "starting"]
    /\ streaming' = TRUE /\ ctrl' = s /\ conv' = [conv EXCEPT !.of[s] = conv.now]
    /\ messages' = Append(messages, [send |-> s, status |-> "placeholder"])
    /\ UNCHANGED <<agent, said, heard, mark, saved, stop, read, pending, node, loading>>

(* One line of the stream.                                                 *)
Line(s) == said[s][read[s] + 1]
Takes(s, types) ==
    /\ stream[s] = "open" /\ read[s] < heard[s] /\ Line(s).type \in types
    /\ read' = [read EXCEPT ![s] = @ + 1]
    /\ UNCHANGED <<serverVars, stream, streaming, ctrl, conv, loading>>

AgentStarted(s) ==
    /\ Takes(s, {"started"})
    /\ node' = [node EXCEPT ![s][Line(s).agent] = [status |-> "running", log |-> <<>>]]
    /\ IF Line(s).agent = Root THEN Shown(s, "streaming") ELSE UNCHANGED messages
    /\ UNCHANGED pending
AgentCompleted(s) ==
    /\ Takes(s, {"completed"})
    /\ node' = IF node[s][Line(s).agent].status = "none" THEN node
               ELSE [node EXCEPT ![s][Line(s).agent].status = "completed"]
    /\ UNCHANGED <<pending, messages>>
(* Text and calls wait for the next frame; what has no agent is ignored.   *)
Entry(s) ==
    /\ Takes(s, {"content", "tool_call"})
    /\ pending' = IF Line(s).agent = Nobody THEN pending
                  ELSE [pending EXCEPT ![s] = Append(@, Line(s))]
    /\ UNCHANGED viewVars
(* Any turn_end flushes, and ends the message.                             *)
TurnEnd(s) ==
    /\ Takes(s, {"turn_end"})
    /\ node' = Flushed(s) /\ pending' = [pending EXCEPT ![s] = <<>>] /\ Shown(s, "done")

Frame(s) ==
    /\ stream[s] = "open" /\ pending[s] # <<>>
    /\ node' = Flushed(s) /\ pending' = [pending EXCEPT ![s] = <<>>]
    /\ UNCHANGED <<serverVars, stream, read, streaming, ctrl, messages, conv, loading>>

Closes(s, how) ==       \* finally: the frame is cancelled
    /\ stream' = [stream EXCEPT ![s] = how] /\ pending' = [pending EXCEPT ![s] = <<>>]
    /\ streaming' = FALSE /\ ctrl' = 0
\* Slip: the entries of the last frame are left to it, and it is cancelled.
EndsUnflushed(s) ==
    /\ stream[s] = "open" /\ phase[s] \in {"over", "refused"} /\ read[s] = heard[s]
    /\ UNCHANGED node /\ Closes(s, "ended")
    /\ UNCHANGED <<serverVars, read, messages, conv, loading>>
Ends(s) ==
    /\ stream[s] = "open" /\ phase[s] \in {"over", "refused"} /\ read[s] = heard[s]
    /\ node' = Flushed(s) /\ Closes(s, "ended")
    /\ UNCHANGED <<serverVars, read, messages, conv, loading>>

(* The connection breaks, or could not be made: the error takes the place  *)
(* of the first message that is its own or still a placeholder.            *)
Breaks(s) ==
    /\ stream[s] = "open" /\ Closes(s, "failed")
    /\ LET i == SelectInSeq(messages, LAMBDA m : m.send = s \/ m.status = "placeholder")
           error == [send |-> s, status |-> "error"]
       IN  messages' = IF i > 0 THEN [messages EXCEPT ![i] = error] ELSE Append(messages, error)
    /\ Cancelled(s)
    /\ UNCHANGED <<stop, node, conv, loading>>

(* The stop request may get lost; it reaches the turn registered last.     *)
Heeded(s) ==
    /\ conv.of[s] = conv.now /\ phase[s] \in Up
    /\ \A r \in s+1..Len(plan) : conv.of[r] # conv.now \/ phase[r] \in {"unused", "starting", "refused"}
StopPosted == \/ UNCHANGED stop
              \/ \E s \in Turn : Heeded(s) /\ stop' = [stop EXCEPT ![s] = TRUE]
Stop ==
    /\ streaming /\ streaming' = FALSE /\ StopPosted
    /\ UNCHANGED <<phase, agent, said, heard, mark, saved, stream, read, pending, ctrl, viewVars,
                   conv, loading>>

Aborts ==
    IF ctrl # 0 THEN Closes(ctrl, "aborted") /\ Cancelled(ctrl)
    ELSE /\ streaming' = FALSE
         /\ UNCHANGED <<stream, pending, ctrl, phase, agent, said, heard, mark, saved, read>>
(* newConversation, and the RESET of the agents.                           *)
New ==
    /\ conv.now < MaxSwitches /\ Aborts /\ StopPosted
    /\ messages' = <<>> /\ node' = [s \in Turn |-> [a \in Member(s) |-> NoNode]]
    /\ conv' = [conv EXCEPT !.now = @ + 1]
    /\ UNCHANGED loading
(* loadConversation, before and after its request is answered.             *)
Load ==
    /\ ~loading /\ conv.now < MaxSwitches /\ Aborts
    /\ loading' = TRUE
    /\ UNCHANGED <<stop, viewVars, conv>>
Loaded ==
    /\ loading /\ loading' = FALSE
    /\ \/ UNCHANGED <<messages, conv>>
       \/ messages' = <<>> /\ conv.now < MaxSwitches /\ conv' = [conv EXCEPT !.now = @ + 1]
    /\ UNCHANGED <<serverVars, stream, read, pending, streaming, ctrl, node>>

-----------------------------------------------------------------------------
Server(s) ==
    \/ Begin(s) \/ Refused(s) \/ Spawns(s) \/ Gathered(s) \/ RootEnds(s) \/ SpanEnds(s)
    \/ GetEvents(s) \/ Drained(s)
    \/ \E k \in plan[s] : SubEnds(s, k)
    \/ \E a \in Member(s) : Says(s, a)
Reads(s) == AgentStarted(s) \/ AgentCompleted(s) \/ Entry(s) \/ TurnEnd(s) \/ Ends(s)
Next ==
    /\ UNCHANGED plan
    /\ \/ \E s \in Turn : Send(s) \/ Server(s) \/ Deliver(s) \/ Reads(s) \/ Frame(s) \/ Breaks(s)
       \/ Stop \/ New \/ Load \/ Loaded

(* The loop runs what it has scheduled, the client reads what has come,    *)
(* and a turn takes its steps: model calls and tools come to an end.       *)
Steps(A(_), s) == s \in Turn /\ A(s) /\ UNCHANGED plan
Fairness == \A s \in 1..MaxSends :
    WF_vars(Steps(Server, s)) /\ WF_vars(Steps(Deliver, s)) /\ WF_vars(Steps(Reads, s))
Spec == Init /\ [][Next]_vars /\ Fairness

-----------------------------------------------------------------------------
WithEntry(a, log, e) ==
    IF e.agent = a /\ e.type \in {"content", "tool_call"} THEN Logged(log, e.type) ELSE log
Entries(s, a) == FoldLeft(LAMBDA log, e : WithEntry(a, log, e), <<>>, said[s])
(* When a stream has ended, each agent the page shows has in its log all   *)
(* that it said, in its order, and is shown as completed unless a stop cut *)
(* its turn short (frames, flushes, drain, and streams side by side).      *)
ShownAsSaid ==
    \A s \in Turn : \A a \in Member(s) :
        stream[s] = "ended" /\ node[s][a].status # "none" =>
            /\ node[s][a].log = Entries(s, a)
            /\ stop[s] \/ node[s][a].status = "completed"

(* The file gets every event of the turn up to the end of its root's span, *)
(* though the buffer is only a subscriber that the loop runs later.        *)
SavedIsWhole == \A s \in Turn : saved[s] # Unsaved => saved[s] >= mark[s]

(* No stream stays open, and Send becomes possible again (isStreaming).    *)
StreamsEnd == []<>(~streaming /\ \A s \in Turn : stream[s] # "open")

(* "Signals the end of a turn - the root agent has finished responding":   *)
(* a message whose turn_end has come is that of a root that has ended.     *)
EndedMeansRootEnded ==
    \A i \in DOMAIN messages :
        messages[i].status = "done" => phase[messages[i].send] \notin {"model", "tools"}

(* "A conversation contains many turns, executed sequentially": a message  *)
(* is sent beside an open turn of its conversation only when that turn was *)
(* stopped.                                                                *)
OneTurnUnlessStopped ==
    [][\A r, s \in Turn :
        stream[s] = "unused" /\ stream'[s] = "open" /\ stream[r] = "open"
            /\ conv.of[r] = conv.now /\ phase[r] \in Up => stop[r]]_vars
=============================================================================
