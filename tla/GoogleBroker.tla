----------------------------- MODULE GoogleBroker -----------------------------
(***************************************************************************)
(* The broker of a Google account                                          *)
(* (src/integrations/brokers/google_workspace_broker/). A call runs in a   *)
(* worker thread as a sequence of requests to Google, each of which may be *)
(* refused, lost before or lost after it took effect; nothing is retried   *)
(* and nothing undone. The threads share the cache of Gmail's labels, and  *)
(* go on when their caller has hung up. What is read and how it is laid    *)
(* out is left out; so are other processes that write to the downloads     *)
(* directory.                                                              *)
(***************************************************************************)
EXTENDS Naturals, Sequences

CONSTANTS
    Call,        \* tool calls in flight at once
    Moving,      \* the moves that are asked for: from and to which label, which messages
    Label,       \* label names, with "INBOX", whose id is its name
    LabelId,     \* ids that Gmail gives to the user's labels
    Scoped,      \* the capabilities of the token's scopes: "email", "drive"...
    NoLabel,
    MaxSpawns,   \* bound: starts of the broker
    MaxRelabels  \* bound: changes that the user makes to labels

VARIABLES
    proc,        \* the broker: "starting", "serving", "down", "auth_failed"
    writable,    \* the capabilities with READ_WRITE; the others of Scoped have at most READ
    accepted,    \* whether Google accepts the refresh token
    labels,      \* Gmail's labels: the id of each name, NoLabel for no label
    cache,       \* _label_cache: likewise, "unloaded" at first
    had,         \* the ids that each name has had, as a record of the past
    call,        \* the calls
    spawns,      \* bound: starts so far
    relabels     \* bound: changes so far

vars == <<proc, writable, accepted, labels, cache, had, call, spawns, relabels>>

Unloaded == [n \in Label |-> "unloaded"]
LabelIds == LabelId \cup {"INBOX"}
Idle == [at |-> "idle", todo |-> <<>>, found |-> <<>>, wants |-> {}, did |-> {}, ok |-> FALSE]

-----------------------------------------------------------------------------
(* The verbs: what each needs and the requests it is made of, with what    *)
(* each of these is to bring about. The pages of a list are one request.   *)

Do(op, on) == [do |-> op, on |-> on]

\* _VERB_REQUIREMENT: the verbs that need READ_WRITE.
Writes == {"changeFile", "changeEvent", "send", "move"}

\* The clients that __init__ makes, by scope; a verb without one is refused.
Capability(verb) ==
    CASE verb \in {"listFiles", "export", "changeFile"} -> "drive"
      [] verb \in {"listEvents", "changeEvent"} -> "calendar"
      [] verb = "listContacts" -> "contacts"
      [] OTHER -> "email"

\* The methods of the clients: reads, changes, and for Gmail the labels that a name stands for.
read          == <<Do("get", NoLabel)>>
change        == <<Do("change", "done")>>
list_files    == read
export_file   == read \o read
change_file   == change
list_events   == read
change_event  == change
list_contacts == read
list_messages == <<Do("label", "INBOX")>> \o read \o read
get_message   == read
get_attachment == read \o read
send_message  == change
\* Both labels first, then one message at a time.
move_messages(from, to, uids) ==
    <<Do("label", from), Do("label", to)>> \o [i \in 1..Len(uids) |-> Do("modify", uids[i])]

\* The handlers: a client's method, and the file that a download is written to.
save == <<Do("save", "file")>>
Drive(verb) ==
    CASE verb = "listFiles"  -> list_files
      [] verb = "export"     -> export_file \o save
      [] verb = "changeFile" -> change_file
Calendar(verb) == IF verb = "listEvents" THEN list_events ELSE change_event
Email(verb) ==
    CASE verb = "listLabels"      -> <<Do("load", NoLabel)>>
      [] verb = "listMessages"    -> list_messages
      [] verb = "fetchMessage"    -> get_message
      [] verb = "fetchAttachment" -> get_attachment \o save
      [] verb = "send"            -> send_message
Contacts(verb) == list_contacts

Simple == [v \in {"listFiles", "export", "changeFile", "listEvents", "changeEvent", "listLabels",
                  "listMessages", "fetchMessage", "fetchAttachment", "send", "listContacts"} |->
    CASE Capability(v) = "drive" -> Drive(v)
      [] Capability(v) = "calendar" -> Calendar(v)
      [] Capability(v) = "contacts" -> Contacts(v)
      [] OTHER -> Email(v)]

\* What the requests of a call are to bring about, those that read nothing.
Effects(todo) == {todo[i].on : i \in {j \in DOMAIN todo : todo[j].do \in {"save", "change", "modify"}}}

Init ==
    /\ proc = "starting" /\ writable = Scoped /\ accepted = TRUE
    /\ labels \in [Label -> LabelIds \cup {NoLabel}]
    /\ \A n \in Label : labels[n] = "INBOX" <=> n = "INBOX"
    /\ \A m, n \in Label : labels[m] = labels[n] => m = n \/ labels[m] = NoLabel
    /\ cache = Unloaded /\ had = [n \in Label |-> {labels[n]}]
    /\ call = [c \in Call |-> Idle] /\ spawns = 1 /\ relabels = 0

-----------------------------------------------------------------------------
(* The broker's process                                                    *)

(* _run: a refresh of the token comes first. One that Google rejects ends  *)
(* the broker with 77, any other failure with 1.                           *)
Start(how) ==
    /\ proc = "starting" /\ (how = "rejected" <=> ~accepted)
    /\ proc' = CASE how = "ok" -> "serving" [] how = "rejected" -> "auth_failed" [] OTHER -> "down"
    /\ UNCHANGED <<writable, accepted, labels, cache, had, call, spawns, relabels>>

(* The process ends with its threads, on its own or by SIGTERM, for which  *)
(* it has no handler; the next one, perhaps with other permissions, starts *)
(* without their cache.                                                    *)
Spawn ==
    /\ proc \in {"down", "serving"} /\ spawns < MaxSpawns
    /\ proc' = "starting" /\ spawns' = spawns + 1 /\ cache' = Unloaded
    /\ writable' \in SUBSET Scoped
    /\ call' = [c \in Call |-> IF call[c].at = "idle" THEN call[c] ELSE Idle]
    /\ UNCHANGED <<accepted, labels, had, relabels>>

Revoke ==
    /\ accepted /\ accepted' = FALSE
    /\ UNCHANGED <<proc, writable, labels, cache, had, call, spawns, relabels>>

(* The user makes a label, renames one, or deletes it, in Gmail.           *)
Relabel(n) ==
    /\ n # "INBOX" /\ relabels < MaxRelabels /\ relabels' = relabels + 1
    /\ \/ /\ labels[n] = NoLabel
          /\ \E i \in LabelId : /\ \A m \in Label : labels[m] # i
                                /\ labels' = [labels EXCEPT ![n] = i]
       \/ \E m \in Label : labels[m] = NoLabel /\ labels' = [labels EXCEPT ![m] = labels[n], ![n] = NoLabel]
       \/ labels' = [labels EXCEPT ![n] = NoLabel]
    /\ had' = [m \in Label |-> had[m] \cup {labels'[m]}]
    /\ UNCHANGED <<proc, writable, accepted, cache, call, spawns>>

-----------------------------------------------------------------------------
(* A call                                                                  *)

\* The frame of a call that ended: an answer, or an error of any code.
Ended(c, ok) == [call EXCEPT ![c] = IF ok /\ call[c].at = "running"
                                    THEN [Idle EXCEPT !.ok = TRUE, !.wants = call[c].wants, !.did = call[c].did]
                                    ELSE Idle]
\* _wrap_http_error, and the RPC layer for what is no HttpError.
Fails(c) == call' = Ended(c, FALSE)

(* dispatch: permission, then the handler, then its arguments.             *)
dispatch(c, verb, todo) ==
    /\ call[c].at = "idle" /\ proc = "serving"
    /\ \/ /\ Capability(verb) \in IF verb \in Writes THEN writable ELSE Scoped
          /\ call' = [call EXCEPT ![c] = [Idle EXCEPT !.at = "running", !.todo = todo,
                                                      !.wants = Effects(todo)]]
       \/ call' = [call EXCEPT ![c] = Idle]
    /\ UNCHANGED <<proc, writable, accepted, labels, cache, had, spawns, relabels>>

(* The tool's task is cancelled: its end of the socket is closed, and the  *)
(* thread goes on.                                                         *)
Abandon(c) ==
    /\ call[c].at = "running" /\ call' = [call EXCEPT ![c] = [call[c] EXCEPT !.at = "orphan"]]
    /\ UNCHANGED <<proc, writable, accepted, labels, cache, had, spawns, relabels>>

Asks(c, op) ==
    /\ call[c].at # "idle" /\ call[c].todo # <<>> /\ Head(call[c].todo).do = op
On(c) == Head(call[c].todo).on
\* The rest of a call, with the labels it has found and what it has done so far.
Goes(c, found, did) == [call EXCEPT ![c] = [call[c] EXCEPT !.todo = Tail(call[c].todo),
                                                           !.found = found, !.did = did]]
Passed(c) == Goes(c, call[c].found, call[c].did)
Did(c)    == Goes(c, call[c].found, call[c].did \cup {On(c)})

(* A request that Google refuses, or that does not get through; one that   *)
(* changes something may have done so. Without a refresh token all fail.   *)
Refused(c) ==
    /\ call[c].at # "idle" /\ call[c].todo # <<>> /\ Head(call[c].todo).do # "save"
    /\ Head(call[c].todo).do = "label" => cache = Unloaded
    /\ Fails(c)
    /\ UNCHANGED <<proc, writable, accepted, labels, cache, had, spawns, relabels>>

Get(c) ==
    /\ Asks(c, "get") /\ accepted /\ call' = Passed(c)
    /\ UNCHANGED <<proc, writable, accepted, labels, cache, had, spawns, relabels>>
Change(c) ==
    /\ Asks(c, "change") /\ accepted /\ call' = Did(c)
    /\ UNCHANGED <<proc, writable, accepted, labels, cache, had, spawns, relabels>>
(* _write_download, on the event loop: a name that is taken gets a suffix. *)
Save(c) ==
    /\ Asks(c, "save")
    /\ call' = Did(c) \/ Fails(c)
    /\ UNCHANGED <<proc, writable, accepted, labels, cache, had, spawns, relabels>>

(* list_labels replaces the cache for every thread. A reply that is late   *)
(* brings labels as they were, no different from a cache that is older.    *)
list_labels(c) ==
    /\ \/ Asks(c, "load") /\ call' = Passed(c)
       \/ Asks(c, "label") /\ cache = Unloaded /\ UNCHANGED call
    /\ accepted /\ cache' = labels
    /\ UNCHANGED <<proc, writable, accepted, labels, had, spawns, relabels>>

(* A name without a label in the cache is passed as an id.                 *)
resolve_label_id(c) ==
    /\ Asks(c, "label") /\ cache # Unloaded
    /\ LET id == IF cache[On(c)] = NoLabel THEN On(c) ELSE cache[On(c)] IN
       call' = Goes(c, Append(call[c].found, [name |-> On(c), id |-> id]), call[c].did)
    /\ UNCHANGED <<proc, writable, accepted, labels, cache, had, spawns, relabels>>

(* One message: Gmail takes one label off and puts the other on, when both *)
(* exist and differ. Its answer may be lost.                               *)
Modify(c) ==
    LET from  == call[c].found[1]
        to    == call[c].found[2]
        meant == from.id \in had[from.name] /\ to.id \in had[to.name] IN
    /\ Asks(c, "modify") /\ accepted
    /\ from.id # to.id /\ {from.id, to.id} \subseteq {labels[n] : n \in Label}
    /\ call' = IF meant THEN Did(c) ELSE Passed(c)
    /\ UNCHANGED <<proc, writable, accepted, labels, cache, had, spawns, relabels>>

Return(c) ==
    /\ call[c].at # "idle" /\ call[c].todo = <<>> /\ call' = Ended(c, TRUE)
    /\ UNCHANGED <<proc, writable, accepted, labels, cache, had, spawns, relabels>>

Next ==
    \/ \E how \in {"ok", "rejected", "unreachable"} : Start(how)
    \/ Spawn \/ Revoke
    \/ \E n \in Label : Relabel(n)
    \/ \E c \in Call, verb \in DOMAIN Simple : dispatch(c, verb, Simple[verb])
    \/ \E c \in Call, m \in Moving : dispatch(c, "move", move_messages(m.from, m.to, m.uids))
    \/ \E c \in Call : \/ Abandon(c) \/ Refused(c) \/ Get(c) \/ Change(c) \/ Save(c) \/ list_labels(c)
                       \/ resolve_label_id(c) \/ Modify(c) \/ Return(c)

Spec == Init /\ [][Next]_vars

-----------------------------------------------------------------------------
(* Properties                                                              *)

(* A tool is told that its call succeeded only when everything it asked    *)
(* for took effect: the change, the file, or each of the messages to move, *)
(* between labels that have, or have had, the names that the call gives.   *)
OkMeansDone == \A c \in Call : call[c].ok => call[c].wants \subseteq call[c].did
=============================================================================
