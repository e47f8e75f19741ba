------------------------------ MODULE MailBroker ------------------------------
(***************************************************************************)
(* A call of an email or calendar tool: the two hops to its broker         *)
(* (src/integrations/broker_client/_call.py), the frames in between        *)
(* (src/integrations/_rpc.py), and the broker                              *)
(* (src/integrations/brokers/email_broker/), which owns one session with   *)
(* each upstream service, serializes the calls on it, and reconnects once  *)
(* when it has gone stale. The supervisor spawns the broker again after a  *)
(* failure, unless it exited with 77, and when permissions change.         *)
(***************************************************************************)
EXTENDS Naturals, Sequences

CONSTANTS
    Call,       \* tool calls in flight at once
    Folder,     \* the mailboxes of the account
    Missing,    \* a mailbox it has not
    Configured, \* the upstreams of its catalog entry: IMAP, and maybe SMTP or CalDAV
    MaxSpawns,  \* bound: starts of the broker
    MaxDrops    \* bound: connections that an upstream drops

VARIABLES
    proc,       \* the broker: its next upstream while it starts, or "serving", "down", "auth_failed"
    writable,   \* its permission: READ_WRITE or only READ
    accepted,   \* whether the upstreams accept the credentials
    handle,     \* of each session: "none", "live", or "stale" when the peer has dropped it
    selected,   \* the mailbox selected in the IMAP session, as server and imaplib have it
    current,    \* _current_mailbox
    queue,      \* of each session: the lock, its holder first
    call,       \* the calls
    spawns,     \* bound: starts so far
    drops       \* bound: drops so far

vars == <<proc, writable, accepted, handle, selected, current, queue, call, spawns, drops>>

Session == {"imap", "smtp", "caldav"}
Upstream(verb) == CASE verb = "send" -> "smtp" [] verb = "events" -> "caldav" [] OTHER -> "imap"
Writes == {"move", "send"}
InMailbox == {"fetch", "move"}
Idle == [verb |-> "none", folder |-> "none", at |-> "idle", retry |-> FALSE, done |-> FALSE, ok |-> FALSE]
NoSession == [s \in Session |-> "none"]

Init ==
    /\ proc = "imap" /\ writable = TRUE /\ accepted = TRUE
    /\ handle = NoSession /\ selected = "none" /\ current = "none"
    /\ queue = [s \in Session |-> <<>>]
    /\ call = [c \in Call |-> Idle] /\ spawns = 1 /\ drops = 0

(* A call ends, well or with an error; a lock it holds is released.        *)
Ended(c, ok) == [call EXCEPT ![c] = [Idle EXCEPT !.ok = ok]]
Released(s) == [queue EXCEPT ![s] = Tail(@)]

-----------------------------------------------------------------------------
(* The broker's start, stop and respawn                                    *)

After(s) ==
    IF s = "imap" /\ "smtp" \in Configured THEN "smtp"
    ELSE IF s # "caldav" /\ "caldav" \in Configured THEN "caldav" ELSE "serving"

(* imaplib's abort, which a connection dropped during LOGIN raises, is an  *)
(* IMAP4.error: connect takes it for a rejection.                          *)
Broken(s) == IF s = "imap" THEN "auth_failed" ELSE "down"

(* The broker connects to each upstream in turn. A rejected login ends it  *)
(* with 77, a network error with 1.                                        *)
Boot(how) ==
    /\ proc \in Session
    /\ how = "rejected" <=> ~accepted
    /\ proc' = CASE how = "ok" -> After(proc)
                 [] how = "rejected" -> "auth_failed"
                 [] how = "dropped" -> Broken(proc)
                 [] how = "refused" -> "down"
    /\ handle' = IF how = "ok" THEN [handle EXCEPT ![proc] = "live"] ELSE handle
    /\ drops' = IF how \in {"ok", "rejected"} THEN drops ELSE drops + 1
    /\ drops' <= MaxDrops
    /\ UNCHANGED <<writable, accepted, selected, current, queue, call, spawns>>

(* Everything in the process is gone; its callers see the socket close.    *)
Killed ==
    /\ handle' = NoSession /\ selected' = "none" /\ current' = "none"
    /\ queue' = [s \in Session |-> <<>>]
    /\ call' = [c \in Call |-> IF call[c].at \in {"idle", "resolved"} THEN call[c]
                               ELSE Ended(c, FALSE)[c]]

(* The watcher restarts a broker that failed; new permissions replace it.  *)
Spawn ==
    /\ proc = "down" /\ spawns < MaxSpawns
    /\ proc' = "imap" /\ spawns' = spawns + 1 /\ Killed
    /\ UNCHANGED <<writable, accepted, drops>>
Update(w) ==
    /\ proc = "serving" /\ spawns < MaxSpawns /\ w # writable
    /\ proc' = "imap" /\ writable' = w /\ spawns' = spawns + 1 /\ Killed
    /\ UNCHANGED <<accepted, drops>>

(* The user's password is revoked at the provider.                         *)
Revoke ==
    /\ accepted /\ accepted' = FALSE
    /\ UNCHANGED <<proc, writable, handle, selected, current, queue, call, spawns, drops>>

(* An upstream drops an idle session; the broker learns at its next use.   *)
Drop(s) ==
    /\ handle[s] = "live" /\ drops < MaxDrops
    /\ handle' = [handle EXCEPT ![s] = "stale"] /\ drops' = drops + 1
    /\ UNCHANGED <<proc, writable, accepted, selected, current, queue, call, spawns>>

-----------------------------------------------------------------------------
(* A call                                                                  *)

(* The first hop: the supervisor resolves the integration to a socket.     *)
Resolve(c, verb, folder) ==
    /\ call[c].at = "idle"
    /\ call' = [call EXCEPT ![c] = [Idle EXCEPT !.verb = verb, !.folder = folder, !.at = "resolved"]]
    /\ UNCHANGED <<proc, writable, accepted, handle, selected, current, queue, spawns, drops>>

(* The second hop: a broker that does not listen or has no such upstream   *)
(* is an error, a write without permission is refused, any other call      *)
(* waits for its session.                                                  *)
Dispatch(c) ==
    LET s == Upstream(call[c].verb) IN
    /\ call[c].at = "resolved"
    /\ IF proc # "serving" \/ s \notin Configured THEN call' = Ended(c, FALSE) /\ UNCHANGED queue
       ELSE IF call[c].verb \in Writes /\ ~writable
       THEN call' = Ended(c, FALSE) /\ UNCHANGED queue
       ELSE /\ call' = [call EXCEPT ![c].at = "queued"]
            /\ queue' = [queue EXCEPT ![s] = Append(@, c)]
    /\ UNCHANGED <<proc, writable, accepted, handle, selected, current, spawns, drops>>

\* Slip: a call does not wait for the session's lock.
HoldsAnyway(c) == call[c].at # "idle"

Holds(c) == queue[Upstream(call[c].verb)] # <<>> /\ Head(queue[Upstream(call[c].verb)]) = c

(* In a worker thread: the mailbox is selected unless it is the current    *)
(* one. A SELECT that fails deselects what was selected before.            *)
Select(c) ==
    /\ call[c].at = "queued" /\ Holds(c)
    /\ IF call[c].verb \notin InMailbox \/ current = call[c].folder
       THEN /\ call' = [call EXCEPT ![c].at = "command"]
            /\ UNCHANGED <<selected, current, queue>>
       ELSE IF handle["imap"] = "stale"
       THEN /\ call' = [call EXCEPT ![c].at = "stale"]
            /\ UNCHANGED <<selected, current, queue>>
       ELSE IF call[c].folder \in Folder
       THEN /\ selected' = call[c].folder /\ current' = call[c].folder
            /\ call' = [call EXCEPT ![c].at = "command"] /\ UNCHANGED queue
       ELSE /\ selected' = "none" /\ UNCHANGED current
            /\ call' = Ended(c, FALSE) /\ queue' = Released("imap")
    /\ UNCHANGED <<proc, writable, accepted, handle, spawns, drops>>

(* The command itself. Without a selected mailbox imaplib refuses it, and  *)
(* that is no abort. A peer that closes before it answers may have done it.*)
Command(c, lost) ==
    LET s == Upstream(call[c].verb)
        illegal == call[c].verb \in InMailbox /\ selected = "none"
        done == call[c].verb \in InMailbox => selected = call[c].folder IN
    /\ call[c].at = "command" /\ Holds(c)
    /\ lost => handle[s] = "live" /\ ~illegal /\ drops < MaxDrops
    /\ IF handle[s] = "stale"
       THEN call' = [call EXCEPT ![c].at = "stale"] /\ UNCHANGED <<handle, queue>>
       ELSE IF illegal
       THEN call' = Ended(c, FALSE) /\ queue' = Released(s) /\ UNCHANGED handle
       ELSE IF lost
       THEN /\ call' \in {[call EXCEPT ![c].at = "stale"],
                          [call EXCEPT ![c].at = "stale", ![c].done = done]}
            /\ handle' = [handle EXCEPT ![s] = "stale"] /\ UNCHANGED queue
       ELSE /\ call' = [Ended(c, TRUE) EXCEPT ![c].done = done]
            /\ queue' = Released(s) /\ UNCHANGED handle
    /\ drops' = IF lost THEN drops + 1 ELSE drops
    /\ UNCHANGED <<proc, writable, accepted, selected, current, spawns>>

\* Slip: a call that fails in the end keeps the lock.
ReconnectKeeping(c, connects) ==
    LET s == Upstream(call[c].verb) IN
    /\ call[c].at = "stale"
    /\ current' = IF s = "imap" /\ ~call[c].retry THEN "none" ELSE current
    /\ connects => accepted /\ ~call[c].retry
    /\ IF connects
       THEN /\ handle' = [handle EXCEPT ![s] = "live"]
            /\ selected' = IF s = "imap" THEN "none" ELSE selected
            /\ call' = [call EXCEPT ![c].at = "queued", ![c].retry = TRUE]
            /\ UNCHANGED queue
       ELSE call' = Ended(c, FALSE) /\ UNCHANGED <<handle, selected, queue>>
    /\ UNCHANGED <<proc, writable, accepted, spawns, drops>>

(* A stale session is replaced once for a call, and its operation run      *)
(* again; when that fails, or login does, the call fails with it: the RPC  *)
(* layer turns every exception into an error frame.                        *)
Reconnect(c, connects) ==
    LET s == Upstream(call[c].verb) IN
    /\ call[c].at = "stale"
    /\ current' = IF s = "imap" /\ ~call[c].retry THEN "none" ELSE current
    /\ connects => accepted /\ ~call[c].retry
    /\ IF connects
       THEN /\ handle' = [handle EXCEPT ![s] = "live"]
            /\ selected' = IF s = "imap" THEN "none" ELSE selected
            /\ call' = [call EXCEPT ![c].at = "queued", ![c].retry = TRUE]
            /\ UNCHANGED queue
       ELSE /\ call' = Ended(c, FALSE) /\ queue' = Released(s)
            /\ UNCHANGED <<handle, selected>>
    /\ UNCHANGED <<proc, writable, accepted, spawns, drops>>

Next ==
    \/ \E how \in {"ok", "rejected", "dropped", "refused"} : Boot(how)
    \/ Spawn \/ Revoke
    \/ \E w \in BOOLEAN : Update(w)
    \/ \E s \in Session : Drop(s)
    \/ \E c \in Call, verb \in {"list", "send", "events"} : Resolve(c, verb, "none")
    \/ \E c \in Call, verb \in InMailbox, f \in Folder \cup {Missing} : Resolve(c, verb, f)
    \/ \E c \in Call : Dispatch(c) \/ Select(c)
    \/ \E c \in Call, b \in BOOLEAN : Command(c, b) \/ Reconnect(c, b)

(* Every blocking operation has a timeout; asyncio's lock is fair.         *)
Fairness ==
    \A c \in Call : /\ WF_vars(Dispatch(c)) /\ WF_vars(Select(c))
                    /\ WF_vars(Command(c, FALSE)) /\ WF_vars(Reconnect(c, FALSE))

Spec == Init /\ [][Next]_vars /\ Fairness

-----------------------------------------------------------------------------
(* Properties                                                              *)

(* A tool is told that its call succeeded only when the command was        *)
(* carried out, and in the mailbox the call names, although all calls      *)
(* share one session, one selection and one cache of it.                   *)
OkMeansDone == \A c \in Call : call[c].ok => call[c].done

(* Every call is answered: stale sessions, failed logins, missing          *)
(* mailboxes and dead brokers included.                                    *)
CallsEnd == \A c \in Call : []<>(call[c].at = "idle")

(* The broker's docstring on exit code 77, after which nothing restarts    *)
(* it: "IMAP LOGIN was rejected by the server."                            *)
AuthFailedMeansRejected == proc = "auth_failed" => ~accepted

(* _select_in_thread: "No-op if ``folder`` is already selected."           *)
CurrentIsSelected ==
    (current # "none" /\ handle["imap"] = "live") => selected = current
=============================================================================
