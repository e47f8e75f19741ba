-------------------------------- MODULE MCAgent --------------------------------
(***************************************************************************)
(* One agent and the services around it, each in a behaviour of its own:   *)
(* its history with what the adapters make of it, the stream of one model  *)
(* call, the app's cache of integrations and the startup gate, the wizard  *)
(* that adds an account, and the calls to the mail and Google brokers.     *)
(***************************************************************************)
EXTENDS AgentContext, ProviderWire

CONSTANTS
    Api, Answers,
    Id, Access, Absent, Reader, Op, MaxDeaths, MaxServed,
    Flow, MaxReq, MaxRestarts,
    Call, Folder, Missing, Configured, MaxSpawns, MaxDrops,
    Moving, Label, LabelId, Scoped, NoLabel, MaxRelabels

ASSUME AnswersAssumption ==
    /\ Api \subseteq {"anthropic", "openai", "responses", "ollama"}
    /\ Answers \subseteq [text : Nat, calls : Seq(Nat)]
\* "none" stands for a request by password.
ASSUME NoneIsNoFlow == "none" \notin Flow
\* ... and that no mailbox is named or selected.
ASSUME NoneIsNoFolder == "none" \notin Folder \cup {Missing}
\* A label's name is not the id of another label.
Uid == UNION {{m.uids[i] : i \in DOMAIN m.uids} : m \in Moving}
ASSUME LabelsAssumption ==
    /\ "INBOX" \in Label /\ Label \cap LabelId = {} /\ NoLabel \notin Label
    /\ Moving \subseteq [from : Label, to : Label, uids : Seq(Uid)]

VARIABLES part,
    api, answer, sent, acc, deltas, outcome,
    reg, up, cache, load, snap, reader, gate, late, setup, started, op, deaths, served, crossed,
    status, used, added, registered, req, ui, restarts,
    proc, writable, accepted, handle, selected, current, queue, call, spawns, drops,
    googleProc, googleWrites, refreshed, labels, labelCache, had, googleCall, googleSpawns, relabels

Stream == INSTANCE ModelStream
Cache  == INSTANCE IntegrationAccess
Wizard == INSTANCE AddWizard
Mail   == INSTANCE MailBroker
Google == INSTANCE GoogleBroker WITH proc <- googleProc, writable <- googleWrites,
              accepted <- refreshed, cache <- labelCache, call <- googleCall, spawns <- googleSpawns

streamVars == <<api, answer, sent, acc, deltas, outcome>>
cacheVars == <<reg, up, cache, load, snap, reader, gate, late, setup, started, op, deaths,
               served, crossed>>
wizardVars == <<status, used, added, registered, req, ui, restarts>>
mailVars == <<proc, writable, accepted, handle, selected, current, queue, call, spawns, drops>>
googleVars == <<googleProc, googleWrites, refreshed, labels, labelCache, had, googleCall,
                googleSpawns, relabels>>
allVars == <<part, vars, streamVars, cacheVars, wizardVars, mailVars, googleVars>>

AllInit ==
    /\ part \in {"history", "stream", "cache", "wizard", "mail", "google"}
    /\ Init /\ Stream!Init /\ Cache!Init /\ Wizard!Init /\ Mail!Init /\ Google!Init
    /\ part # "cache" => reg = Cache!Empty
    /\ part # "google" => \A n \in Label : n = "INBOX" \/ labels[n] = NoLabel

AllNext ==
    /\ UNCHANGED part
    /\ \/ /\ part = "history" /\ Next
          /\ UNCHANGED <<streamVars, cacheVars, wizardVars, mailVars, googleVars>>
       \/ /\ part = "stream" /\ Stream!Next
          /\ UNCHANGED <<vars, cacheVars, wizardVars, mailVars, googleVars>>
       \/ /\ part = "cache" /\ Cache!Next
          /\ UNCHANGED <<vars, streamVars, wizardVars, mailVars, googleVars>>
       \/ /\ part = "wizard" /\ Wizard!Next
          /\ UNCHANGED <<vars, streamVars, cacheVars, mailVars, googleVars>>
       \/ /\ part = "mail" /\ Mail!Next
          /\ UNCHANGED <<vars, streamVars, cacheVars, wizardVars, googleVars>>
       \/ /\ part = "google" /\ Google!Next
          /\ UNCHANGED <<vars, streamVars, cacheVars, wizardVars, mailVars>>

AllSpec ==
    /\ AllInit /\ [][AllNext]_allVars
    /\ Cache!Fairness /\ Wizard!Fairness /\ Mail!Fairness

Says(calls, text) == [calls |-> calls, text |-> text]
MCReply == {Says(<<>>, TRUE), Says(<<>>, FALSE), Says(<<"a">>, FALSE), Says(<<"b", "a">>, TRUE)}
MCAnswers == {[text |-> n, calls |-> c] : n \in 0..2, c \in {<<>>, <<2>>, <<0, 2>>, <<1, 1>>, <<2, 1>>}}

Moved(from, to, uids) == [from |-> from, to |-> to, uids |-> uids]
MCMoving == {Moved("INBOX", "work", <<"m1", "m2">>), Moved("old", "work", <<"m1">>)}

(* Whatever was compacted, stopped or retried, every provider is sent a    *)
(* request in which results and calls match by identifier.                 *)
WireIsMatched ==
    at = "calling" => \A p \in {"anthropic", "openai", "openai_compat"} :
        LET wire == Converted(p, hist) IN Matched(wire) /\ Answered(wire, cut)
(* A reply assembled from a stream is the answer; see ModelStream.         *)
StreamedAsWhole == Stream!StreamedAsWhole
(* The loaded cache is the registry when nothing is in flight; see         *)
(* IntegrationAccess.                                                      *)
LoadedCacheAgrees == Cache!LoadedCacheAgrees
(* The deferred subsystems start once setup is done; see IntegrationAccess.*)
StartsAnyway == Cache!StartsAnyway
(* The wizard's success is an account that its flow added; see AddWizard.  *)
ShownIsAdded == Wizard!ShownIsAdded
(* The wizard neither polls nor verifies forever; see AddWizard.           *)
WizardAnswers == Wizard!WizardAnswers
(* A call answered OK was carried out, whole and in its mailbox; see       *)
(* MailBroker and GoogleBroker.                                            *)
OkMeansDone == Mail!OkMeansDone /\ Google!OkMeansDone
(* Every call of the mail broker ends; see MailBroker.                     *)
CallsEnd == Mail!CallsEnd
(* Exit code 77 means that the login was rejected; see MailBroker.         *)
AuthFailedMeansRejected == Mail!AuthFailedMeansRejected
=============================================================================
