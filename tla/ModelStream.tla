----------------------------- MODULE ModelStream -----------------------------
(***************************************************************************)
(* One streamed model call, from the provider's wire events to the reply   *)
(* run_turn gets: chat_stream, the accumulators of the calls' fragments    *)
(* and the normalisation of a whole response, for the four adapters of     *)
(* src/sdk/providers. Thinking is streamed as text is and left out.        *)
(*                                                                         *)
(* An answer is a number of text pieces and, per call, of argument pieces. *)
(***************************************************************************)
EXTENDS Integers, SequencesExt

CONSTANTS
    Api,        \* the adapters to run: some of "anthropic", "openai", "responses", "ollama"
    Answers     \* answers a model may stream: [text |-> n, calls |-> <<n1, n2>>]

VARIABLES
    api,        \* the adapter of the call
    answer,     \* what the model means to say
    sent,       \* what of it the wire has carried, and whether that was all
    acc,        \* the accumulated fragments: content_parts, tc_accum in order of insertion
    deltas,     \* text pieces yielded as ChatDelta
    outcome     \* the reply, or how the call ended without one

streamVars == <<api, answer, sent, acc, deltas, outcome>>

None    == [text |-> 0, calls |-> <<>>]
Pending == [kind |-> "pending", text |-> 0, calls |-> <<>>]
Failed(kind) == [kind |-> kind, text |-> 0, calls |-> <<>>]
NoFragments == [text |-> 0, calls |-> <<>>, closed |-> FALSE]

Init ==
    /\ api = "none" /\ answer = None /\ sent = NoFragments
    /\ acc = NoFragments /\ deltas = 0 /\ outcome = Pending

(* What chat makes of the whole answer: every call with its arguments.     *)
Normalized(a) ==
    [kind |-> "reply", text |-> a.text,
     calls |-> [k \in DOMAIN a.calls |-> [index |-> k, args |-> "whole"]]]

(* Arguments are parsed when the stream has ended: fragments that are no   *)
(* JSON, for pieces are missing, give no arguments at all.                 *)
Parsed(a, f) == IF f.pieces = a.calls[f.index] THEN "whole" ELSE "empty"
BuildToolCalls(a, f) ==
    [i \in DOMAIN f.calls |-> [index |-> f.calls[i].index, args |-> Parsed(a, f.calls[i])]]

Request(w, a) ==
    /\ api = "none" /\ api' = w /\ answer' = a
    /\ UNCHANGED <<sent, acc, deltas, outcome>>

Streaming == api # "none" /\ outcome = Pending /\ ~sent.closed

(* A piece of text is yielded as it comes.                                 *)
TextPiece ==
    /\ Streaming /\ sent.text < answer.text
    /\ sent' = [sent EXCEPT !.text = @ + 1]
    /\ acc' = [acc EXCEPT !.text = @ + 1]
    /\ deltas' = deltas + 1
    /\ UNCHANGED <<api, answer, outcome>>

(* A call is announced, in order, by its identifier and name: whole at     *)
(* once by Ollama, to be followed by its arguments otherwise.              *)
Announced ==
    LET k     == Len(sent.calls) + 1
        piece == IF api = "ollama" THEN answer.calls[k] ELSE 0
    IN
    /\ Streaming /\ k \in DOMAIN answer.calls
    /\ sent' = [sent EXCEPT !.calls = Append(@, piece)]
    /\ acc' = [acc EXCEPT !.calls = Append(@, [index |-> k, pieces |-> piece])]
    /\ UNCHANGED <<api, answer, deltas, outcome>>

\* Slip: a fragment goes to the call announced last.
ArgumentPieceOfLast(k) ==
    /\ Streaming /\ k \in DOMAIN sent.calls /\ sent.calls[k] < answer.calls[k]
    /\ sent' = [sent EXCEPT !.calls[k] = @ + 1]
    /\ acc' = [acc EXCEPT !.calls[Len(acc.calls)].pieces = @ + 1]
    /\ UNCHANGED <<api, answer, deltas, outcome>>

(* A fragment goes to the call of its index, whichever came last.          *)
ArgumentPiece(k) ==
    /\ Streaming /\ k \in DOMAIN sent.calls /\ sent.calls[k] < answer.calls[k]
    /\ sent' = [sent EXCEPT !.calls[k] = @ + 1]
    /\ acc' = [acc EXCEPT !.calls = [i \in DOMAIN acc.calls |->
                  LET f == acc.calls[i]
                  IN  [f EXCEPT !.pieces = IF f.index = k THEN f.pieces + 1 ELSE f.pieces]]]
    /\ UNCHANGED <<api, answer, deltas, outcome>>

Complete == /\ sent.text = answer.text /\ Len(sent.calls) = Len(answer.calls)
            /\ \A k \in DOMAIN sent.calls : sent.calls[k] = answer.calls[k]

(* What each adapter yields at the end of its stream. Anthropic's SDK has  *)
(* kept the message, and raises when the stream ends before it is whole;   *)
(* the others have only their fragments, and take an end for the end of    *)
(* the answer. Ollama's go onto the last chunk, whatever it carried.       *)
AnthropicReply == Normalized(answer)
ResponsesReply == [kind |-> "reply", text |-> acc.text, calls |-> BuildToolCalls(answer, acc)]
OpenAIReply == [kind |-> "reply", text |-> acc.text, calls |-> BuildToolCalls(answer, acc)]
OllamaReply ==
    IF sent = NoFragments /\ ~Complete THEN Failed("retryable")
    ELSE [kind |-> "reply", text |-> acc.text,
          calls |-> [i \in DOMAIN acc.calls |-> [index |-> acc.calls[i].index, args |-> "whole"]]]

StreamEnds ==
    /\ Streaming
    /\ Complete \/ api # "anthropic"
    /\ sent' = [sent EXCEPT !.closed = TRUE]
    /\ outcome' = CASE api = "anthropic" -> AnthropicReply
                    [] api = "responses" -> ResponsesReply
                    [] api = "openai"    -> OpenAIReply
                    [] api = "ollama"    -> OllamaReply
    /\ UNCHANGED <<api, answer, acc, deltas>>

(* A broken connection, or a status that passes, is worth a retry; any     *)
(* other error ends the turn.                                              *)
StreamBreaks(kind) ==
    /\ Streaming
    /\ outcome' = Failed(kind)
    /\ UNCHANGED <<api, answer, sent, acc, deltas>>

(* Ollama's first chunk is waited for a while only; the others as long as  *)
(* they take.                                                              *)
FirstTokenLate ==
    /\ Streaming /\ api = "ollama" /\ sent = NoFragments
    /\ outcome' = Failed("retryable")
    /\ UNCHANGED <<api, answer, sent, acc, deltas>>

Next ==
    \/ \E w \in Api, a \in Answers : Request(w, a)
    \/ TextPiece
    \/ Announced
    \/ \E k \in 1..2 : ArgumentPiece(k)
    \/ StreamEnds
    \/ \E kind \in {"retryable", "fatal"} : StreamBreaks(kind)
    \/ FirstTokenLate

-----------------------------------------------------------------------------
(* A reply's text is what was shown of it as it came, and a stream that    *)
(* came to its end is assembled to what the same answer gives without      *)
(* streaming: each fragment in its call, the calls in their order.         *)
StreamedAsWhole ==
    outcome.kind = "reply" =>
        /\ deltas = outcome.text
        /\ Complete => outcome = Normalized(answer)
=============================================================================
