---------------------------- MODULE ProviderWire ----------------------------
(***************************************************************************)
(* What a provider's adapter sends for a history (src/sdk/providers): the  *)
(* message conversions of Anthropic, OpenAI, OpenAI Responses and Ollama.  *)
(* A wire message is its role and its blocks; texts, images and arguments  *)
(* are left out, an identifier of a call is kept, for the API matches a    *)
(* result with its call by it.                                             *)
(***************************************************************************)
EXTENDS Integers, SequencesExt

NoId == <<>>
Block(type, id) == [type |-> type, id |-> id]

\* Slip: an assistant message's calls share its identifier.
CallIdPerMessage(m, k) == <<m.id, 1>>

CallId(m, k) == <<m.id, k>>
Calls(m) == [k \in DOMAIN m.calls |-> Block("call", CallId(m, k))]

Texts(m) == IF m.text THEN <<Block("text", NoId)>> ELSE <<>>
Wire(role, blocks) == <<[role |-> role, blocks |-> blocks]>>

(* One message of blocks per assistant message, none if it has no block;   *)
(* a result is a user message.                                             *)
AnthropicMessages(h) == FlattenSeq([i \in DOMAIN h |->
    CASE h[i].role = "assistant" ->
             IF Texts(h[i]) \o Calls(h[i]) = <<>> THEN <<>>
             ELSE Wire("assistant", Texts(h[i]) \o Calls(h[i]))
      [] h[i].role = "tool" -> Wire("user", <<Block("result", h[i].call)>>)
      [] OTHER -> Wire("user", <<Block("text", NoId)>>)])

(* Messages keep their shape; calls are written out beside the content.    *)
OpenAIMessages(h) == FlattenSeq([i \in DOMAIN h |->
    CASE h[i].role = "tool" -> Wire("tool", <<Block("result", h[i].call)>>)
      [] OTHER -> Wire(h[i].role, Texts(h[i]) \o Calls(h[i]))])

(* A flat list of items: an assistant message's text is one, each call one.*)
ResponsesItems(h) == FlattenSeq([i \in DOMAIN h |->
    CASE h[i].role = "assistant" ->
             FlattenSeq([k \in DOMAIN (Texts(h[i]) \o Calls(h[i])) |->
                 Wire("assistant", <<(Texts(h[i]) \o Calls(h[i]))[k]>>)])
      [] h[i].role = "tool" -> Wire("item", <<Block("result", h[i].call)>>)
      [] OTHER -> Wire("user", <<Block("text", NoId)>>)])

Converted(provider, h) ==
    CASE provider = "anthropic" -> AnthropicMessages(h)
      [] provider = "openai"    -> ResponsesItems(h)
      [] OTHER                  -> OpenAIMessages(h)

-----------------------------------------------------------------------------
(* What the APIs ask for: a result names one call, made before it, and no  *)
(* other result names it.                                                  *)
Blocks(wire) == FlattenSeq([i \in DOMAIN wire |-> wire[i].blocks])
Matched(wire) ==
    LET b == Blocks(wire) IN
    \A j \in DOMAIN b : b[j].type = "result" =>
        /\ \E i \in 1..(j - 1) : b[i] = Block("call", b[j].id)
        /\ b[j].id # NoId
        /\ \A i \in DOMAIN b \ {j} : b[i] # b[j]
(* ... and every call but the given ones has its result.                   *)
Answered(wire, except) ==
    LET b == Blocks(wire) IN
    \A i \in DOMAIN b : b[i].type = "call" /\ b[i].id # NoId /\ b[i].id[1] \notin except =>
        \E j \in DOMAIN b : b[j] = Block("result", b[i].id)
=============================================================================
