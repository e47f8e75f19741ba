----------------------------- MODULE MCChatStream -----------------------------
(***************************************************************************)
(* One message whose turn may spawn two sub-agents, or two messages in a   *)
(* row, of which the second may be sent while the first still streams.     *)
(***************************************************************************)
EXTENDS ChatStream

MCPlans == {<<{1, 2}>>, <<{}, {}>>}
MCAhead == <<1, 0>>
=============================================================================
