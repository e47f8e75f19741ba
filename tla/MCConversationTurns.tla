------------------------ MODULE MCConversationTurns -------------------------
(***************************************************************************)
(* Instances of ConversationTurns for TLC.                                 *)
(***************************************************************************)
EXTENDS ConversationTurns

CONSTANTS a, b
TwoConvs == {a, b}
Swap == Permutations(TwoConvs)
=============================================================================
