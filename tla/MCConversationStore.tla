------------------------ MODULE MCConversationStore ------------------------
(***************************************************************************)
(* Small instances of ConversationStore for TLC.                           *)
(***************************************************************************)
EXTENDS ConversationStore, TLC

RequestSymmetry == Permutations(Requests)
=============================================================================
