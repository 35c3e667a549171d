------------------------- MODULE MCConversationList -------------------------
(* ConversationList with one client walking and one request in flight. *)
EXTENDS ConversationList, TLC

Symmetry == Permutations(Conversations) \cup Permutations(Messages) \cup Permutations(Workers)
=============================================================================
