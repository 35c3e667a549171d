-------------------------- MODULE MCConversations --------------------------
(* Conversations of two accounts, one of which may block the other.        *)
EXTENDS Conversations, TLC

CONSTANTS ua, ub

MCBlockable == {<<ub, ua>>}

Symmetry == Permutations(Workers) \cup Permutations(Directs)
=============================================================================
