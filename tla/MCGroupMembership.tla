------------------------- MODULE MCGroupMembership -------------------------
(* GroupMembership on three accounts: the creator and two others, who may  *)
(* block each other.                                                       *)
EXTENDS GroupMembership, TLC

CONSTANTS cr, ua, ub

MCBlockable == {<<ua, ub>>}

Symmetry == Permutations(Workers)
=============================================================================
