-------------------------- MODULE MCDiemCommittee --------------------------
(* Small instances of DiemCommittee: a block is the number whose digits are  *)
(* the rounds on its branch, a NIL block the negative of it.                 *)
EXTENDS DiemCommittee, FiniteSets, TLC

CONSTANTS Faulty, QuorumSize

abs(n) == IF n < 0 THEN -n ELSE n

\* A chain of three blocks that commits its first, the NIL block that competes
\* with the third, and two blocks of the round after: one on the committed block
\* and one that forks off below it.
ForkTree == {0, 1, 12, 123, -123, 14, 4}

MCRoundOf(n) == abs(n) % 10
MCParent(n) == abs(n) \div 10
MCAncestors(n) == {n, abs(n) \div 10, abs(n) \div 100, 0}
MCNilBlocks == {-123}
MCQuorums == UNION {IF Cardinality(Q) = QuorumSize THEN {Q} ELSE {} : Q \in SUBSET (Honest \cup Faulty)}

Symmetry == Permutations(Honest)
=============================================================================
