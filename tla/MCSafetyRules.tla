--------------------------- MODULE MCSafetyRules ---------------------------
(* Small instances of SafetyRules.                                         *)
EXTENDS SafetyRules

\* Every well-formed chain shape up to MaxRound.
AllBlocks ==
    {b \in Block : b.qc1 < b.round /\ (b.qc0 < b.qc1 \/ (b.qc1 = 0 /\ b.qc0 = 0))}

\* In the first epoch the longest chain, and a block at its last round that forks
\* off at the start; in the second epoch the block of the first round.
ChainAndForks ==
    LET At(e, r, q1, q0) == [epoch : {e}, round : {r}, id : Ids, qc1 : {q1}, qc0 : {q0}]
    IN  At(1, 1, 0, 0) \cup At(1, 2, 1, 0) \cup At(1, 3, 2, 1) \cup At(1, 4, 3, 2)
          \cup At(1, 4, 0, 0) \cup At(2, 1, 0, 0)

\* A proposal signature changes nothing a later call reads; one is enough.
OneProposal == {CHOOSE b \in ChainAndForks : b.epoch = 2}

\* A timeout for round 3 that names the certificate of round 1, older than the one
\* a block of round 3 carries,
\* and a timeout certificate that lets it be signed.
ForkTimeouts == {[round |-> 3, hqc |-> 1]}
ForkTimeoutCerts == {[round |-> 2, hqc |-> 0], NoTC}
=============================================================================
