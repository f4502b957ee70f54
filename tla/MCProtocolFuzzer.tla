-------------------------- MODULE MCProtocolFuzzer --------------------------
(***************************************************************************)
(* Seven orderers, so that the second strategy, which drops the first six, *)
(* still has a receiver.                                                   *)
(***************************************************************************)
EXTENDS ProtocolFuzzer, TLC

NodesList7 == <<1, 2, 3, 4, 5, 6, 7>>

Symmetry == Permutations(Msgs) \cup Permutations(Txs)
=============================================================================
