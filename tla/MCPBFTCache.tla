---------------------------- MODULE MCPBFTCache ----------------------------
(***************************************************************************)
(* The smallest committee with a peer: both nodes are needed for a quorum, *)
(* and the peer weighs twice as much as the node.                          *)
(***************************************************************************)
EXTENDS PBFTCache, TLC

PairWeight == 0 :> 1 @@ 1 :> 2

HashSymmetry == Permutations(Hashes)

PrePreparesSeen == ({cache.prePrepare, cache.precommit} \ {None}) \cup verifying

FirstViews ==
    /\ view <= 1
    /\ \A r \in PrePreparesSeen : r.view <= 1
    /\ \A h \in Hashes, n \in Nodes : cache.prepares[h][n] # 2 /\ cache.commits[h][n] # 2

SingleProposal ==
    \E k \in Hashes :
        /\ \A r \in PrePreparesSeen : r.hash = k
        /\ \A h \in Hashes \ {k} :
             /\ queue.queued[h] = 0 /\ queue.running[h] = 0
             /\ \A n \in Nodes : cache.prepares[h][n] = None /\ cache.commits[h][n] = None

\* Bound: two proposals in the views 0 and 1, or one proposal in all views with one
\* verification at a time.
FewSeen == FirstViews \/ (SingleProposal /\ Cardinality(verifying) <= 1)
=============================================================================
