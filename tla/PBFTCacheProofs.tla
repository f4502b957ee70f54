--------------------------- MODULE PBFTCacheProofs ---------------------------
(***************************************************************************)
(* PBFTCache for every committee, every weight, every set of proposals and *)
(* every number of views: two quorums share an honest node, the running    *)
(* weights are those of the cached messages, a precommit has its proof and *)
(* a submitted proposal its quorum, the node votes Commit for one proposal *)
(* and its view never falls.                                               *)
(***************************************************************************)
EXTENDS PBFTCache, FiniteSetTheorems, TLAPS

-----------------------------------------------------------------------------
(***************************************************************************)
(* The sum of the weights.  The fold over a set of nodes is the number of  *)
(* the units of weight its members hold, whatever order it takes them in:  *)
(* counting units satisfies the fold's equation, and only one function on  *)
(* the subsets of a finite set does.                                       *)
(***************************************************************************)
Units(S) == UNION {{n} \X (1..Weight[n]) : n \in S}

Pick(s) == CHOOSE x \in s : TRUE

IsFold(f, S) ==
    f = [s \in SUBSET S |-> IF s = {} THEN 0 ELSE Weight[Pick(s)] + f[s \ {Pick(s)}]]

(***************************************************************************)
(* Total as the library defines it, the function it chooses named.         *)
(***************************************************************************)
LEMMA TotalUnfolds ==
    ASSUME NEW S
    PROVE  Total(S) = (CHOOSE f : IsFold(f, S))[S]
BY DEF Total, MapThenSumSet, MapThenFoldSet, IsFold, Pick

(***************************************************************************)
(* The committee is finite.                                                *)
(***************************************************************************)
LEMMA NodesFinite == IsFiniteSet(Nodes)
BY FS_Interval, NodesAssumption DEF Nodes

(***************************************************************************)
(* A set of nodes holds finitely many units of weight.                     *)
(***************************************************************************)
LEMMA UnitsFinite ==
    ASSUME NEW S, S \subseteq Nodes
    PROVE  IsFiniteSet(Units(S)) /\ Cardinality(Units(S)) \in Nat
<1> DEFINE f == [n \in S |-> {n} \X (1..Weight[n])]
           T == {{n} \X (1..Weight[n]) : n \in S}
<1>1. IsFiniteSet(S)
  BY NodesFinite, FS_Subset
<1>2. f \in Surjection(S, T)
  BY DEF Surjection
<1>3. IsFiniteSet(T)
  BY <1>1, <1>2, FS_Surjection
<1>4. ASSUME NEW n \in S PROVE IsFiniteSet({n} \X (1..Weight[n]))
  <2>1. Weight[n] \in Nat
    BY WeightAssumption
  <2>2. 1 \in Int /\ Weight[n] \in Int
    BY <2>1
  <2>3. IsFiniteSet(1..Weight[n])
    BY <2>2, FS_Interval
  <2>4. IsFiniteSet({n})
    BY FS_Singleton
  <2> QED  BY <2>3, <2>4, FS_Product
<1>5. \A X \in T : IsFiniteSet(X)
  BY <1>4
<1> HIDE DEF T
<1>6. IsFiniteSet(UNION T)
  BY <1>3, <1>5, FS_UNION
<1>7. Units(S) = UNION T
  BY DEF Units, T
<1> QED
  BY <1>6, <1>7, FS_CardinalityType

(***************************************************************************)
(* One more node adds its own weight to the units.                         *)
(***************************************************************************)
LEMMA UnitsAdd ==
    ASSUME NEW S, S \subseteq Nodes, NEW n \in Nodes \ S
    PROVE  Cardinality(Units(S \cup {n})) = Cardinality(Units(S)) + Weight[n]
<1> DEFINE X == {n} \X (1..Weight[n])
<1>1. Weight[n] \in Nat
  BY WeightAssumption
<1>2. IsFiniteSet(1..Weight[n]) /\ Cardinality(1..Weight[n]) = Weight[n]
  <2>1. 1 \in Int /\ Weight[n] \in Int
    BY <1>1
  <2>2. /\ IsFiniteSet(1..Weight[n])
        /\ Cardinality(1..Weight[n]) = IF 1 > Weight[n] THEN 0 ELSE Weight[n] - 1 + 1
    BY <2>1, FS_Interval
  <2> QED
    BY <1>1, <2>2
<1>3. IsFiniteSet({n}) /\ Cardinality({n}) = 1
  BY FS_Singleton
<1>4. IsFiniteSet(X) /\ Cardinality(X) = Cardinality({n}) * Cardinality(1..Weight[n])
  BY <1>2, <1>3, FS_Product
<1>5. Cardinality(X) = Weight[n]
  BY <1>1, <1>2, <1>3, <1>4
<1>6. Units(S \cup {n}) = Units(S) \cup X /\ Units(S) \cap X = {}
  BY DEF Units
<1> HIDE DEF X
<1>7. Cardinality(Units(S \cup {n})) = Cardinality(Units(S)) + Cardinality(X) - Cardinality({})
  BY <1>4, <1>6, UnitsFinite, FS_Union
<1> QED
  BY <1>1, <1>5, <1>7, UnitsFinite, FS_EmptySet

(***************************************************************************)
(* The sum is the number of units: the set with the fewest nodes of which  *)
(* this is wrong would be one node larger than one of which it is right.   *)
(***************************************************************************)
LEMMA TotalIsUnits ==
    ASSUME NEW S, S \subseteq Nodes
    PROVE  Total(S) = Cardinality(Units(S))
<1> DEFINE g == [s \in SUBSET S |-> Cardinality(Units(s))]
           f == CHOOSE h : IsFold(h, S)
<1>1. ASSUME NEW s \in SUBSET S, s # {}
      PROVE  /\ Pick(s) \in s
             /\ Cardinality(Units(s)) = Weight[Pick(s)] + Cardinality(Units(s \ {Pick(s)}))
  <2>1. Pick(s) \in s
    BY <1>1 DEF Pick
  <2>2. s = (s \ {Pick(s)}) \cup {Pick(s)} /\ s \ {Pick(s)} \subseteq Nodes
        /\ Pick(s) \in Nodes \ (s \ {Pick(s)})
    BY <2>1
  <2>3. Cardinality(Units(s)) = Cardinality(Units(s \ {Pick(s)})) + Weight[Pick(s)]
    BY <2>2, UnitsAdd
  <2>4. Weight[Pick(s)] \in Nat /\ Cardinality(Units(s \ {Pick(s)})) \in Nat
    BY <2>2, UnitsFinite, WeightAssumption
  <2> QED  BY <2>1, <2>3, <2>4
<1>2. Cardinality(Units({})) = 0
  <2>1. Units({}) = {}
    BY DEF Units
  <2> QED  BY <2>1, FS_EmptySet
<1>3. IsFold(g, S)
  BY <1>1, <1>2 DEF IsFold
<1>4. IsFold(f, S)
  BY <1>3
<1> HIDE DEF f
<1>5. ASSUME NEW s \in SUBSET S, f[s] # Cardinality(Units(s))
      PROVE  FALSE
  <2> DEFINE Bad == {t \in SUBSET S : f[t] # Cardinality(Units(t))}
  <2>1. IsFiniteSet(S)
    BY NodesFinite, FS_Subset
  <2>2. IsWellFoundedOn(StrictSubsetOrdering(S), SUBSET S)
    BY <2>1, FS_StrictSubsetOrderingWellFounded, FS_FiniteSubsetsOfFinite
  <2>3. PICK t \in Bad : \A u \in Bad : ~(<<u, t>> \in StrictSubsetOrdering(S))
    BY <1>5, <2>2, WFMin
  <2>4. t # {}
    BY <1>2, <1>4, <2>3 DEF IsFold
  <2>5. f[t] = Weight[Pick(t)] + f[t \ {Pick(t)}]
    BY <1>4, <2>3, <2>4 DEF IsFold
  <2>6. Pick(t) \in t
    BY <1>1, <2>3, <2>4
  <2>7. <<t \ {Pick(t)}, t>> \in StrictSubsetOrdering(S)
    BY <2>3, <2>6 DEF StrictSubsetOrdering
  <2>8. f[t \ {Pick(t)}] = Cardinality(Units(t \ {Pick(t)}))
    BY <2>3, <2>7
  <2> QED
    BY <1>1, <2>3, <2>4, <2>5, <2>8
<1> QED
  BY <1>5, TotalUnfolds DEF f

(***************************************************************************)
(* What the proofs below use of the sum.                                   *)
(***************************************************************************)
LEMMA TotalFacts ==
    ASSUME NEW S, S \subseteq Nodes
    PROVE  /\ Total(S) \in Nat
           /\ \A n \in Nodes \ S : Total(S \cup {n}) = Total(S) + Weight[n]
           /\ \A T \in SUBSET S : Total(T) <= Total(S)
<1>1. Total(S) \in Nat
  BY TotalIsUnits, UnitsFinite
<1>2. ASSUME NEW n \in Nodes \ S PROVE Total(S \cup {n}) = Total(S) + Weight[n]
  BY TotalIsUnits, UnitsAdd
<1>3. ASSUME NEW T \in SUBSET S PROVE Total(T) <= Total(S)
  <2>1. Units(T) \subseteq Units(S)
    BY DEF Units
  <2> QED
    BY <2>1, TotalIsUnits, UnitsFinite, FS_Subset
<1> QED
  BY <1>1, <1>2, <1>3

(***************************************************************************)
(* updateQuorum: two sets of nodes that each weigh minRequiredQuorum share *)
(* more weight than maxFaultyQuorum, so they share a node that is not      *)
(* faulty while the faulty ones weigh at most maxFaultyQuorum.             *)
(***************************************************************************)
THEOREM QuorumsOverlap ==
    ASSUME NEW S, S \subseteq Nodes, NEW T, T \subseteq Nodes, Total(Nodes) > 0,
           Total(S) >= minRequiredQuorum, Total(T) >= minRequiredQuorum
    PROVE  Total(S \cap T) > maxFaultyQuorum
<1> DEFINE s == Total(S)
           t == Total(T)
           u == Total(S \cup T)
           i == Total(S \cap T)
           w == Total(Nodes)
<1>1. s \in Nat /\ t \in Nat /\ u \in Nat /\ i \in Nat /\ w \in Nat /\ u <= w
  BY TotalFacts
<1>2. u = s + t - i
  <2>1. Units(S \cup T) = Units(S) \cup Units(T)
    BY DEF Units
  <2>2. Units(S \cap T) = Units(S) \cap Units(T)
    BY DEF Units
  <2>3. /\ u = Cardinality(Units(S) \cup Units(T)) /\ i = Cardinality(Units(S) \cap Units(T))
        /\ s = Cardinality(Units(S)) /\ t = Cardinality(Units(T))
    BY <2>1, <2>2, TotalIsUnits
  <2>4. IsFiniteSet(Units(S)) /\ IsFiniteSet(Units(T))
    BY UnitsFinite
  <2> HIDE DEF s, t, u, i
  <2> QED
    BY <2>3, <2>4, FS_Union
<1> HIDE DEF s, t, u, i, w
<1>3. /\ s >= w - (w - 1) \div 3 /\ t >= w - (w - 1) \div 3 /\ w > 0
  BY DEF minRequiredQuorum, maxFaultyQuorum, s, t, w
<1>4. i > (w - 1) \div 3
  BY <1>1, <1>2, <1>3
<1> QED
  BY <1>4 DEF maxFaultyQuorum, i, w

-----------------------------------------------------------------------------
Fields ==
    {"prePrepare", "precommit", "proof", "precommitted", "submitted", "checkpoint",
     "prepares", "commits", "prepareWeight", "commitWeight", "votes", "submissions"}

(***************************************************************************)
(* What the lock rests on.  Once there is a precommit there is a           *)
(* pre-prepare, for the same proposal: checkAndPreCommit reads its view    *)
(* untested, and the commits are counted by its hash while the precommit   *)
(* is what is submitted.  And nothing was voted for but the precommit.     *)
(***************************************************************************)
Locked(c) ==
    /\ DOMAIN c = Fields
    /\ c.precommit # None => c.prePrepare # None /\ c.prePrepare.hash = c.precommit.hash
    /\ \A x \in c.votes : c.precommit # None /\ x.hash = c.precommit.hash

IInv == view \in Views /\ verifying \subseteq Verified /\ Locked(cache)

(***************************************************************************)
(* d differs from c in fields that Locked does not read.                   *)
(***************************************************************************)
SameLock(c, d) ==
    /\ DOMAIN d = DOMAIN c
    /\ d.prePrepare = c.prePrepare /\ d.precommit = c.precommit /\ d.votes = c.votes

LEMMA SameLockKeeps ==
    ASSUME NEW c, NEW d, Locked(c), SameLock(c, d)
    PROVE  Locked(d)
BY DEF Locked, SameLock

(***************************************************************************)
(* Votes of others and submissions do not touch the lock.                  *)
(***************************************************************************)
LEMMA AddPrepareSame ==
    ASSUME NEW c, NEW h, NEW n, NEW v
    PROVE  SameLock(c, addPrepareCache(c, h, n, v))
BY DEF SameLock, addPrepareCache

LEMMA AddCommitSame ==
    ASSUME NEW c, NEW h, NEW n, NEW v
    PROVE  SameLock(c, addCommitCache(c, h, n, v))
BY DEF SameLock, addCommitCache

LEMMA CheckAndCommitSame ==
    ASSUME NEW c
    PROVE  SameLock(c, checkAndCommit(c))
BY DEF SameLock, checkAndCommit

LEMMA ResetSame ==
    ASSUME NEW c, NEW v
    PROVE  SameLock(c, resetCache(c, v))
BY DEF SameLock, resetCache

(***************************************************************************)
(* intoPrecommit moves the lock to the pre-prepare, which is for the       *)
(* proposal that was locked before, if one was.                            *)
(***************************************************************************)
LEMMA IntoPrecommitLocks ==
    ASSUME NEW c, Locked(c), c.prePrepare # None
    PROVE  Locked(intoPrecommit(c))
<1> DEFINE d == intoPrecommit(c)
<1>1. /\ DOMAIN d = Fields
      /\ d.prePrepare = c.prePrepare /\ d.precommit = c.prePrepare
      /\ d.votes = c.votes \cup {[hash |-> c.prePrepare.hash, view |-> view]}
  BY DEF Locked, intoPrecommit, Fields
<1>2. \A x \in d.votes : x.hash = c.prePrepare.hash
  BY <1>1 DEF Locked
<1> QED
  BY <1>1, <1>2 DEF Locked

LEMMA CheckAndPreCommitLocked ==
    ASSUME NEW c, Locked(c)
    PROVE  Locked(checkAndPreCommit(c))
<1> DEFINE p == intoPrecommit(c)
           a == addCommitCache(p, c.prePrepare.hash, Self, view)
<1>1. CASE checkAndPreCommit(c) = c
  BY <1>1
<1>2. CASE checkAndPreCommit(c) # c
  <2>1. c.prePrepare # None /\ checkAndPreCommit(c) = checkAndCommit(a)
    BY <1>2 DEF checkAndPreCommit, collectEnoughPrepareReq
  <2>2. Locked(p)
    BY <2>1, IntoPrecommitLocks
  <2>3. Locked(a)
    BY <2>2, AddCommitSame, SameLockKeeps
  <2> QED
    BY <2>1, <2>3, CheckAndCommitSame, SameLockKeeps
<1> QED
  BY <1>1, <1>2

(***************************************************************************)
(* A pre-prepare that conflictWithPrecommitReq lets pass may be cached.    *)
(***************************************************************************)
LEMMA PrePrepareLocked ==
    ASSUME NEW c, NEW pp, Locked(c),
           pp.hash \in Hashes, pp.view \in Views,
           ~conflictWithPrecommitReq(c, pp)
    PROVE  Locked(addPrePrepareCache(c, pp))
<1> DEFINE m == [hash |-> pp.hash, view |-> pp.view]
<1>1. m # None /\ m.hash = pp.hash
  BY NoneAssumption
<1>2. CASE addPrePrepareCache(c, pp) = c
  BY <1>2
<1>3. CASE addPrePrepareCache(c, pp) = [c EXCEPT !.prePrepare = m]
  <2> DEFINE d == [c EXCEPT !.prePrepare = m]
  <2>1. /\ DOMAIN d = Fields /\ d.prePrepare = m
        /\ d.precommit = c.precommit /\ d.votes = c.votes
    BY DEF Locked, Fields
  <2>2. c.precommit # None => c.precommit.hash = pp.hash
    BY DEF conflictWithPrecommitReq
  <2>3. Locked(d)
    BY <1>1, <2>1, <2>2 DEF Locked
  <2> QED
    BY <1>3, <2>3
<1> QED
  BY <1>2, <1>3 DEF addPrePrepareCache

LEMMA VerifiedLocked ==
    ASSUME NEW pp, Locked(cache), pp.hash \in Hashes, pp.view \in Views,
           checkPrePrepareMsg(view, cache, pp), PrePrepareVerified(pp)
    PROVE  Locked(cache')
<1> DEFINE a == addPrePrepareCache(cache, pp)
           b == addPrepareCache(a, pp.hash, Self, view)
<1>1. Locked(a)
  BY PrePrepareLocked DEF checkPrePrepareMsg
<1>2. Locked(b)
  BY <1>1, AddPrepareSame, SameLockKeeps
<1>3. cache' = checkAndPreCommit(b)
  BY DEF PrePrepareVerified, SetCache
<1> QED
  BY <1>2, <1>3, CheckAndPreCommitLocked

LEMMA NewCacheLocked == Locked(NewCache)
BY DEF Locked, NewCache, Fields

(***************************************************************************)
(* The inductive invariant, one step per action.                           *)
(***************************************************************************)
THEOREM Inductive == Spec => []IInv
<1>1. Init => IInv
  BY NewCacheLocked, ViewAssumption DEF Init, IInv, Views
<1>2. IInv /\ [Next]_vars => IInv'
  <2> SUFFICES ASSUME IInv, [Next]_vars
               PROVE  IInv'
    OBVIOUS
  <2> USE DEF IInv
  <2>0. Locked(cache') /\ UNCHANGED <<view, verifying>> => IInv'
    BY DEF Locked
  <2>1. ASSUME NEW pp \in Verified, handlePrePrepareMsg(pp)
        PROVE  IInv'
    BY <2>1 DEF handlePrePrepareMsg, Locked
  <2>2. ASSUME NEW pp \in Verified, onVerifyFinished(pp)
        PROVE  IInv'
    <3>1. pp.hash \in Hashes /\ pp.view \in Views
      BY DEF Verified
    <3>2. Locked(cache')
      BY <2>2, <3>1, VerifiedLocked DEF onVerifyFinished
    <3> QED
      BY <2>2, <3>2 DEF onVerifyFinished, Locked
  <2>3. ASSUME NEW h \in Hashes, onRecvProposal(h)
        PROVE  IInv'
    <3> DEFINE pp == [hash |-> h, view |-> view]
    <3>1. checkPrePrepareMsg(view, cache, pp) /\ PrePrepareVerified(pp)
      BY <2>3 DEF onRecvProposal
    <3>2. pp.hash \in Hashes /\ pp.view \in Views
      OBVIOUS
    <3> HIDE DEF pp
    <3>3. Locked(cache')
      BY <3>1, <3>2, VerifiedLocked
    <3> QED
      BY <2>0, <2>3, <3>3 DEF onRecvProposal
  <2>4. ASSUME NEW m \in Votes, handlePrepareMsg(m)
        PROVE  IInv'
    <3> DEFINE a == addPrepareCache(cache, m.hash, m.from, m.view)
    <3>1. Locked(a)
      BY AddPrepareSame, SameLockKeeps
    <3>2. cache' = checkAndPreCommit(a)
      BY <2>4 DEF handlePrepareMsg, SetCache
    <3> QED
      BY <2>0, <2>4, <3>1, <3>2, CheckAndPreCommitLocked DEF handlePrepareMsg
  <2>5. ASSUME NEW m \in Votes, handleCommitMsg(m)
        PROVE  IInv'
    <3> DEFINE a == addCommitCache(cache, m.hash, m.from, m.view)
    <3>1. Locked(a)
      BY AddCommitSame, SameLockKeeps
    <3>2. cache' = checkAndCommit(a)
      BY <2>5 DEF handleCommitMsg, SetCache
    <3>3. Locked(cache')
      BY <3>1, <3>2, CheckAndCommitSame, SameLockKeeps
    <3> QED
      BY <2>0, <2>5, <3>3 DEF handleCommitMsg
  <2>6. CASE OtherNumberHandled
    <3>1. cache' = checkAndPreCommit(cache) \/ cache' = checkAndCommit(cache)
      BY <2>6 DEF OtherNumberHandled, SetCache
    <3>2. Locked(cache')
      BY <3>1, CheckAndPreCommitLocked, CheckAndCommitSame, SameLockKeeps
    <3> QED
      BY <2>0, <2>6, <3>2 DEF OtherNumberHandled
  <2>7. ASSUME NEW v \in Views, reHandlePrePrepareProposals(v)
        PROVE  IInv'
    <3>1. Locked(cache')
      BY <2>7, ResetSame, SameLockKeeps DEF reHandlePrePrepareProposals
    <3>2. view' \in Views /\ verifying' \subseteq Verified
      BY <2>7 DEF reHandlePrePrepareProposals
    <3> QED
      BY <3>1, <3>2 DEF Locked
  <2>8. ASSUME NEW v \in Views, checkAndTryToRecover(v)
        PROVE  IInv'
    <3>1. Locked(cache')
      BY <2>8, ResetSame, SameLockKeeps DEF checkAndTryToRecover
    <3>2. view' \in Views /\ verifying' = verifying
      BY <2>8 DEF checkAndTryToRecover, resetNewViewState
    <3> QED
      BY <3>1, <3>2 DEF Locked
  <2>9. ASSUME NEW h \in Hashes, onProposalApplySuccess(h)
        PROVE  IInv'
    <3>1. SameLock(cache, [cache EXCEPT !.checkpoint = TRUE])
      BY DEF SameLock
    <3> QED
      BY <2>0, <2>9, <3>1, SameLockKeeps DEF onProposalApplySuccess
  <2>10. ASSUME NEW h \in Hashes, onProposalApplyFailed(h)
         PROVE  IInv'
    BY <2>0, <2>10 DEF onProposalApplyFailed
  <2>11. ASSUME NEW e, LowerApplied(e)
         PROVE  IInv'
    BY <2>0, <2>11 DEF LowerApplied
  <2>12. CASE OtherApplyFailed \/ RetryQueue
    BY <2>0, <2>12 DEF OtherApplyFailed, RetryQueue
  <2>13. ASSUME NEW n, NEW synced, finalizeConsensus(n, synced)
         PROVE  IInv'
    <3>1. SameLock(cache, [cache EXCEPT !.submissions = 0])
      BY DEF SameLock
    <3>2. cache' \in {cache, NewCache, [cache EXCEPT !.submissions = 0]}
      BY <2>13 DEF finalizeConsensus
    <3>3. Locked(cache')
      BY <3>1, <3>2, NewCacheLocked, SameLockKeeps
    <3> QED
      BY <2>0, <2>13, <3>3 DEF finalizeConsensus
  <2>14. CASE UNCHANGED vars
    BY <2>0, <2>14 DEF vars
  <2> QED
    BY <2>1, <2>2, <2>3, <2>4, <2>5, <2>6, <2>7, <2>8, <2>9, <2>10, <2>11,
       <2>12, <2>13, <2>14 DEF Next
<1> QED
  BY <1>1, <1>2, PTL DEF Spec

(***************************************************************************)
(* Every Commit message the node broadcasts from one cache is for one      *)
(* proposal (conflictWithPrecommitReq).                                    *)
(***************************************************************************)
THEOREM OneProposal == Spec => []OneCommitHash
<1>1. IInv => OneCommitHash
  BY DEF IInv, Locked, OneCommitHash
<1> QED
  BY <1>1, Inductive, PTL

(***************************************************************************)
(* No handler lowers the view (resetNewViewState, isValidNewViewMsg).      *)
(***************************************************************************)
THEOREM ViewsGrow == Spec => ViewNeverFalls
<1>1. IInv /\ [Next]_vars => [view' >= view]_vars
  <2> SUFFICES ASSUME IInv, Next
               PROVE  view' >= view
    OBVIOUS
  <2>0. view \in Nat /\ Views \subseteq Nat
    BY ViewAssumption DEF IInv, Views
  <2>1. ASSUME NEW v \in Views, reHandlePrePrepareProposals(v)
        PROVE  view' >= view
    BY <2>0, <2>1 DEF reHandlePrePrepareProposals
  <2>2. ASSUME NEW v \in Views, checkAndTryToRecover(v)
        PROVE  view' >= view
    BY <2>0, <2>2 DEF checkAndTryToRecover, resetNewViewState
  <2>3. view' = view => view' >= view
    BY <2>0
  <2> QED
    BY <2>1, <2>2, <2>3 DEF Next, handlePrePrepareMsg, onVerifyFinished, onRecvProposal,
       handlePrepareMsg, handleCommitMsg, OtherNumberHandled, onProposalApplySuccess,
       onProposalApplyFailed, LowerApplied, OtherApplyFailed, RetryQueue, finalizeConsensus
<1> QED
  BY <1>1, Inductive, PTL DEF Spec, ViewNeverFalls

-----------------------------------------------------------------------------
(***************************************************************************)
(* The weights.  A list of messages and its running weights, per proposal. *)
(***************************************************************************)
Tally(list, weight) ==
    /\ list \in [Hashes -> [Nodes -> Views \cup {None}]]
    /\ weight \in [Hashes -> Nat]
    /\ \A h \in Hashes : weight[h] = Total(Senders(list, h))

(***************************************************************************)
(* WeightsMatch is needed where a quorum is found (collectEnoughPrepareReq *)
(* and collectEnoughCommitReq read the running weights), and what it gave  *)
(* then stays: the proof until the next precommit, the commits until       *)
(* resetCache takes submitted back with them.                              *)
(***************************************************************************)
Counted(c) ==
    /\ c.prePrepare \in PrePrepares \cup {None} /\ c.precommit \in PrePrepares \cup {None}
    /\ Tally(c.prepares, c.prepareWeight) /\ Tally(c.commits, c.commitWeight)
    /\ c.precommit # None => Total(c.proof) >= minRequiredQuorum
    /\ c.submitted =>
          /\ c.precommit # None
          /\ Total(Senders(c.commits, c.precommit.hash)) >= minRequiredQuorum

(***************************************************************************)
(* The quorum is an integer.                                               *)
(***************************************************************************)
LEMMA QuorumType == minRequiredQuorum \in Int
<1>1. Total(Nodes) \in Int
  BY TotalFacts
<1> QED
  BY <1>1 DEF minRequiredQuorum, maxFaultyQuorum

(***************************************************************************)
(* The senders of cached messages are nodes, and their weight a number.    *)
(***************************************************************************)
LEMMA SendersAreNodes ==
    ASSUME NEW list, NEW h
    PROVE  Senders(list, h) \subseteq Nodes /\ Total(Senders(list, h)) \in Nat
BY TotalFacts DEF Senders

(***************************************************************************)
(* addCache with a new sender keeps the tally, and no weight falls.        *)
(***************************************************************************)
LEMMA TallyAdd ==
    ASSUME NEW list, NEW weight, Tally(list, weight),
           NEW h \in Hashes, NEW n \in Nodes, NEW v \in Views, list[h][n] = None,
           NEW l, l = [list EXCEPT ![h] = [list[h] EXCEPT ![n] = v]],
           NEW w, w = [weight EXCEPT ![h] = weight[h] + Weight[n]]
    PROVE  /\ Tally(l, w)
           /\ \A k \in Hashes : Total(Senders(l, k)) >= Total(Senders(list, k))
<1>1. Weight[n] \in Nat /\ v # None
  BY WeightAssumption, NoneAssumption
<1>2. /\ l \in [Hashes -> [Nodes -> Views \cup {None}]] /\ w \in [Hashes -> Nat]
      /\ \A k \in Hashes \ {h} : l[k] = list[k] /\ w[k] = weight[k]
      /\ l[h] = [list[h] EXCEPT ![n] = v] /\ w[h] = weight[h] + Weight[n]
  BY <1>1 DEF Tally
<1>3. n \notin Senders(list, h) /\ Senders(l, h) = Senders(list, h) \cup {n}
  BY <1>1, <1>2 DEF Tally, Senders
<1>4. Total(Senders(l, h)) = Total(Senders(list, h)) + Weight[n]
  BY <1>3, SendersAreNodes, TotalFacts
<1>5. \A k \in Hashes \ {h} : Senders(l, k) = Senders(list, k)
  BY <1>2 DEF Senders
<1>6. \A k \in Hashes : w[k] = Total(Senders(l, k))
  BY <1>2, <1>4, <1>5 DEF Tally
<1>7. ASSUME NEW k \in Hashes
      PROVE  Total(Senders(l, k)) >= Total(Senders(list, k))
  <2>1. Total(Senders(list, k)) \in Nat
    BY SendersAreNodes
  <2>2. \/ Total(Senders(l, k)) = Total(Senders(list, k))
        \/ Total(Senders(l, k)) = Total(Senders(list, k)) + Weight[n]
    BY <1>4, <1>5
  <2> QED
    BY <1>1, <2>1, <2>2
<1> QED
  BY <1>2, <1>6, <1>7 DEF Tally

(***************************************************************************)
(* addPrepareCache keeps the weights counted.                              *)
(***************************************************************************)
LEMMA AddPrepareCounted ==
    ASSUME NEW c, Locked(c), Counted(c), NEW h \in Hashes, NEW n \in Nodes, NEW v \in Views
    PROVE  Counted(addPrepareCache(c, h, n, v))
<1> DEFINE d == [c EXCEPT !.prepares[h][n] = v, !.prepareWeight[h] = @ + Weight[n]]
<1>1. CASE c.prepares[h][n] # None
  BY <1>1 DEF addPrepareCache
<1>2. CASE c.prepares[h][n] = None
  <2>1. /\ d.prePrepare = c.prePrepare /\ d.precommit = c.precommit /\ d.proof = c.proof
        /\ d.submitted = c.submitted /\ d.commits = c.commits /\ d.commitWeight = c.commitWeight
        /\ d.prepares = [c.prepares EXCEPT ![h] = [c.prepares[h] EXCEPT ![n] = v]]
        /\ d.prepareWeight = [c.prepareWeight EXCEPT ![h] = c.prepareWeight[h] + Weight[n]]
    BY DEF Locked, Fields
  <2>2. addPrepareCache(c, h, n, v) = d
    BY <1>2 DEF addPrepareCache
  <2> HIDE DEF d
  <2>3. Tally(d.prepares, d.prepareWeight)
    BY <1>2, <2>1, TallyAdd DEF Counted
  <2> QED
    BY <2>1, <2>2, <2>3 DEF Counted
<1> QED
  BY <1>1, <1>2

(***************************************************************************)
(* addCommitCache too, and a quorum of commits it finds stays one.         *)
(***************************************************************************)
LEMMA AddCommitCounted ==
    ASSUME NEW c, Locked(c), Counted(c), NEW h \in Hashes, NEW n \in Nodes, NEW v \in Views
    PROVE  Counted(addCommitCache(c, h, n, v))
<1> DEFINE d == [c EXCEPT !.commits[h][n] = v, !.commitWeight[h] = @ + Weight[n]]
<1>1. CASE c.commits[h][n] # None
  BY <1>1 DEF addCommitCache
<1>2. CASE c.commits[h][n] = None
  <2>1. /\ d.prePrepare = c.prePrepare /\ d.precommit = c.precommit /\ d.proof = c.proof
        /\ d.submitted = c.submitted
        /\ d.prepares = c.prepares /\ d.prepareWeight = c.prepareWeight
        /\ d.commits = [c.commits EXCEPT ![h] = [c.commits[h] EXCEPT ![n] = v]]
        /\ d.commitWeight = [c.commitWeight EXCEPT ![h] = c.commitWeight[h] + Weight[n]]
    BY DEF Locked, Fields
  <2>2. addCommitCache(c, h, n, v) = d
    BY <1>2 DEF addCommitCache
  <2> HIDE DEF d
  <2>3. /\ Tally(d.commits, d.commitWeight)
        /\ \A k \in Hashes : Total(Senders(d.commits, k)) >= Total(Senders(c.commits, k))
    BY <1>2, <2>1, TallyAdd DEF Counted
  <2>4. ASSUME d.submitted
        PROVE  /\ d.precommit # None
               /\ Total(Senders(d.commits, d.precommit.hash)) >= minRequiredQuorum
    <3>1. /\ c.precommit # None /\ c.precommit.hash \in Hashes
          /\ Total(Senders(c.commits, c.precommit.hash)) >= minRequiredQuorum
      BY <2>1, <2>4 DEF Counted, PrePrepares
    <3>2. Total(Senders(d.commits, c.precommit.hash)) >= minRequiredQuorum
      BY <2>3, <3>1, QuorumType, SendersAreNodes
    <3> QED
      BY <2>1, <3>1, <3>2
  <2> QED
    BY <2>1, <2>2, <2>3, <2>4 DEF Counted
<1> QED
  BY <1>1, <1>2

(***************************************************************************)
(* checkAndCommit submits only with a quorum of commits for the precommit. *)
(***************************************************************************)
LEMMA CheckAndCommitCounted ==
    ASSUME NEW c, Locked(c), Counted(c)
    PROVE  Counted(checkAndCommit(c))
<1> DEFINE d == [c EXCEPT !.submitted = TRUE, !.submissions = @ + 1]
<1>1. CASE checkAndCommit(c) = c
  BY <1>1
<1>2. CASE checkAndCommit(c) # c
  <2>1. c.precommit # None /\ collectEnoughCommitReq(c) /\ checkAndCommit(c) = d
    BY <1>2 DEF checkAndCommit
  <2>2. /\ c.prePrepare.hash = c.precommit.hash /\ c.precommit.hash \in Hashes
        /\ c.commitWeight[c.precommit.hash] >= minRequiredQuorum
    BY <2>1 DEF Locked, Counted, PrePrepares, collectEnoughCommitReq
  <2>3. Total(Senders(c.commits, c.precommit.hash)) >= minRequiredQuorum
    BY <2>2 DEF Counted, Tally
  <2>4. /\ d.prePrepare = c.prePrepare /\ d.precommit = c.precommit /\ d.proof = c.proof
        /\ d.prepares = c.prepares /\ d.prepareWeight = c.prepareWeight
        /\ d.commits = c.commits /\ d.commitWeight = c.commitWeight
    BY DEF Locked, Fields
  <2> HIDE DEF d
  <2> QED
    BY <2>1, <2>3, <2>4 DEF Counted
<1> QED
  BY <1>1, <1>2

(***************************************************************************)
(* The proof is the senders whose weight was just found to be a quorum; a  *)
(* submitted proposal keeps its commits, the hash being the locked one.    *)
(***************************************************************************)
LEMMA IntoPrecommitCounted ==
    ASSUME NEW c, Locked(c), Counted(c), collectEnoughPrepareReq(c)
    PROVE  Counted(intoPrecommit(c))
<1> DEFINE d == intoPrecommit(c)
<1>1. /\ d.prePrepare = c.prePrepare /\ d.precommit = c.prePrepare
      /\ d.proof = Senders(c.prepares, c.prePrepare.hash)
      /\ d.submitted = c.submitted
      /\ d.prepares = c.prepares /\ d.prepareWeight = c.prepareWeight
      /\ d.commits = c.commits /\ d.commitWeight = c.commitWeight
  BY DEF Locked, Fields, intoPrecommit
<1>2. /\ c.prePrepare # None /\ c.prePrepare.hash \in Hashes
      /\ c.prepareWeight[c.prePrepare.hash] >= minRequiredQuorum
  BY DEF collectEnoughPrepareReq, Counted, PrePrepares
<1>3. Total(d.proof) >= minRequiredQuorum
  BY <1>1, <1>2 DEF Counted, Tally
<1>4. c.submitted => Total(Senders(c.commits, c.prePrepare.hash)) >= minRequiredQuorum
  BY DEF Locked, Counted
<1> HIDE DEF d
<1>5. Counted(d)
  BY <1>1, <1>2, <1>3, <1>4 DEF Counted
<1> QED
  BY <1>5 DEF d

(***************************************************************************)
(* checkAndPreCommit: the precommit, this node's commit, and the submit.   *)
(***************************************************************************)
LEMMA CheckAndPreCommitCounted ==
    ASSUME NEW c, Locked(c), Counted(c), view \in Views
    PROVE  Counted(checkAndPreCommit(c))
<1> DEFINE p == intoPrecommit(c)
           a == addCommitCache(p, c.prePrepare.hash, Self, view)
<1>1. CASE checkAndPreCommit(c) = c
  BY <1>1
<1>2. CASE checkAndPreCommit(c) # c
  <2>1. /\ c.prePrepare # None /\ collectEnoughPrepareReq(c)
        /\ checkAndPreCommit(c) = checkAndCommit(a)
    BY <1>2 DEF checkAndPreCommit, collectEnoughPrepareReq
  <2>2. Locked(p) /\ Counted(p)
    BY <2>1, IntoPrecommitLocks, IntoPrecommitCounted
  <2>3. c.prePrepare.hash \in Hashes /\ Self \in Nodes
    BY <2>1, NodesAssumption DEF Counted, PrePrepares
  <2> HIDE DEF p
  <2>4. Locked(a) /\ Counted(a)
    BY <2>2, <2>3, AddCommitSame, SameLockKeeps, AddCommitCounted
  <2> HIDE DEF a
  <2> QED
    BY <2>1, <2>4, CheckAndCommitCounted
<1> QED
  BY <1>1, <1>2

(***************************************************************************)
(* addPrePrepareCache changes none of the lists.                           *)
(***************************************************************************)
LEMMA PrePrepareCounted ==
    ASSUME NEW c, NEW pp, Locked(c), Counted(c), pp.hash \in Hashes, pp.view \in Views
    PROVE  Counted(addPrePrepareCache(c, pp))
<1> DEFINE m == [hash |-> pp.hash, view |-> pp.view]
           d == [c EXCEPT !.prePrepare = m]
<1>1. addPrePrepareCache(c, pp) = c \/ addPrePrepareCache(c, pp) = d
  BY DEF addPrePrepareCache
<1>2. m \in PrePrepares
  BY DEF PrePrepares
<1> HIDE DEF m
<1>3. /\ d.prePrepare = m /\ d.precommit = c.precommit /\ d.proof = c.proof
      /\ d.submitted = c.submitted
      /\ d.prepares = c.prepares /\ d.prepareWeight = c.prepareWeight
      /\ d.commits = c.commits /\ d.commitWeight = c.commitWeight
  BY DEF Locked, Fields
<1> HIDE DEF d
<1> QED
  BY <1>1, <1>2, <1>3 DEF Counted

(***************************************************************************)
(* A verified pre-prepare, with the Prepare message it sends.              *)
(***************************************************************************)
LEMMA VerifiedCounted ==
    ASSUME NEW pp, view \in Views, Locked(cache), Counted(cache),
           pp.hash \in Hashes, pp.view \in Views,
           checkPrePrepareMsg(view, cache, pp), PrePrepareVerified(pp)
    PROVE  Counted(cache')
<1> DEFINE a == addPrePrepareCache(cache, pp)
           b == addPrepareCache(a, pp.hash, Self, view)
<1>1. Locked(a) /\ Counted(a)
  BY PrePrepareLocked, PrePrepareCounted DEF checkPrePrepareMsg
<1>2. cache' = checkAndPreCommit(b)
  BY DEF PrePrepareVerified, SetCache
<1> HIDE DEF a
<1>3. Locked(b) /\ Counted(b)
  BY <1>1, NodesAssumption, AddPrepareSame, SameLockKeeps, AddPrepareCounted
<1> HIDE DEF b
<1> QED
  BY <1>2, <1>3, CheckAndPreCommitCounted

(***************************************************************************)
(* recalculateQuorum counts what erasing the old messages has left.        *)
(***************************************************************************)
LEMMA TallyKept ==
    ASSUME NEW list, list \in [Hashes -> [Nodes -> Views \cup {None}]], NEW v,
           NEW w, w = [h \in Hashes |-> Total(Senders(Kept(list, v), h))]
    PROVE  Tally(Kept(list, v), w)
<1>1. Kept(list, v) \in [Hashes -> [Nodes -> Views \cup {None}]]
  BY DEF Kept
<1>2. w \in [Hashes -> Nat]
  BY SendersAreNodes
<1> QED
  BY <1>1, <1>2 DEF Tally

(***************************************************************************)
(* resetCache takes submitted back, so it owes no quorum of commits.       *)
(***************************************************************************)
LEMMA ResetCounted ==
    ASSUME NEW c, Locked(c), Counted(c), NEW v
    PROVE  Counted(resetCache(c, v))
<1> DEFINE d == resetCache(c, v)
<1>1. /\ d.prePrepare = c.prePrepare /\ d.precommit = c.precommit /\ d.proof = c.proof
      /\ d.submitted = FALSE
      /\ d.prepares = Kept(c.prepares, v) /\ d.commits = Kept(c.commits, v)
      /\ d.prepareWeight = [h \in Hashes |-> Total(Senders(Kept(c.prepares, v), h))]
      /\ d.commitWeight = [h \in Hashes |-> Total(Senders(Kept(c.commits, v), h))]
  BY DEF Locked, Fields, resetCache
<1> HIDE DEF d
<1>2. Tally(d.prepares, d.prepareWeight) /\ Tally(d.commits, d.commitWeight)
  <2>1. /\ c.prepares \in [Hashes -> [Nodes -> Views \cup {None}]]
        /\ c.commits \in [Hashes -> [Nodes -> Views \cup {None}]]
    BY DEF Counted, Tally
  <2>2. Tally(Kept(c.prepares, v), d.prepareWeight)
    BY <1>1, <2>1, TallyKept
  <2>3. Tally(Kept(c.commits, v), d.commitWeight)
    BY <1>1, <2>1, TallyKept
  <2> QED
    BY <1>1, <2>2, <2>3
<1>3. Counted(d)
  BY <1>1, <1>2 DEF Counted
<1> QED
  BY <1>3 DEF d

(***************************************************************************)
(* A new cache has counted nothing.                                        *)
(***************************************************************************)
LEMMA NewCacheCounted == Counted(NewCache)
<1> DEFINE list == [h \in Hashes |-> [n \in Nodes |-> None]]
           weight == [h \in Hashes |-> 0]
<1>1. ASSUME NEW h \in Hashes PROVE Senders(list, h) = {}
  BY DEF Senders
<1>2. Total({}) = 0
  <2>1. Units({}) = {}
    BY DEF Units
  <2> QED
    BY <2>1, TotalIsUnits, FS_EmptySet
<1>3. Tally(list, weight)
  BY <1>1, <1>2 DEF Tally
<1>4. /\ NewCache.prePrepare = None /\ NewCache.precommit = None /\ NewCache.submitted = FALSE
      /\ NewCache.prepares = list /\ NewCache.prepareWeight = weight
      /\ NewCache.commits = list /\ NewCache.commitWeight = weight
  BY DEF NewCache
<1> HIDE DEF list, weight
<1> QED
  BY <1>3, <1>4 DEF Counted

(***************************************************************************)
(* The weights are counted right after any mix of messages, duplicates,    *)
(* view changes, recoveries and block syncs.                               *)
(***************************************************************************)
LEMMA CountedInductive == Spec => []Counted(cache)
<1>1. Init => Counted(cache)
  BY NewCacheCounted DEF Init
<1>2. IInv /\ Counted(cache) /\ [Next]_vars => Counted(cache)'
  <2> SUFFICES ASSUME IInv, Counted(cache), [Next]_vars
               PROVE  Counted(cache')
    BY DEF Counted, Tally
  <2>0. view \in Views /\ Locked(cache)
    BY DEF IInv
  <2>1. ASSUME NEW pp \in Verified, onVerifyFinished(pp) PROVE Counted(cache')
    <3>1. pp.hash \in Hashes /\ pp.view \in Views
      BY DEF Verified
    <3> QED
      BY <2>0, <2>1, <3>1, VerifiedCounted DEF onVerifyFinished
  <2>2. ASSUME NEW h \in Hashes, onRecvProposal(h) PROVE Counted(cache')
    <3> DEFINE pp == [hash |-> h, view |-> view]
    <3>1. checkPrePrepareMsg(view, cache, pp) /\ PrePrepareVerified(pp)
      BY <2>2 DEF onRecvProposal
    <3>2. pp.hash \in Hashes /\ pp.view \in Views
      BY <2>0
    <3> HIDE DEF pp
    <3> QED
      BY <2>0, <3>1, <3>2, VerifiedCounted
  <2>3. ASSUME NEW m \in Votes, handlePrepareMsg(m) PROVE Counted(cache')
    <3> DEFINE a == addPrepareCache(cache, m.hash, m.from, m.view)
    <3>1. m.hash \in Hashes /\ m.from \in Nodes /\ m.view \in Views
      BY DEF Votes
    <3>2. Locked(a) /\ Counted(a)
      BY <2>0, <3>1, AddPrepareSame, SameLockKeeps, AddPrepareCounted
    <3>3. cache' = checkAndPreCommit(a)
      BY <2>3 DEF handlePrepareMsg, SetCache
    <3> HIDE DEF a
    <3> QED
      BY <2>0, <3>2, <3>3, CheckAndPreCommitCounted
  <2>4. ASSUME NEW m \in Votes, handleCommitMsg(m) PROVE Counted(cache')
    <3> DEFINE a == addCommitCache(cache, m.hash, m.from, m.view)
    <3>1. m.hash \in Hashes /\ m.from \in Nodes /\ m.view \in Views
      BY DEF Votes
    <3>2. Locked(a) /\ Counted(a)
      BY <2>0, <3>1, AddCommitSame, SameLockKeeps, AddCommitCounted
    <3>3. cache' = checkAndCommit(a)
      BY <2>4 DEF handleCommitMsg, SetCache
    <3> HIDE DEF a
    <3> QED
      BY <3>2, <3>3, CheckAndCommitCounted
  <2>5. CASE OtherNumberHandled
    <3>1. cache' = checkAndPreCommit(cache) \/ cache' = checkAndCommit(cache)
      BY <2>5 DEF OtherNumberHandled, SetCache
    <3> QED
      BY <2>0, <3>1, CheckAndPreCommitCounted, CheckAndCommitCounted
  <2>6. ASSUME NEW v \in Views, reHandlePrePrepareProposals(v) \/ checkAndTryToRecover(v)
        PROVE  Counted(cache')
    BY <2>0, <2>6, ResetCounted DEF reHandlePrePrepareProposals, checkAndTryToRecover
  <2>7. ASSUME NEW h \in Hashes, onProposalApplySuccess(h) PROVE Counted(cache')
    <3> DEFINE d == [cache EXCEPT !.checkpoint = TRUE]
    <3>1. /\ d.prePrepare = cache.prePrepare /\ d.precommit = cache.precommit
          /\ d.proof = cache.proof /\ d.submitted = cache.submitted
          /\ d.prepares = cache.prepares /\ d.prepareWeight = cache.prepareWeight
          /\ d.commits = cache.commits /\ d.commitWeight = cache.commitWeight
      BY <2>0 DEF Locked, Fields
    <3>2. cache' = d
      BY <2>7 DEF onProposalApplySuccess
    <3> HIDE DEF d
    <3> QED
      BY <3>1, <3>2 DEF Counted
  <2>8. ASSUME NEW n, NEW synced, finalizeConsensus(n, synced) PROVE Counted(cache')
    <3> DEFINE d == [cache EXCEPT !.submissions = 0]
    <3>1. /\ d.prePrepare = cache.prePrepare /\ d.precommit = cache.precommit
          /\ d.proof = cache.proof /\ d.submitted = cache.submitted
          /\ d.prepares = cache.prepares /\ d.prepareWeight = cache.prepareWeight
          /\ d.commits = cache.commits /\ d.commitWeight = cache.commitWeight
      BY <2>0 DEF Locked, Fields
    <3>2. cache' \in {cache, NewCache, d}
      BY <2>8 DEF finalizeConsensus
    <3> HIDE DEF d
    <3>3. Counted(d)
      BY <3>1 DEF Counted
    <3> QED
      BY <3>2, <3>3, NewCacheCounted
  <2>9. CASE cache' = cache
    BY <2>9
  <2> QED
    BY <2>1, <2>2, <2>3, <2>4, <2>5, <2>6, <2>7, <2>8, <2>9
       DEF Next, vars, handlePrePrepareMsg, onProposalApplyFailed, LowerApplied,
           OtherApplyFailed, RetryQueue
<1> QED
  BY <1>1, <1>2, Inductive, PTL DEF Spec

(***************************************************************************)
(* The running weights are the weights of the cached messages (addCache,   *)
(* recalculateQuorum).                                                     *)
(***************************************************************************)
THEOREM WeightsAreCounted == Spec => []WeightsMatch
<1>1. Counted(cache) => WeightsMatch
  BY DEF Counted, Tally, WeightsMatch
<1> QED
  BY <1>1, CountedInductive, PTL

(***************************************************************************)
(* The proof sent with a precommit weighs a quorum in every view it is     *)
(* sent in (intoPrecommit, checkPrecommitWeight).                          *)
(***************************************************************************)
THEOREM PrecommitsHaveProof == Spec => []PrecommitCertified
<1>1. Counted(cache) => PrecommitCertified
  BY DEF Counted, PrecommitCertified
<1> QED
  BY <1>1, CountedInductive, PTL

(***************************************************************************)
(* A submitted proposal has a quorum of Commit messages for its own hash   *)
(* in the cache (checkAndCommit, resetCache).                              *)
(***************************************************************************)
THEOREM SubmissionsHaveQuorum == Spec => []SubmittedCertified
<1>1. Counted(cache) => SubmittedCertified
  BY DEF Counted, SubmittedCertified
<1> QED
  BY <1>1, CountedInductive, PTL

-----------------------------------------------------------------------------
(***************************************************************************)
(* Every mark but those in X belongs to an execution in flight.  A handler *)
(* of an answer breaks this for its own proposal until it erases the mark. *)
(***************************************************************************)
QueueFields == {"committed", "queued", "executing", "running", "expected"}

Marked(q, X) ==
    /\ DOMAIN q = QueueFields
    /\ q.running \in [Hashes -> Nat] /\ q.executing \subseteq Hashes
    /\ \A h \in q.executing \ X : q.running[h] > 0

SameMarks(q, r) ==
    DOMAIN r = DOMAIN q /\ r.running = q.running /\ r.executing = q.executing

LEMMA SameMarksKeep ==
    ASSUME NEW q, NEW r, NEW X, Marked(q, X), SameMarks(q, r)
    PROVE  Marked(r, X)
BY DEF Marked, SameMarks

LEMMA ApplyKeepsMarks ==
    ASSUME NEW q, NEW X, Marked(q, X), NEW r \in tryToApplyCommitQueue(q)
    PROVE  Marked(r, X)
<1> DEFINE Started(h) == [q EXCEPT !.queued[h] = @ - 1, !.running[h] = @ + 1,
                                   !.executing = @ \cup {h}]
           Emptied == [q EXCEPT !.queued = [h \in Hashes |-> 0]]
<1>1. r = q \/ r = Emptied \/ \E h \in Hashes : r = Started(h)
  BY DEF tryToApplyCommitQueue
<1>2. SameMarks(q, Emptied)
  BY DEF SameMarks
<1>3. ASSUME NEW h \in Hashes PROVE Marked(Started(h), X)
  <2>1. /\ DOMAIN Started(h) = QueueFields
        /\ Started(h).running = [q.running EXCEPT ![h] = q.running[h] + 1]
        /\ Started(h).executing = q.executing \cup {h}
    BY DEF Marked, QueueFields
  <2> HIDE DEF Started
  <2> QED  BY <2>1 DEF Marked
<1> HIDE DEF Started, Emptied
<1> QED  BY <1>1, <1>2, <1>3, SameMarksKeep

LEMMA UpdateKeepsMarks ==
    ASSUME NEW q, NEW X, NEW h, Marked(q, X), NEW r \in updateCommitQueue(q, h)
    PROVE  Marked(r, X)
<1> DEFINE p == [q EXCEPT !.queued[h] = @ + 1, !.committed = TRUE]
<1>1. SameMarks(q, p)
  BY DEF SameMarks
<1>2. r = q \/ r \in tryToApplyCommitQueue(p)
  BY DEF updateCommitQueue
<1> HIDE DEF p
<1> QED  BY <1>1, <1>2, SameMarksKeep, ApplyKeepsMarks

LEMMA ErasedMarks ==
    ASSUME NEW q, NEW h, Marked(q, {h})
    PROVE  Marked(Erased(q, h), {})
<1>1. /\ DOMAIN Erased(q, h) = QueueFields /\ Erased(q, h).running = q.running
      /\ Erased(q, h).executing = q.executing \ {h}
  BY DEF Marked, Erased, QueueFields
<1> QED  BY <1>1 DEF Marked

LEMMA WeakerMarks ==
    ASSUME NEW q, NEW X, Marked(q, {})
    PROVE  Marked(q, X)
BY DEF Marked

LEMMA AnsweredMarks ==
    ASSUME NEW q, NEW h \in Hashes, Marked(q, {}), q.running[h] > 0
    PROVE  Marked([q EXCEPT !.running[h] = @ - 1], {h})
<1> DEFINE r == [q EXCEPT !.running[h] = @ - 1]
<1>1. /\ DOMAIN r = QueueFields /\ r.executing = q.executing
      /\ r.running = [q.running EXCEPT ![h] = q.running[h] - 1]
  BY DEF Marked, QueueFields
<1> HIDE DEF r
<1>2. Marked(r, {h})
  BY <1>1 DEF Marked
<1> QED  BY <1>2 DEF r

LEMMA ExpectedSame ==
    ASSUME NEW q, NEW e
    PROVE  SameMarks(q, [q EXCEPT !.expected = e])
BY DEF SameMarks

LEMMA SetCacheKeepsMarks ==
    ASSUME NEW c, Marked(queue, {}), SetCache(c)
    PROVE  Marked(queue', {})
BY UpdateKeepsMarks DEF SetCache

(***************************************************************************)
(* A proposal stays marked as executing only while the state machine runs  *)
(* it, for any number of proposals, failures, retries and block syncs.     *)
(***************************************************************************)
THEOREM MarksAreErased == Spec => []ExecutingIsRunning
<1>1. Init => Marked(queue, {})
  BY DEF Init, NewQueue, Marked, QueueFields
<1>2. Marked(queue, {}) /\ [Next]_vars => Marked(queue, {})'
  <2> SUFFICES ASSUME Marked(queue, {}), [Next]_vars
               PROVE  Marked(queue', {})
    BY DEF Marked
  <2>0. CASE queue' = queue
    BY <2>0
  <2>1. ASSUME NEW pp \in Verified, onVerifyFinished(pp) PROVE Marked(queue', {})
    BY <2>1, SetCacheKeepsMarks DEF onVerifyFinished, PrePrepareVerified
  <2>2. ASSUME NEW h \in Hashes, onRecvProposal(h) PROVE Marked(queue', {})
    BY <2>2, SetCacheKeepsMarks DEF onRecvProposal, PrePrepareVerified
  <2>3. ASSUME NEW m \in Votes, handlePrepareMsg(m) \/ handleCommitMsg(m)
        PROVE  Marked(queue', {})
    BY <2>3, SetCacheKeepsMarks DEF handlePrepareMsg, handleCommitMsg
  <2>4. CASE OtherNumberHandled
    BY <2>4, SetCacheKeepsMarks DEF OtherNumberHandled
  <2>5. ASSUME NEW h \in Hashes, onProposalApplySuccess(h) PROVE Marked(queue', {})
    <3> DEFINE a == [queue EXCEPT !.running[h] = @ - 1]
               b == [queue EXCEPT !.running[h] = @ - 1, !.expected = Number + 1]
    <3>1. Marked(a, {h})
      BY <2>5, AnsweredMarks DEF onProposalApplySuccess
    <3>2. SameMarks(a, b)
      BY ExpectedSame
    <3>3. Marked(b, {h})
      BY <3>1, <3>2, SameMarksKeep
    <3>4. PICK q \in tryToApplyCommitQueue(b) : queue' = Erased(q, h)
      BY <2>5 DEF onProposalApplySuccess
    <3> HIDE DEF b
    <3> QED  BY <3>3, <3>4, ApplyKeepsMarks, ErasedMarks
  <2>6. ASSUME NEW h \in Hashes, onProposalApplyFailed(h) PROVE Marked(queue', {})
    <3> DEFINE a == [queue EXCEPT !.running[h] = @ - 1]
    <3>1. Marked(a, {h})
      BY <2>6, AnsweredMarks DEF onProposalApplyFailed
    <3>2. Marked(Erased(a, h), {})
      BY <3>1, ErasedMarks
    <3>3. PICK q \in updateCommitQueue(Erased(a, h), h) :
              queue' = Erased([q EXCEPT !.expected = nextCommit], h)
      BY <2>6 DEF onProposalApplyFailed
    <3> HIDE DEF a
    <3>4. Marked([q EXCEPT !.expected = nextCommit], {h})
      BY <3>2, <3>3, UpdateKeepsMarks, ExpectedSame, SameMarksKeep, WeakerMarks
    <3> QED  BY <3>3, <3>4, ErasedMarks
  <2>7. ASSUME NEW e, LowerApplied(e) PROVE Marked(queue', {})
    BY <2>7, ExpectedSame, SameMarksKeep, ApplyKeepsMarks DEF LowerApplied
  <2>8. CASE OtherApplyFailed
    BY <2>8, ExpectedSame, SameMarksKeep DEF OtherApplyFailed
  <2>9. CASE RetryQueue
    BY <2>9, ApplyKeepsMarks DEF RetryQueue
  <2>10. ASSUME NEW n, NEW synced, finalizeConsensus(n, synced) PROVE Marked(queue', {})
    <3>1. Marked(setCommittedProposal(queue, n), {})
      BY ExpectedSame, SameMarksKeep DEF setCommittedProposal
    <3>2. PICK q \in tryToApplyCommitQueue(setCommittedProposal(queue, n)) :
              queue' = IF synced THEN removeFutureProposals(q, n) ELSE q
      BY <2>10 DEF finalizeConsensus
    <3>3. Marked(q, {})
      BY <3>1, <3>2, ApplyKeepsMarks
    <3>4. SameMarks(q, removeFutureProposals(q, n))
      BY DEF SameMarks, removeFutureProposals
    <3> QED  BY <3>2, <3>3, <3>4, SameMarksKeep
  <2> QED
    BY <2>0, <2>1, <2>2, <2>3, <2>4, <2>5, <2>6, <2>7, <2>8, <2>9, <2>10
       DEF Next, vars, handlePrePrepareMsg, reHandlePrePrepareProposals, checkAndTryToRecover
<1>3. Marked(queue, {}) => ExecutingIsRunning
  BY DEF Marked, ExecutingIsRunning
<1> QED
  BY <1>1, <1>2, <1>3, PTL DEF Spec
=============================================================================
