------------------------------ MODULE PBFTCache ------------------------------
(***************************************************************************)
(* What one FISCO-BCOS node remembers about one block number: the PBFTCache*)
(* object, and the handlers of PBFTEngine that read and change it.  Peers, *)
(* the leader included, may send anything; a message is only known to be   *)
(* signed by the node it names.                                            *)
(*                                                                         *)
(* Lower block numbers appear through what they move: the ledger height    *)
(* and the check point expected next.  Higher ones, the proposals log sync *)
(* loads, and what happens once the number is in the ledger are left out.  *)
(*                                                                         *)
(* The hooks LOKI adds to these handlers are the subject of FuzzEngine and *)
(* are left out: this is the engine of the nodes LOKI talks to.            *)
(***************************************************************************)
EXTENDS Naturals, FiniteSets, FiniteSetsExt

CONSTANTS
    N,            \* m_consensusNodeNum
    Self,         \* nodeIndex
    Turn,         \* the number / m_leaderSwitchPeriod
    Weight,       \* [Nodes -> weight]
    Hashes,       \* proposals for the block number
    MaxView,      \* bound: the highest view
    MaxResets,    \* bound: recoveries, and new views that repeat a view
    None

Nodes == 0..N - 1
Views == 0..MaxView

Total(S) == MapThenSumSet(LAMBDA n : Weight[n], S)

ASSUME NodesAssumption == N \in Nat /\ Self \in Nodes /\ Turn \in Nat
ASSUME WeightAssumption == Weight \in [Nodes -> Nat]
ASSUME NoneAssumption == None \notin Views \cup [hash : Hashes, view : Views]
ASSUME ViewAssumption == MaxView \in Nat /\ MaxResets \in Nat

(***************************************************************************)
(* updateQuorum                                                            *)
(***************************************************************************)
maxFaultyQuorum == (Total(Nodes) - 1) \div 3

minRequiredQuorum == Total(Nodes) - maxFaultyQuorum

leaderIndex(v) == (Turn + v) % N

(***************************************************************************)
(* This block number, as nextCommit (committedProposal + 1) and            *)
(* expectedCheckPoint are told apart from it: 0 is any lower number, 2 any *)
(* higher one.                                                             *)
(***************************************************************************)
Number == 1

VARIABLES
    view,        \* PBFTConfig::view
    cache,       \* the PBFTCache of the block number
    verifying,   \* pre-prepares at the validator (verifyProposal)
    queue,       \* the commit queue, as far as it holds this number
    nextCommit,
    resets

vars == <<view, cache, verifying, queue, nextCommit, resets>>

PrePrepares == [hash : Hashes, view : Views]
Verified == [hash : Hashes, view : Views, from : Nodes \cup {None}]
Votes == [hash : Hashes, from : Nodes \ {Self}, view : Views]

(***************************************************************************)
(* votes and submissions are history: the Commit messages this object had  *)
(* broadcast, and how often it was handed to updateCommitQueue.            *)
(***************************************************************************)
NewCache ==
    [prePrepare |-> None, precommit |-> None, proof |-> {},
     precommitted |-> FALSE, submitted |-> FALSE, checkpoint |-> FALSE,
     prepares |-> [h \in Hashes |-> [n \in Nodes |-> None]],
     commits |-> [h \in Hashes |-> [n \in Nodes |-> None]],
     prepareWeight |-> [h \in Hashes |-> 0],
     commitWeight |-> [h \in Hashes |-> 0],
     votes |-> {}, submissions |-> 0]

(***************************************************************************)
(* committed: the number is in m_committedProposalList; queued: entries of *)
(* m_committedQueue; executing: keys of m_executingProposals; running: the *)
(* executions the state machine has not answered yet.                      *)
(***************************************************************************)
NewQueue ==
    [committed |-> FALSE, queued |-> [h \in Hashes |-> 0], executing |-> {},
     running |-> [h \in Hashes |-> 0], expected |-> 0]

Init ==
    /\ view = 0
    /\ cache = NewCache
    /\ verifying = {}
    /\ queue = NewQueue
    /\ nextCommit = 0
    /\ resets = 0

Senders(list, h) == {n \in Nodes : list[h][n] # None}

(***************************************************************************)
(* addCache: one message per hash and sender, the first one; the view is   *)
(* not part of the key.                                                    *)
(***************************************************************************)
addPrepareCache(c, h, n, v) ==
    IF c.prepares[h][n] # None THEN c
    ELSE [c EXCEPT !.prepares[h][n] = v, !.prepareWeight[h] = @ + Weight[n]]

addCommitCache(c, h, n, v) ==
    IF c.commits[h][n] # None THEN c
    ELSE [c EXCEPT !.commits[h][n] = v, !.commitWeight[h] = @ + Weight[n]]

(***************************************************************************)
(* The checks a message has to pass.  S is the view and c the cache at the *)
(* time of the call.                                                       *)
(***************************************************************************)
checkPBFTMsgState(S, m) ==
    queue.expected <= Number /\ ~queue.committed /\ m.view >= S

existPrePrepare(c, m) ==
    c.prePrepare # None /\ m.hash = c.prePrepare.hash /\ c.prePrepare.view >= m.view

conflictWithProcessedReq(S, c, m) ==
    \/ c.submitted
    \/ m.view < S
    \/ /\ c.prePrepare # None
       /\ \/ m.view < c.prePrepare.view
          \/ m.view = c.prePrepare.view /\ m.hash # c.prePrepare.hash

conflictWithPrecommitReq_never(c, m) == FALSE

conflictWithPrecommitReq(c, m) ==
    c.precommit # None /\ m.hash # c.precommit.hash

checkPrePrepareMsg(S, c, m) ==
    /\ m.hash \notin queue.executing
    /\ checkPBFTMsgState(S, m)
    /\ ~existPrePrepare(c, m)
    /\ ~conflictWithProcessedReq(S, c, m)
    /\ ~conflictWithPrecommitReq(c, m)

checkPBFTMsg(m) ==
    /\ checkPBFTMsgState(view, m)
    /\ existPrePrepare(cache, m) => ~conflictWithProcessedReq(view, cache, m)

(***************************************************************************)
(* checkAndCommit hands the proposal over; checkAndPreCommit locks it with *)
(* the prepare signatures as proof, votes Commit and tries to commit.      *)
(***************************************************************************)
collectEnoughCommitReq(c) ==
    /\ c.prePrepare # None /\ c.prePrepare.view = view
    /\ c.commitWeight[c.prePrepare.hash] >= minRequiredQuorum

checkAndCommit(c) ==
    IF /\ ~c.submitted
       /\ c.precommit # None /\ c.precommit.view = view
       /\ collectEnoughCommitReq(c)
    THEN [c EXCEPT !.submitted = TRUE, !.submissions = @ + 1] ELSE c

collectEnoughPrepareReq_faulty(c) ==
    /\ c.prePrepare # None /\ c.prePrepare.view = view
    /\ c.prepareWeight[c.prePrepare.hash] > maxFaultyQuorum

collectEnoughPrepareReq(c) ==
    /\ c.prePrepare # None /\ c.prePrepare.view = view
    /\ c.prepareWeight[c.prePrepare.hash] >= minRequiredQuorum

intoPrecommit(c) ==
    [c EXCEPT !.precommit = c.prePrepare,
              !.proof = Senders(c.prepares, c.prePrepare.hash),
              !.votes = @ \cup {[hash |-> c.prePrepare.hash, view |-> view]},
              !.precommitted = TRUE]

checkAndPreCommit(c) ==
    IF /\ ~c.precommitted
       /\ collectEnoughPrepareReq(c)
       /\ c.precommit # None => c.precommit.view < c.prePrepare.view
    THEN checkAndCommit(addCommitCache(intoPrecommit(c), c.prePrepare.hash, Self, view))
    ELSE c

(***************************************************************************)
(* The commit queue.  An entry for a number below the expected check point *)
(* is dropped; one for the expected number is handed to the state machine  *)
(* unless its hash is marked as executing.  The results are sets: which of *)
(* two entries for one number is on top is up to the heap.                 *)
(***************************************************************************)
tryToApplyCommitQueue(q) ==
    LET tops == {h \in Hashes : q.queued[h] > 0} IN
    CASE q.expected > Number -> {[q EXCEPT !.queued = [h \in Hashes |-> 0]]}
      [] q.expected = Number /\ tops # {} ->
            {IF h \in q.executing THEN q
             ELSE [q EXCEPT !.queued[h] = @ - 1, !.running[h] = @ + 1,
                            !.executing = @ \cup {h}] : h \in tops}
      [] OTHER -> {q}

updateCommitQueue(q, h) ==
    IF h \in q.executing THEN {q}
    ELSE tryToApplyCommitQueue([q EXCEPT !.queued[h] = @ + 1, !.committed = TRUE])

(***************************************************************************)
(* What PBFTCacheProcessor does with the cache after a check: the proposal *)
(* goes to the commit queue when checkAndCommit returned true.             *)
(***************************************************************************)
SetCache(c) ==
    /\ cache' = c
    /\ queue' \in IF c.submissions > cache.submissions
                  THEN updateCommitQueue(queue, c.precommit.hash) ELSE {queue}

(***************************************************************************)
(* handlePrePrepareMsg: the checks, then the validator.  When the proposal *)
(* is verified the checks run again, in the view of that time; then the    *)
(* message is cached, the node votes Prepare in its own view and tries to  *)
(* precommit.  from is None for a pre-prepare of a NewView message, which  *)
(* need not be from the leader.                                            *)
(***************************************************************************)
FromLeader(pp) == pp.from \in {None, leaderIndex(view)}

handlePrePrepareMsg(pp) ==
    /\ pp.from \notin {None, Self}
    /\ checkPrePrepareMsg(view, cache, pp)
    /\ FromLeader(pp)
    /\ verifying' = verifying \cup {pp}
    /\ UNCHANGED <<view, cache, queue, nextCommit, resets>>

addPrePrepareCache(c, pp) ==
    IF c.checkpoint /\ c.prePrepare # None /\ pp.hash # c.prePrepare.hash THEN c
    ELSE [c EXCEPT !.prePrepare = [hash |-> pp.hash, view |-> pp.view]]

PrePrepareVerified(pp) ==
    SetCache(checkAndPreCommit(addPrepareCache(addPrePrepareCache(cache, pp),
                                               pp.hash, Self, view)))

onVerifyFinished(pp) ==
    /\ pp \in verifying
    /\ verifying' = verifying \ {pp}
    /\ \/ checkPrePrepareMsg(view, cache, pp) /\ FromLeader(pp) /\ PrePrepareVerified(pp)
       \/ UNCHANGED <<cache, queue>>     \* refused, or the verification failed
    /\ UNCHANGED <<view, nextCommit, resets>>

(***************************************************************************)
(* The node is the leader: its own proposal is not verified again.         *)
(***************************************************************************)
onRecvProposal(h) ==
    LET pp == [hash |-> h, view |-> view] IN
    /\ leaderIndex(view) = Self
    /\ checkPrePrepareMsg(view, cache, pp)
    /\ PrePrepareVerified(pp)
    /\ UNCHANGED <<view, verifying, nextCommit, resets>>

handlePrepareMsg(m) ==
    /\ checkPBFTMsg(m)
    /\ SetCache(checkAndPreCommit(addPrepareCache(cache, m.hash, m.from, m.view)))
    /\ UNCHANGED <<view, verifying, nextCommit, resets>>

handleCommitMsg(m) ==
    /\ checkPBFTMsg(m)
    /\ SetCache(checkAndCommit(addCommitCache(cache, m.hash, m.from, m.view)))
    /\ UNCHANGED <<view, verifying, nextCommit, resets>>

(***************************************************************************)
(* PBFTCacheProcessor tries every cache whenever a message for any block   *)
(* number arrives.                                                         *)
(***************************************************************************)
OtherNumberHandled ==
    /\ SetCache(checkAndPreCommit(cache)) \/ SetCache(checkAndCommit(cache))
    /\ UNCHANGED <<view, verifying, nextCommit, resets>>

(***************************************************************************)
(* resetCache: the flags fall, messages of lower views go, the weights are *)
(* counted again; the pre-prepare and the precommit stay.                  *)
(***************************************************************************)
Kept(list, v) ==
    [h \in Hashes |-> [n \in Nodes |->
        IF list[h][n] # None /\ list[h][n] < v THEN None ELSE list[h][n]]]

resetCache_weightsKept(c, v) ==
    [c EXCEPT !.submitted = FALSE, !.precommitted = FALSE,
              !.prepares = Kept(@, v), !.commits = Kept(@, v)]

resetCache_submittedKept(c, v) ==
    LET prepares == Kept(c.prepares, v)
        commits == Kept(c.commits, v)
    IN [c EXCEPT !.precommitted = FALSE,
                 !.prepares = prepares, !.commits = commits,
                 !.prepareWeight = [h \in Hashes |-> Total(Senders(prepares, h))],
                 !.commitWeight = [h \in Hashes |-> Total(Senders(commits, h))]]

resetCache(c, v) ==
    LET prepares == Kept(c.prepares, v)
        commits == Kept(c.commits, v)
    IN [c EXCEPT !.submitted = FALSE, !.precommitted = FALSE,
                 !.prepares = prepares, !.commits = commits,
                 !.prepareWeight = [h \in Hashes |-> Total(Senders(prepares, h))],
                 !.commitWeight = [h \in Hashes |-> Total(Senders(commits, h))]]

(***************************************************************************)
(* reHandlePrePrepareProposals: enter the view of a NewView message and    *)
(* handle the pre-prepare it may hold for this number.  A NewView message  *)
(* must be for a higher view; the leader also enters its current view      *)
(* again when a quorum of late ViewChange messages for it arrives.         *)
(***************************************************************************)
reHandlePrePrepareProposals(v) ==
    /\ v # 0
    /\ v > view \/ (v = view /\ leaderIndex(v) = Self /\ resets < MaxResets)
    /\ resets' = IF v = view THEN resets + 1 ELSE resets
    /\ view' = v
    /\ cache' = resetCache(cache, v)
    /\ \/ verifying' = verifying
       \/ \E pp \in {x \in Verified : x.from = None} :
             /\ checkPrePrepareMsg(v, cache', pp)
             /\ verifying' = verifying \cup {pp}
    /\ UNCHANGED <<queue, nextCommit>>

(***************************************************************************)
(* checkAndTryToRecover: a quorum of recover responses with one view.      *)
(* resetNewViewState ignores a lower view, the caches are reset anyway.    *)
(***************************************************************************)
resetNewViewState_any(v) == v
resetNewViewState(v) == IF view > v THEN view ELSE v

checkAndTryToRecover(v) ==
    /\ resets < MaxResets
    /\ v # 0
    /\ resets' = resets + 1
    /\ view' = resetNewViewState(v)
    /\ cache' = resetCache(cache, v)
    /\ UNCHANGED <<verifying, queue, nextCommit>>

(***************************************************************************)
(* The state machine answers.  On success the cache gets its check point   *)
(* and the number is progressed; on failure the proposal is pushed again,  *)
(* which may start it again, and the mark is erased after that.            *)
(***************************************************************************)
Erased_not(q, h) == q

Erased(q, h) == [q EXCEPT !.executing = @ \ {h}]

onProposalApplySuccess(h) ==
    /\ queue.running[h] > 0
    /\ cache' = [cache EXCEPT !.checkpoint = TRUE]
    /\ \E q \in tryToApplyCommitQueue([queue EXCEPT !.running[h] = @ - 1,
                                                   !.expected = Number + 1]) :
          queue' = Erased(q, h)
    /\ UNCHANGED <<view, verifying, nextCommit, resets>>

onProposalApplyFailed(h) ==
    /\ queue.running[h] > 0
    /\ \E q \in updateCommitQueue(Erased([queue EXCEPT !.running[h] = @ - 1], h), h) :
          queue' = Erased([q EXCEPT !.expected = nextCommit], h)
    /\ UNCHANGED <<view, cache, verifying, nextCommit, resets>>

(***************************************************************************)
(* The same for another number: a lower one succeeds and moves the         *)
(* expected check point, to it or back to it; any other one fails.  And    *)
(* the queue is tried again on a timeout or a CheckPoint message.          *)
(***************************************************************************)
LowerApplied(e) ==
    /\ nextCommit = 0
    /\ queue' \in tryToApplyCommitQueue([queue EXCEPT !.expected = e])
    /\ UNCHANGED <<view, cache, verifying, nextCommit, resets>>

OtherApplyFailed ==
    /\ queue' = [queue EXCEPT !.expected = nextCommit]
    /\ UNCHANGED <<view, cache, verifying, nextCommit, resets>>

RetryQueue ==
    /\ queue' \in tryToApplyCommitQueue(queue)
    /\ UNCHANGED <<view, cache, verifying, nextCommit, resets>>

(***************************************************************************)
(* finalizeConsensus: a lower block is in the ledger.  When block sync put *)
(* it there, the queue and the committed list are emptied, and a cache     *)
(* with a check point is dropped, its lock included (removeFutureProposals)*)
(***************************************************************************)
setCommittedProposal(q, n) == IF n > q.expected THEN [q EXCEPT !.expected = n] ELSE q

removeFutureProposals(q, n) ==
    [q EXCEPT !.expected = n, !.queued = [h \in Hashes |-> 0], !.committed = FALSE]

finalizeConsensus(n, synced) ==
    /\ nextCommit = 0
    /\ nextCommit' = n
    /\ \E q \in tryToApplyCommitQueue(setCommittedProposal(queue, n)) :
          queue' = IF synced THEN removeFutureProposals(q, n) ELSE q
    /\ cache' = CASE ~synced -> cache
                  [] synced /\ cache.checkpoint -> NewCache
                  [] OTHER -> [cache EXCEPT !.submissions = 0]
    /\ UNCHANGED <<view, verifying, resets>>

Next ==
    \/ \E pp \in Verified : handlePrePrepareMsg(pp) \/ onVerifyFinished(pp)
    \/ \E h \in Hashes : onRecvProposal(h)
    \/ \E m \in Votes : handlePrepareMsg(m) \/ handleCommitMsg(m)
    \/ OtherNumberHandled
    \/ \E v \in Views : reHandlePrePrepareProposals(v) \/ checkAndTryToRecover(v)
    \/ \E h \in Hashes : onProposalApplySuccess(h) \/ onProposalApplyFailed(h)
    \/ \E e \in {0, Number} : LowerApplied(e)
    \/ OtherApplyFailed
    \/ RetryQueue
    \/ \E n \in {0, Number}, synced \in BOOLEAN : finalizeConsensus(n, synced)

Spec == Init /\ [][Next]_vars
-----------------------------------------------------------------------------
(***************************************************************************)
(* Over all views, new views, recoveries and late verifications, every     *)
(* Commit message the node broadcasts for the number while it keeps this   *)
(* cache is for one proposal: conflictWithPrecommitReq makes the precommit *)
(* a lock that view changes do not release.                                *)
(***************************************************************************)
OneCommitHash == \A x, y \in cache.votes : x.hash = y.hash

(***************************************************************************)
(* The proof a view change sends with the precommit convinces              *)
(* checkPrecommitWeight: its signers weigh a quorum, whatever was erased   *)
(* from the caches since.                                                  *)
(***************************************************************************)
PrecommitCertified ==
    cache.precommit # None => Total(cache.proof) >= minRequiredQuorum

(***************************************************************************)
(* The running weights are the weights of the cached messages, after any   *)
(* mix of additions, duplicates and resets (addCache, recalculateQuorum).  *)
(***************************************************************************)
WeightsMatch ==
    \A h \in Hashes :
        /\ cache.prepareWeight[h] = Total(Senders(cache.prepares, h))
        /\ cache.commitWeight[h] = Total(Senders(cache.commits, h))

(***************************************************************************)
(* A proposal handed to the commit queue has a quorum of Commit messages   *)
(* for its own hash in the cache.                                          *)
(***************************************************************************)
SubmittedCertified ==
    cache.submitted =>
        /\ cache.precommit # None
        /\ Total(Senders(cache.commits, cache.precommit.hash)) >= minRequiredQuorum

(***************************************************************************)
(* A hash stays marked as executing only while the state machine runs it:  *)
(* a mark left behind would make handlePrePrepareMsg and updateCommitQueue *)
(* refuse the proposal for good (eraseExecutedProposal on every answer).   *)
(***************************************************************************)
ExecutingIsRunning == \A h \in queue.executing : queue.running[h] > 0

(***************************************************************************)
(* No handler moves the node to a lower view, stale recover responses      *)
(* included (resetNewViewState).                                           *)
(***************************************************************************)
ViewNeverFalls == [][view' >= view]_vars

(***************************************************************************)
(* m_executingProposals: "in case of the same block execute more than      *)
(* once": the state machine never runs one proposal twice at a time.       *)
(***************************************************************************)
ExecutedOnce == \A h \in Hashes : queue.running[h] <= 1
=============================================================================
