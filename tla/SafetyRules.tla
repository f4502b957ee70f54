---------------------------- MODULE SafetyRules ----------------------------
(***************************************************************************)
(* The safety rules of one Diem validator and the storage they rest on     *)
(* (safety_rules.rs, safety_rules_2chain.rs, persistent_safety_storage.rs).*)
(*                                                                         *)
(* A SafetyRules object answers one call at a time (its clients share it   *)
(* behind a lock), so one call is one action.  What is not atomic is the   *)
(* storage under it: a write may fail without effect, or take effect and   *)
(* still be reported as an error, and the process may stop between any two *)
(* writes.  `store' and `waypoint' survive a restart, all else does not.   *)
(*                                                                         *)
(* Signatures and hashes are abstracted: a block is its epoch, round, id   *)
(* and the rounds its quorum certificate (QC) names, qc1 of the certified  *)
(* block and qc0 of that block's parent.  A call whose certificate,        *)
(* signature or timestamp does not verify returns an error; ReadOnlyCall   *)
(* stands for it.                                                          *)
(***************************************************************************)
EXTENDS VotingRules

CONSTANTS
    MaxEpoch,      \* bound on the epochs that are explored
    Ids,           \* block ids
    Blocks,        \* blocks the validator may be asked to vote for
    Proposals,     \* blocks it may be asked to sign as a proposer
    PlainTimeouts, \* rounds of the timeouts it may be asked to sign (three-chain)
    QcTimeouts,    \* the same for timeouts with a certificate [round, hqc] (two-chain)
    TimeoutCerts,  \* two-chain timeout certificates [round, hqc], NoTC for none
    StoreFaults,   \* how a write may go wrong: subset of {"lost", "applied"}
    CacheEnabled,  \* config.enable_cached_safety_data
    TestConfig     \* config.test is set: every start runs initialize()

Epochs == 1 .. MaxEpoch
Rounds == 0 .. MaxRound

Block == [epoch : Epochs, round : Rounds, id : Ids, qc1 : Rounds, qc0 : Rounds]
TimeoutCert == [round : Rounds, hqc : Rounds]

\* Option<TwoChainTimeoutCertificate> = None: both accessors give map_or(0, ..).
NoTC == [round |-> 0, hqc |-> 0]

Vote == [epoch : Epochs, round : Rounds, id : Ids, qc1 : Rounds, qc0 : Rounds,
         rule : {"3chain", "2chain"}, commit : Rounds \cup {NoCommit}]

\* hqc is NoHqc for a plain (three-chain) timeout, which names no certificate.
NoHqc == -1
Timeout == [epoch : Epochs, round : Rounds, hqc : Rounds \cup {NoHqc}]

SafetyData == [epoch : Epochs, last_voted_round : Rounds, preferred_round : Rounds,
               one_chain_round : Rounds, last_vote : Vote \cup {None}]

ASSUME SafetyRulesAssumption ==
    /\ MaxEpoch \in Nat \ {0}
    /\ MaxRound \in Nat \ {0}
    /\ Blocks \subseteq Block
    /\ Proposals \subseteq Block
    /\ PlainTimeouts \subseteq Rounds
    /\ QcTimeouts \subseteq TimeoutCert
    /\ TimeoutCerts \subseteq TimeoutCert
    /\ StoreFaults \subseteq {"lost", "applied"}
    /\ CacheEnabled \in BOOLEAN
    /\ TestConfig \in BOOLEAN
    /\ None \notin Vote
    /\ None \notin SafetyData

VARIABLES
    store,       \* SAFETY_DATA in the internal store (durable)
    waypoint,    \* WAYPOINT in the internal store, as the epoch it starts (durable)
    cache,       \* cached_safety_data, or None
    signer,      \* validator_signer is Some
    epoch_state, \* epoch of epoch_state, 0 when it is None
    votes,       \* history: every vote returned to a caller
    timeouts,    \* history: every timeout whose signature was returned
    proposals    \* history: every block whose proposal signature was returned

durable == <<store, waypoint>>
session == <<signer, epoch_state>>
history == <<votes, timeouts, proposals>>
vars == <<store, waypoint, cache, signer, epoch_state, votes, timeouts, proposals>>

TypeOK ==
    /\ store \in SafetyData
    /\ waypoint \in Epochs
    /\ cache \in SafetyData \cup {None}
    /\ signer \in BOOLEAN
    /\ epoch_state \in {0} \cup Epochs
    /\ votes \subseteq Vote
    /\ timeouts \subseteq Timeout
    /\ proposals \subseteq Block

-----------------------------------------------------------------------------
(***************************************************************************)
(* PersistentSafetyStorage                                                 *)
(***************************************************************************)

\* safety_data(): the cached copy when there is one, else the stored value.
safety_data == IF CacheEnabled /\ cache # None THEN cache ELSE store

\* What reading does to the cache: a read that went to the store fills it.
ReadFillsCache == cache' = IF CacheEnabled THEN safety_data ELSE cache

\* Faulty variant of set_safety_data: the cached copy survives a failed write.
set_safety_data_keeps_cache(data, out) ==
    /\ store' = IF out = "lost" THEN store ELSE data
    /\ cache' = IF out = "ok" THEN data ELSE cache

\* set_safety_data(data): the cache follows a successful write and is dropped
\* on an error, because the store may hold either value by then.
set_safety_data(data, out) ==
    /\ store' = IF out = "lost" THEN store ELSE data
    /\ cache' = IF out = "ok" THEN data ELSE None

WriteOutcomes == {"ok"} \cup StoreFaults

-----------------------------------------------------------------------------
(***************************************************************************)
(* What a call checks before the voting rules                              *)
(***************************************************************************)

\* verify_proposal, as far as it depends on what is modelled: verify_epoch,
\* QuorumCert::verify with VoteData::verify, and Block::verify_well_formed.
verify_proposal(b, sd) ==
    /\ epoch_state # 0
    /\ b.epoch = sd.epoch
    /\ WellFormed(b)

-----------------------------------------------------------------------------
(***************************************************************************)
(* Calls                                                                   *)
(***************************************************************************)

\* The common tail of both voting calls: a repeated round gets the recorded
\* vote back; a new vote is signed, persisted, and returned only if that worked.
ReturnLastVote(sd) ==
    /\ votes' = votes \cup {sd.last_vote}
    /\ ReadFillsCache
    /\ UNCHANGED <<durable, session, timeouts, proposals>>

\* Faulty variant of RecordVote: the vote is returned although the write failed.
RecordVote_ignores_error(b, rule, sd, out) ==
    LET vote == MakeVote(b, rule)
    IN  /\ set_safety_data(Voted(b, sd, vote), out)
        /\ votes' = votes \cup {vote}
        /\ UNCHANGED <<waypoint, session, timeouts, proposals>>

RecordVote(b, rule, sd, out) ==
    LET vote == MakeVote(b, rule)
    IN  /\ set_safety_data(Voted(b, sd, vote), out)
        /\ votes' = IF out = "ok" THEN votes \cup {vote} ELSE votes
        /\ UNCHANGED <<waypoint, session, timeouts, proposals>>

construct_and_sign_vote(b, out) ==
    LET sd == safety_data
    IN  /\ signer
        /\ verify_proposal(b, sd)
        /\ \/ AlreadyVoted(b, sd) /\ ReturnLastVote(sd)
           \/ /\ ~AlreadyVoted(b, sd)
              /\ SafeForPreferredRound(b, sd)
              /\ AboveLastVotedRound(b.round, sd)
              /\ RecordVote(b, "3chain", sd, out)

construct_and_sign_vote_two_chain(b, tc, out) ==
    LET sd == safety_data
    IN  /\ signer
        /\ verify_proposal(b, sd)
        /\ \/ AlreadyVoted(b, sd) /\ ReturnLastVote(sd)
           \/ /\ ~AlreadyVoted(b, sd)
              /\ AboveLastVotedRound(b.round, sd)
              /\ safe_to_vote(b, tc)
              /\ RecordVote(b, "2chain", sd, out)

\* The common tail of both timeout calls.  last_voted_round moves to the round
\* first, and is written before the signature is made: `signed' tells whether
\* the signature then succeeds.
RecordTimeout(round, hqc, sd, out, signed) ==
    LET t == [epoch |-> sd.epoch, round |-> round, hqc |-> hqc]
    IN  /\ \/ /\ round > sd.last_voted_round
              /\ set_safety_data([sd EXCEPT !.last_voted_round = round], out)
              /\ timeouts' = IF out = "ok" /\ signed THEN timeouts \cup {t} ELSE timeouts
           \/ /\ round = sd.last_voted_round
              /\ timeouts' = IF signed THEN timeouts \cup {t} ELSE timeouts
              /\ ReadFillsCache
              /\ UNCHANGED store
        /\ UNCHANGED <<waypoint, session, votes, proposals>>

sign_timeout(e, round, out, signed) ==
    LET sd == safety_data
    IN  /\ signer
        /\ e = sd.epoch
        /\ round > sd.preferred_round
        /\ RecordTimeout(round, NoHqc, sd, out, signed)

sign_timeout_with_qc(e, round, hqc, tc, out, signed) ==
    LET sd == safety_data
    IN  /\ signer
        /\ epoch_state # 0
        /\ e = sd.epoch
        /\ safe_to_timeout(round, hqc, tc, sd)
        /\ RecordTimeout(round, hqc, sd, out, signed)

\* sign_proposal checks the author and the epoch only: its checks against
\* last_voted_round, the certificate and preferred_round are commented out.
sign_proposal(b) ==
    LET sd == safety_data
    IN  /\ signer
        /\ b.epoch = sd.epoch
        /\ proposals' = proposals \cup {b}
        /\ ReadFillsCache
        /\ UNCHANGED <<durable, session, votes, timeouts>>

\* A call that returns an error after reading the safety data (a failed check,
\* a failed signature), consensus_state() and sign_commit_vote(): nothing but
\* the cache can change.
ReadOnlyCall ==
    /\ ReadFillsCache
    /\ UNCHANGED <<durable, session, history>>

-----------------------------------------------------------------------------
(***************************************************************************)
(* initialize(proof): the proof ends with the ledger info that starts      *)
(* epoch e and is not older than the waypoint.                             *)
(***************************************************************************)

\* The key reconciliation leaves the signer set or not (the validator may not
\* be in the set of epoch e, or its key may be missing from the store).
InstallEpoch(e) ==
    /\ epoch_state' = e
    /\ signer' \in BOOLEAN

\* Faulty variants of initialize: the same epoch is entered again; the epoch is
\* written before the waypoint.
initialize_reenters(e, out) ==
    /\ e >= waypoint
    /\ waypoint' = e
    /\ set_safety_data(FreshData(e), out)
    /\ IF out = "ok" THEN InstallEpoch(e) ELSE UNCHANGED session
    /\ UNCHANGED history

initialize_epoch_first(e, out) ==
    /\ e >= waypoint
    /\ safety_data.epoch < e
    /\ waypoint' = IF out = "ok" THEN e ELSE waypoint
    /\ set_safety_data(FreshData(e), out)
    /\ IF out = "ok" THEN InstallEpoch(e) ELSE UNCHANGED session
    /\ UNCHANGED history

initialize(e, out) ==
    LET sd == safety_data
    IN  /\ e >= waypoint
        /\ \/ /\ sd.epoch < e
              /\ waypoint' = e
              /\ set_safety_data(FreshData(e), out)
              /\ IF out = "ok" THEN InstallEpoch(e) ELSE UNCHANGED session
           \/ /\ sd.epoch >= e
              /\ InstallEpoch(e)
              /\ ReadFillsCache
              /\ UNCHANGED durable
        /\ UNCHANGED history

\* initialize() failing at its first write, set_waypoint.
initialize_fails_at_waypoint(e, out) ==
    /\ e >= waypoint
    /\ safety_data.epoch < e
    /\ waypoint' = IF out = "lost" THEN waypoint ELSE e
    /\ ReadFillsCache
    /\ UNCHANGED <<store, session, history>>

\* The in-memory state of a new process.  PersistentSafetyStorage::new starts
\* without a cached copy; with a test configuration ::initialize runs instead,
\* finds the keys in place, leaves the store alone and caches SafetyData(1,0,0,0).
StartCache == IF TestConfig THEN FreshData(1) ELSE None

NewProcess ==
    /\ cache' = StartCache
    /\ signer' = FALSE
    /\ epoch_state' = 0

Restart ==
    /\ NewProcess
    /\ UNCHANGED <<durable, history>>

\* The process stops between the two writes of initialize() and is restarted.
initialize_crashes_between_writes(e) ==
    /\ e >= waypoint
    /\ safety_data.epoch < e
    /\ waypoint' = e
    /\ NewProcess
    /\ UNCHANGED <<store, history>>

-----------------------------------------------------------------------------
Init ==
    /\ store = FreshData(1)
    /\ waypoint = 1
    /\ cache = StartCache
    /\ signer = FALSE
    /\ epoch_state = 0
    /\ votes = {}
    /\ timeouts = {}
    /\ proposals = {}

Next ==
    \/ \E b \in Blocks, out \in WriteOutcomes : construct_and_sign_vote(b, out)
    \/ \E b \in Blocks, tc \in TimeoutCerts, out \in WriteOutcomes :
          construct_and_sign_vote_two_chain(b, tc, out)
    \/ \E e \in Epochs, r \in PlainTimeouts, out \in WriteOutcomes, signed \in BOOLEAN :
          sign_timeout(e, r, out, signed)
    \/ \E e \in Epochs, t \in QcTimeouts, tc \in TimeoutCerts,
          out \in WriteOutcomes, signed \in BOOLEAN :
          sign_timeout_with_qc(e, t.round, t.hqc, tc, out, signed)
    \/ \E b \in Proposals : sign_proposal(b)
    \/ ReadOnlyCall
    \/ \E e \in Epochs, out \in WriteOutcomes : initialize(e, out)
    \/ \E e \in Epochs, out \in StoreFaults : initialize_fails_at_waypoint(e, out)
    \/ \E e \in Epochs : initialize_crashes_between_writes(e)
    \/ Restart

Spec == Init /\ [][Next]_vars

-----------------------------------------------------------------------------
(***************************************************************************)
(* Properties                                                              *)
(***************************************************************************)

\* A validator never hands out two different votes for one round of an epoch,
\* whatever mixture of voting rules, timeouts, failed writes, restarts and
\* re-initializations lies between the two calls (guarded_construct_and_sign_vote
\* returns last_vote, or moves last_voted_round before it signs).
OneVotePerRound ==
    \A v, w \in votes : v.epoch = w.epoch /\ v.round = w.round => v = w

\* The lock of the three-chain rule: a vote cast under it never extends a
\* certificate older than the parent certified in any earlier vote of the epoch
\* (preferred_round survives restarts and is raised by every vote).
LaterVotesKeepPreferredRound ==
    \A v, w \in votes :
        v.epoch = w.epoch /\ v.round < w.round /\ w.rule = "3chain" => w.qc1 >= v.qc0

\* What makes the two-chain rule safe: a timeout signed with a certificate for
\* a round the validator voted in, or for a later one, carries a certificate at
\* least as high as the one it voted on, in whichever order vote and timeout
\* were signed (safe_to_timeout against the one_chain_round of observe_qc).
TimeoutCarriesVotedQc ==
    \A v \in votes, t \in timeouts :
        v.epoch = t.epoch /\ v.round <= t.round /\ t.hqc # NoHqc => t.hqc >= v.qc1

\* cached_safety_data is a copy of the stored SafetyData whenever it would be
\* read, so a cached read never decides on outdated rounds (set_safety_data
\* drops the copy on every error).
CacheIsCopy == CacheEnabled /\ cache # None => cache = store

\* The order of the writes in guarded_initialize: the waypoint is never behind
\* the epoch of the safety data, so a restart cannot re-enter an older epoch;
\* and verifiers are only ever installed for an epoch the waypoint has reached.
WaypointLeads == waypoint >= store.epoch /\ epoch_state <= waypoint

DurableStep ==
    \/ store'.epoch > store.epoch
    \/ /\ store'.epoch = store.epoch
       /\ store'.last_voted_round >= store.last_voted_round
       /\ store'.preferred_round >= store.preferred_round
       /\ store'.one_chain_round >= store.one_chain_round
       /\ \/ store.last_vote = None
          \/ store'.last_vote = store.last_vote
          \/ /\ store'.last_vote # None
             /\ store'.last_vote.round > store.last_vote.round

\* The durable safety data never goes backwards: epochs only grow, and within
\* an epoch none of the three rounds decreases and a recorded vote is only
\* replaced by a vote of a higher round (every read-modify-write goes through
\* the cache, which a failed write or a restart may have dropped).
DurableProgress == [][DurableStep]_vars

NewVoteAboveTimeouts ==
    store'.last_vote # store.last_vote /\ store'.last_vote # None =>
        \A t \in timeouts : t.epoch = store'.epoch => t.round < store'.last_vote.round

\* Signing a timeout ends voting up to that round: a vote that is recorded
\* anew is for a round above every timeout already signed in its epoch.
TimeoutEndsVoting == [][NewVoteAboveTimeouts]_vars

Atomic == INSTANCE AtomicVoter WITH data <- store

\* Seen from outside, the safety rules are one record read and replaced in one
\* step: the cached copy, writes that fail or are reported as failed, the two
\* writes of an epoch change and restarts never let a call decide on anything
\* but the stored data (PersistentSafetyStorage under guarded_* of SafetyRules).
ActsAtomically == Atomic!Spec

\* What the tests of sign_proposal expect: a signed proposal is above the last
\* voted round and extends a certificate no older than the preferred round.
SignedProposalsAdvance ==
    [][ \A b \in proposals' \ proposals :
          b.round > store.last_voted_round /\ b.qc1 >= store.preferred_round ]_vars

=============================================================================
