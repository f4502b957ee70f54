------------------------- MODULE SafetyRulesProofs -------------------------
(***************************************************************************)
(* Proofs about SafetyRules for every bound, every set of calls and every  *)
(* kind of storage fault.  The one assumption beside the named ones is     *)
(* that the process is not started with a test configuration, under which  *)
(* the cached copy is known to differ from the store.                      *)
(***************************************************************************)
EXTENDS SafetyRules, TLAPS

\* The recorded vote belongs to the current epoch and is covered by the rounds.
LastVoteCovered ==
    store.last_vote # None =>
        /\ store.last_vote.epoch = store.epoch
        /\ store.last_vote.round <= store.last_voted_round
        /\ store.last_vote.qc1 <= store.one_chain_round
        /\ store.last_vote.qc0 <= store.preferred_round

\* Every returned vote of the current epoch is covered by the durable data: it
\* is the recorded vote, or of a lower round than the recorded vote.
VotesCovered ==
    \A v \in votes :
        /\ v.epoch <= store.epoch
        /\ v.epoch = store.epoch =>
              /\ store.last_vote # None
              /\ v.round <= store.last_vote.round
              /\ v.round = store.last_vote.round => v = store.last_vote
              /\ v.qc1 <= store.one_chain_round
              /\ v.qc0 <= store.preferred_round
              /\ store.last_vote.rule = "3chain" /\ v.round < store.last_vote.round
                    => store.last_vote.qc1 >= v.qc0

\* Every signed timeout of the current epoch is covered as well, and carries the
\* certificate of the recorded vote, which may not have been returned yet.
TimeoutsCovered ==
    \A t \in timeouts :
        /\ t.epoch <= store.epoch
        /\ t.epoch = store.epoch =>
              /\ t.round <= store.last_voted_round
              /\ store.last_vote # None /\ store.last_vote.round <= t.round /\ t.hqc # NoHqc
                    => t.hqc >= store.last_vote.qc1

\* The inductive invariant.
IInv ==
    /\ TypeOK
    /\ CacheIsCopy
    /\ LastVoteCovered
    /\ VotesCovered
    /\ TimeoutsCovered
    /\ OneVotePerRound
    /\ LaterVotesKeepPreferredRound
    /\ TimeoutCarriesVotedQc

-----------------------------------------------------------------------------
\* What safety_data() returns is what the store holds, so every decision is
\* made on the durable data.
LEMMA ReadsStore == CacheIsCopy => safety_data = store
  BY DEF CacheIsCopy, safety_data

\* A vote built from a block is a vote, and copies the block's rounds.
LEMMA MakeVoteType ==
    ASSUME NEW b \in Block, NEW rule \in {"3chain", "2chain"}
    PROVE  /\ MakeVote(b, rule) \in Vote
           /\ MakeVote(b, rule).epoch = b.epoch
           /\ MakeVote(b, rule).round = b.round
           /\ MakeVote(b, rule).qc1 = b.qc1
           /\ MakeVote(b, rule).qc0 = b.qc0
           /\ MakeVote(b, rule).rule = rule
  BY DEF MakeVote, Vote, Block, construct_ledger_info, construct_ledger_info_2chain, NoCommit

\* The safety data written by a vote: typed, with the rounds raised to cover it.
LEMMA ObserveType ==
    ASSUME NEW b \in Block, NEW sd \in SafetyData, NEW v \in Vote
    PROVE  /\ Voted(b, sd, v) \in SafetyData
           /\ Voted(b, sd, v).epoch = sd.epoch
           /\ Voted(b, sd, v).last_voted_round = b.round
           /\ Voted(b, sd, v).last_vote = v
           /\ Voted(b, sd, v).one_chain_round = max(sd.one_chain_round, b.qc1)
           /\ Voted(b, sd, v).preferred_round = max(sd.preferred_round, b.qc0)
  BY SafetyRulesAssumption DEF Voted, observe_qc, max, SafetyData, Block, Rounds

LEMMA FreshType ==
    ASSUME NEW e \in Epochs
    PROVE  FreshData(e) \in SafetyData
  BY SafetyRulesAssumption DEF FreshData, SafetyData, Rounds

-----------------------------------------------------------------------------
\* Handing out the recorded vote again keeps the invariant.
LEMMA ReturnLastVoteStep ==
    ASSUME IInv, store.last_vote # None, ReturnLastVote(store)
    PROVE  IInv'
  <1> USE DEF ReturnLastVote, durable, session
  <1>1. TypeOK'
    BY ReadsStore DEF IInv, TypeOK, SafetyData, ReadFillsCache
  <1>2. CacheIsCopy'
    BY ReadsStore DEF IInv, CacheIsCopy, ReadFillsCache
  <1>3. LastVoteCovered' /\ TimeoutsCovered'
    BY DEF IInv, LastVoteCovered, TimeoutsCovered
  <1>4. VotesCovered'
    BY DEF IInv, VotesCovered, LastVoteCovered, TypeOK, SafetyData, Epochs, Rounds, Vote
  <1>5. OneVotePerRound'
    BY DEF IInv, OneVotePerRound, VotesCovered, LastVoteCovered
  <1>6. LaterVotesKeepPreferredRound'
    <2>1. SUFFICES ASSUME NEW v \in votes', NEW w \in votes', v.epoch = w.epoch,
                          v.round < w.round, w.rule = "3chain"
                   PROVE  w.qc1 >= v.qc0
      BY DEF LaterVotesKeepPreferredRound
    <2>2. CASE v \in votes /\ w \in votes
      BY <2>1, <2>2 DEF IInv, LaterVotesKeepPreferredRound
    <2>3. CASE v \in votes /\ w = store.last_vote
      BY <2>1, <2>3 DEF IInv, VotesCovered, LastVoteCovered
    <2>4. CASE v = store.last_vote
      <3>1. w \in votes \/ w = v
        BY <2>1, <2>4
      <3>2. w.round <= v.round
        BY <2>1, <2>4, <3>1 DEF IInv, VotesCovered, LastVoteCovered, TypeOK, SafetyData, Vote, Rounds
      <3>3. v.round \in Int /\ w.round \in Int
        BY <2>4, <3>1 DEF IInv, TypeOK, SafetyData, Vote, Rounds
      <3>4. QED
        BY <2>1, <3>2, <3>3
    <2>5. QED
      BY <2>1, <2>2, <2>3, <2>4
  <1>7. TimeoutCarriesVotedQc'
    BY DEF IInv, TimeoutCarriesVotedQc, TimeoutsCovered, LastVoteCovered
  <1>8. QED
    BY <1>1, <1>2, <1>3, <1>4, <1>5, <1>6, <1>7 DEF IInv

\* Recording a new vote above last_voted_round keeps the invariant, whether the
\* write succeeds, is lost, or is applied and reported as an error.
LEMMA RecordVoteStep ==
    ASSUME IInv, NEW b \in Block, NEW rule \in {"3chain", "2chain"}, NEW out \in WriteOutcomes,
           b.epoch = store.epoch, b.round > store.last_voted_round,
           rule = "3chain" => b.qc1 >= store.preferred_round,
           RecordVote(b, rule, store, out)
    PROVE  IInv'
  <1> DEFINE vote == MakeVote(b, rule)
             new == Voted(b, store, vote)
  <1>1. /\ vote \in Vote
        /\ vote.epoch = store.epoch /\ vote.round = b.round /\ vote.rule = rule
        /\ vote.qc1 = b.qc1 /\ vote.qc0 = b.qc0
    BY MakeVoteType
  <1>2. /\ new \in SafetyData
        /\ new.epoch = store.epoch
        /\ new.last_voted_round = b.round
        /\ new.last_vote = vote
        /\ new.one_chain_round = max(store.one_chain_round, b.qc1)
        /\ new.preferred_round = max(store.preferred_round, b.qc0)
    <2>1. store \in SafetyData
      BY DEF IInv, TypeOK
    <2>2. QED
      BY <1>1, <2>1, ObserveType, Zenon
  <1>3. /\ new.one_chain_round >= store.one_chain_round /\ new.one_chain_round >= vote.qc1
        /\ new.preferred_round >= store.preferred_round /\ new.preferred_round >= vote.qc0
    BY <1>1, <1>2 DEF max, IInv, TypeOK, SafetyData, Block, Rounds
  <1>4. /\ store' = IF out = "lost" THEN store ELSE new
        /\ cache' = IF out = "ok" THEN new ELSE None
        /\ votes' = IF out = "ok" THEN votes \cup {vote} ELSE votes
        /\ timeouts' = timeouts /\ proposals' = proposals
        /\ waypoint' = waypoint /\ signer' = signer /\ epoch_state' = epoch_state
    BY DEF RecordVote, set_safety_data, session
  <1> HIDE DEF vote, new
  <1>5. vote # None
    BY <1>1, SafetyRulesAssumption
  <1>6. TypeOK' /\ CacheIsCopy'
    BY <1>1, <1>2, <1>4 DEF IInv, TypeOK, CacheIsCopy, WriteOutcomes
  <1>7. CASE out = "lost"
    BY <1>4, <1>6, <1>7 DEF IInv, LastVoteCovered, VotesCovered, TimeoutsCovered, OneVotePerRound,
                            LaterVotesKeepPreferredRound, TimeoutCarriesVotedQc
  <1>8. CASE out # "lost"
    <2>1. store' = new /\ votes' \subseteq votes \cup {vote} /\ timeouts' = timeouts
      BY <1>4, <1>8
    <2>2. \A v \in votes : v.epoch = store.epoch => v.round < vote.round
      BY <1>1 DEF IInv, VotesCovered, LastVoteCovered, TypeOK, SafetyData, Vote, Block, Rounds
    <2>3. \A t \in timeouts : t.epoch = store.epoch => t.round < vote.round
      BY <1>1 DEF IInv, TimeoutsCovered, TypeOK, SafetyData, Timeout, Block, Rounds
    <2>4. LastVoteCovered'
      BY <1>1, <1>2, <1>3, <2>1 DEF LastVoteCovered, Vote, SafetyData, Rounds
    <2>5. VotesCovered'
      <3>1. SUFFICES ASSUME NEW v \in votes'
                     PROVE  /\ v.epoch <= new.epoch
                            /\ v.epoch = new.epoch =>
                                  /\ new.last_vote # None
                                  /\ v.round <= new.last_vote.round
                                  /\ v.round = new.last_vote.round => v = new.last_vote
                                  /\ v.qc1 <= new.one_chain_round
                                  /\ v.qc0 <= new.preferred_round
                                  /\ new.last_vote.rule = "3chain" /\ v.round < new.last_vote.round
                                        => new.last_vote.qc1 >= v.qc0
        BY <2>1 DEF VotesCovered
      <3>2. CASE v = vote
        BY <1>1, <1>2, <1>3, <1>5, <3>2 DEF Vote, SafetyData, Rounds, Epochs
      <3>3. CASE v \in votes
        <4>1. /\ v \in Vote /\ store \in SafetyData /\ new \in SafetyData
              /\ v.epoch <= store.epoch
              /\ v.epoch = store.epoch => /\ v.qc1 <= store.one_chain_round
                                          /\ v.qc0 <= store.preferred_round
          BY <1>2, <3>3 DEF IInv, VotesCovered, TypeOK
        <4>2. v.epoch = store.epoch =>
                /\ v.round < vote.round
                /\ v.qc1 <= new.one_chain_round
                /\ v.qc0 <= new.preferred_round
                /\ rule = "3chain" => vote.qc1 >= v.qc0
          BY <1>1, <1>3, <2>2, <3>3, <4>1 DEF Vote, SafetyData, Rounds, Block
        <4>3. QED
          BY <1>1, <1>2, <1>5, <4>1, <4>2 DEF Vote, SafetyData, Rounds
      <3>4. QED
        BY <2>1, <3>2, <3>3
    <2>6. TimeoutsCovered'
      BY <1>1, <1>2, <2>1, <2>3 DEF IInv, TimeoutsCovered, TypeOK, Timeout, SafetyData, Vote, Rounds
    <2>7. OneVotePerRound'
      BY <1>1, <2>1, <2>2 DEF IInv, OneVotePerRound, TypeOK, Vote, Rounds
    <2>8. LaterVotesKeepPreferredRound'
      <3>1. SUFFICES ASSUME NEW v \in votes', NEW w \in votes', v.epoch = w.epoch,
                            v.round < w.round, w.rule = "3chain"
                     PROVE  w.qc1 >= v.qc0
        BY DEF LaterVotesKeepPreferredRound
      <3>2. CASE v \in votes /\ w \in votes
        BY <3>1, <3>2 DEF IInv, LaterVotesKeepPreferredRound
      <3>3. CASE v \in votes /\ w = vote
        <4>1. v.qc0 <= store.preferred_round
          BY <1>1, <3>1, <3>3 DEF IInv, VotesCovered
        <4>2. w.qc1 >= store.preferred_round
          BY <1>1, <3>1, <3>3
        <4>3. QED
          BY <1>1, <3>3, <4>1, <4>2 DEF IInv, TypeOK, Vote, SafetyData, Rounds
      <3>4. CASE v = vote
        BY <1>1, <2>1, <2>2, <3>1, <3>4 DEF IInv, TypeOK, Vote, Rounds
      <3>5. QED
        BY <2>1, <3>1, <3>2, <3>3, <3>4
    <2>9. TimeoutCarriesVotedQc'
      BY <1>1, <2>1, <2>3 DEF IInv, TimeoutCarriesVotedQc, TypeOK, Vote, Timeout, Rounds
    <2>10. QED
      BY <1>6, <2>4, <2>5, <2>6, <2>7, <2>8, <2>9 DEF IInv
  <1>9. QED
    BY <1>7, <1>8

\* Moving last_voted_round to a timeout's round, and signing it, keeps the
\* invariant; a timeout that names a certificate has passed safe_to_timeout.
LEMMA RecordTimeoutStep ==
    ASSUME IInv, NEW round \in Rounds, NEW hqc \in Rounds \cup {NoHqc},
           NEW out \in WriteOutcomes, NEW signed \in BOOLEAN,
           hqc # NoHqc => hqc >= store.one_chain_round,
           RecordTimeout(round, hqc, store, out, signed)
    PROVE  IInv'
  <1> DEFINE t == [epoch |-> store.epoch, round |-> round, hqc |-> hqc]
             new == [store EXCEPT !.last_voted_round = round]
  <1>1. t \in Timeout /\ t.epoch = store.epoch /\ t.round = round /\ t.hqc = hqc
    BY DEF IInv, TypeOK, SafetyData, Timeout
  <1>2. /\ new \in SafetyData
        /\ new.epoch = store.epoch
        /\ new.last_voted_round = round
        /\ new.last_vote = store.last_vote
        /\ new.one_chain_round = store.one_chain_round
        /\ new.preferred_round = store.preferred_round
    BY DEF IInv, TypeOK, SafetyData
  <1>3. /\ round >= store.last_voted_round
        /\ \/ store' = store
           \/ store' = new
        /\ timeouts' # timeouts => timeouts' = timeouts \cup {t} /\ store'.last_voted_round = round
        /\ cache' # None => cache' = store' \/ cache' = cache
        /\ cache' = cache /\ cache # None /\ CacheEnabled => store' = store
        /\ votes' = votes /\ proposals' = proposals
        /\ waypoint' = waypoint /\ signer' = signer /\ epoch_state' = epoch_state
    <2>1. UNCHANGED <<waypoint, signer, epoch_state, votes, proposals>>
      BY DEF RecordTimeout, session
    <2>2. CASE /\ round > store.last_voted_round
               /\ set_safety_data(new, out)
               /\ timeouts' = IF out = "ok" /\ signed THEN timeouts \cup {t} ELSE timeouts
      BY <1>2, <2>1, <2>2 DEF set_safety_data, IInv, TypeOK, SafetyData, Rounds, WriteOutcomes, CacheIsCopy
    <2>3. CASE /\ round = store.last_voted_round
               /\ timeouts' = IF signed THEN timeouts \cup {t} ELSE timeouts
               /\ ReadFillsCache
               /\ store' = store
      BY <1>2, <2>1, <2>3, ReadsStore DEF ReadFillsCache, IInv, TypeOK, SafetyData, Rounds, CacheIsCopy
    <2>4. QED
      BY <2>2, <2>3 DEF RecordTimeout
  <1> HIDE DEF t, new
  <1>4. timeouts' \subseteq timeouts \cup {t}
    BY <1>3
  <1>5. TypeOK' /\ CacheIsCopy'
    BY <1>1, <1>2, <1>3, <1>4 DEF IInv, TypeOK, CacheIsCopy
  <1>6. /\ store'.epoch = store.epoch /\ store'.last_vote = store.last_vote
        /\ store'.one_chain_round = store.one_chain_round
        /\ store'.preferred_round = store.preferred_round
        /\ store'.last_voted_round >= store.last_voted_round
    BY <1>2, <1>3 DEF IInv, TypeOK, SafetyData, Rounds
  <1>7. LastVoteCovered' /\ VotesCovered'
    BY <1>3, <1>5, <1>6, SMTT(30) DEF IInv, LastVoteCovered, VotesCovered, TypeOK, SafetyData, Rounds, Vote
  <1>8. TimeoutsCovered'
    <2>1. ASSUME NEW u \in timeouts
          PROVE  /\ u.epoch <= store'.epoch
                 /\ u.epoch = store'.epoch =>
                       /\ u.round <= store'.last_voted_round
                       /\ store'.last_vote # None /\ store'.last_vote.round <= u.round /\ u.hqc # NoHqc
                             => u.hqc >= store'.last_vote.qc1
      BY <1>5, <1>6, <2>1 DEF IInv, TimeoutsCovered, TypeOK, SafetyData, Timeout, Rounds
    <2>2. ASSUME timeouts' # timeouts
          PROVE  /\ t.epoch <= store'.epoch
                 /\ t.round <= store'.last_voted_round
                 /\ store'.last_vote # None /\ t.hqc # NoHqc => t.hqc >= store'.last_vote.qc1
      <3>1. store'.last_vote # None => store'.last_vote \in Vote /\ store.last_vote.qc1 <= store.one_chain_round
        BY <1>6 DEF IInv, LastVoteCovered, TypeOK, SafetyData
      <3>2. QED
        BY <1>1, <1>3, <1>5, <1>6, <2>2, <3>1, SMTT(30) DEF IInv, TypeOK, SafetyData, Vote, Epochs, Rounds, NoHqc
    <2>3. QED
      BY <1>3, <2>1, <2>2 DEF TimeoutsCovered
  <1>9. OneVotePerRound' /\ LaterVotesKeepPreferredRound'
    BY <1>3 DEF IInv, OneVotePerRound, LaterVotesKeepPreferredRound
  <1>10. TimeoutCarriesVotedQc'
    <2>1. ASSUME NEW v \in votes, v.epoch = t.epoch, t.hqc # NoHqc
          PROVE  t.hqc >= v.qc1
      BY <1>1, <2>1 DEF IInv, VotesCovered, TypeOK, SafetyData, Vote, Rounds, NoHqc
    <2>2. QED
      BY <1>3, <1>4, <2>1 DEF IInv, TimeoutCarriesVotedQc
  <1>11. QED
    BY <1>5, <1>7, <1>8, <1>9, <1>10 DEF IInv

\* A step that leaves the stored safety data and the histories of votes and
\* timeouts alone keeps the invariant.
LEMMA IdleStep ==
    ASSUME IInv, TypeOK', CacheIsCopy', store' = store, votes' = votes, timeouts' = timeouts
    PROVE  IInv'
  BY DEF IInv, LastVoteCovered, VotesCovered, TimeoutsCovered, OneVotePerRound,
         LaterVotesKeepPreferredRound, TimeoutCarriesVotedQc

\* Entering a later epoch keeps the invariant: nothing has been signed in it.
LEMMA EnterEpochStep ==
    ASSUME IInv, NEW e \in Epochs, store.epoch < e, TypeOK', CacheIsCopy',
           store' = FreshData(e), votes' = votes, timeouts' = timeouts
    PROVE  IInv'
  <1>1. store'.epoch = e /\ store'.last_vote = None
    BY DEF FreshData
  <1>2. \A v \in votes : v.epoch < e
    BY DEF IInv, VotesCovered, TypeOK, SafetyData, Vote, Epochs
  <1>3. \A t \in timeouts : t.epoch < e
    BY DEF IInv, TimeoutsCovered, TypeOK, SafetyData, Timeout, Epochs
  <1>4. LastVoteCovered'
    BY <1>1 DEF LastVoteCovered
  <1>5. VotesCovered' /\ TimeoutsCovered'
    BY <1>1, <1>2, <1>3 DEF IInv, TypeOK, Vote, Timeout, Epochs, VotesCovered, TimeoutsCovered
  <1>6. QED
    BY <1>4, <1>5 DEF IInv, OneVotePerRound, LaterVotesKeepPreferredRound, TimeoutCarriesVotedQc

-----------------------------------------------------------------------------
\* Every call, crash and restart keeps the invariant.
LEMMA NextStep ==
    ASSUME ~TestConfig, IInv, [Next]_vars
    PROVE  IInv'
  <1>1. safety_data = store
    BY ReadsStore DEF IInv
  <1>2. TypeOK /\ CacheIsCopy
    BY DEF IInv
  <1>3. ASSUME NEW b \in Blocks, NEW out \in WriteOutcomes, construct_and_sign_vote(b, out)
        PROVE  IInv'
    <2>1. b \in Block
      BY SafetyRulesAssumption
    <2>2. CASE AlreadyVoted(b, store) /\ ReturnLastVote(store)
      BY <2>2, ReturnLastVoteStep DEF AlreadyVoted
    <2>3. CASE /\ SafeForPreferredRound(b, store)
               /\ AboveLastVotedRound(b.round, store)
               /\ RecordVote(b, "3chain", store, out)
      <3>1. b.epoch = store.epoch
        BY <1>1, <1>3 DEF construct_and_sign_vote, verify_proposal
      <3>2. QED
        BY <2>1, <2>3, <3>1, RecordVoteStep DEF SafeForPreferredRound, AboveLastVotedRound
    <2>4. QED
      BY <1>1, <1>3, <2>2, <2>3 DEF construct_and_sign_vote
  <1>4. ASSUME NEW b \in Blocks, NEW tc \in TimeoutCerts, NEW out \in WriteOutcomes,
               construct_and_sign_vote_two_chain(b, tc, out)
        PROVE  IInv'
    <2>1. b \in Block
      BY SafetyRulesAssumption
    <2>2. CASE AlreadyVoted(b, store) /\ ReturnLastVote(store)
      BY <2>2, ReturnLastVoteStep DEF AlreadyVoted
    <2>3. CASE AboveLastVotedRound(b.round, store) /\ RecordVote(b, "2chain", store, out)
      <3>1. b.epoch = store.epoch
        BY <1>1, <1>4 DEF construct_and_sign_vote_two_chain, verify_proposal
      <3>2. QED
        BY <2>1, <2>3, <3>1, RecordVoteStep DEF AboveLastVotedRound
    <2>4. QED
      BY <1>1, <1>4, <2>2, <2>3 DEF construct_and_sign_vote_two_chain
  <1>5. ASSUME NEW e \in Epochs, NEW r \in PlainTimeouts, NEW out \in WriteOutcomes,
               NEW signed \in BOOLEAN, sign_timeout(e, r, out, signed)
        PROVE  IInv'
    <2>1. r \in Rounds /\ RecordTimeout(r, NoHqc, store, out, signed)
      BY <1>1, <1>5, SafetyRulesAssumption DEF sign_timeout
    <2>2. QED
      BY <2>1, RecordTimeoutStep
  <1>6. ASSUME NEW e \in Epochs, NEW t \in QcTimeouts, NEW tc \in TimeoutCerts,
               NEW out \in WriteOutcomes, NEW signed \in BOOLEAN,
               sign_timeout_with_qc(e, t.round, t.hqc, tc, out, signed)
        PROVE  IInv'
    <2>1. t.round \in Rounds /\ t.hqc \in Rounds
      BY SafetyRulesAssumption DEF TimeoutCert
    <2>2. /\ RecordTimeout(t.round, t.hqc, store, out, signed)
          /\ t.hqc >= store.one_chain_round
      BY <1>1, <1>6 DEF sign_timeout_with_qc, safe_to_timeout
    <2>3. QED
      BY <2>1, <2>2, RecordTimeoutStep
  <1>7. ASSUME NEW b \in Proposals, sign_proposal(b)
        PROVE  IInv'
    BY <1>1, <1>2, <1>7, IdleStep, SafetyRulesAssumption
       DEF sign_proposal, ReadFillsCache, TypeOK, CacheIsCopy, durable, session
  <1>8. CASE ReadOnlyCall
    BY <1>1, <1>2, <1>8, IdleStep
       DEF ReadOnlyCall, ReadFillsCache, TypeOK, CacheIsCopy, durable, session, history
  <1>9. ASSUME NEW e \in Epochs, NEW out \in WriteOutcomes, initialize(e, out)
        PROVE  IInv'
    <2>1. votes' = votes /\ timeouts' = timeouts /\ proposals' = proposals
      BY <1>9 DEF initialize, history
    <2>2. CASE /\ store.epoch < e
               /\ waypoint' = e
               /\ set_safety_data(FreshData(e), out)
               /\ IF out = "ok" THEN InstallEpoch(e) ELSE UNCHANGED session
      <3>1. TypeOK' /\ CacheIsCopy'
        BY <1>2, <2>1, <2>2, FreshType
           DEF set_safety_data, InstallEpoch, session, TypeOK, CacheIsCopy, WriteOutcomes
      <3>2. store' = store \/ store' = FreshData(e)
        BY <2>2 DEF set_safety_data
      <3>3. QED
        BY <2>1, <2>2, <3>1, <3>2, IdleStep, EnterEpochStep
    <2>3. CASE InstallEpoch(e) /\ ReadFillsCache /\ UNCHANGED durable
      BY <1>1, <1>2, <2>1, <2>3, IdleStep
         DEF ReadFillsCache, InstallEpoch, durable, TypeOK, CacheIsCopy
    <2>4. QED
      BY <1>1, <1>9, <2>2, <2>3 DEF initialize
  <1>10. ASSUME NEW e \in Epochs, NEW out \in StoreFaults, initialize_fails_at_waypoint(e, out)
         PROVE  IInv'
    BY <1>1, <1>2, <1>10, IdleStep
       DEF initialize_fails_at_waypoint, ReadFillsCache, TypeOK, CacheIsCopy, session, history
  <1>11. ASSUME NEW e \in Epochs, initialize_crashes_between_writes(e)
         PROVE  IInv'
    BY <1>2, <1>11, IdleStep
       DEF initialize_crashes_between_writes, NewProcess, StartCache, TypeOK, CacheIsCopy, history
  <1>12. CASE Restart
    BY <1>2, <1>12, IdleStep
       DEF Restart, NewProcess, StartCache, TypeOK, CacheIsCopy, durable, history
  <1>13. CASE UNCHANGED vars
    BY <1>2, <1>13, IdleStep DEF vars, TypeOK, CacheIsCopy
  <1>14. QED
    BY <1>3, <1>4, <1>5, <1>6, <1>7, <1>8, <1>9, <1>10, <1>11, <1>12, <1>13 DEF Next

LEMMA InitStep ==
    ASSUME ~TestConfig, Init
    PROVE  IInv
  <1>1. 1 \in Epochs /\ FreshData(1) \in SafetyData
    BY FreshType, SafetyRulesAssumption DEF Epochs
  <1>2. QED
    BY <1>1 DEF Init, StartCache, FreshData, IInv, TypeOK, CacheIsCopy, LastVoteCovered, VotesCovered,
       TimeoutsCovered, OneVotePerRound, LaterVotesKeepPreferredRound, TimeoutCarriesVotedQc

\* The invariant holds throughout every run of a validator that was not started
\* with a test configuration.
THEOREM Inductive == ASSUME ~TestConfig PROVE Spec => []IInv
  BY InitStep, NextStep, PTL DEF Spec

\* Type correctness of safety data, cache and histories.
THEOREM TypeCorrect == ASSUME ~TestConfig PROVE Spec => []TypeOK
  <1>1. IInv => TypeOK
    BY DEF IInv
  <1>2. QED
    BY <1>1, Inductive, PTL

\* guarded_construct_and_sign_vote and its two-chain form never return two
\* different votes for one round, for any number of rounds, epochs and faults.
THEOREM NoEquivocation == ASSUME ~TestConfig PROVE Spec => []OneVotePerRound
  <1>1. IInv => OneVotePerRound
    BY DEF IInv
  <1>2. QED
    BY <1>1, Inductive, PTL

\* Every three-chain vote respects the lock of every earlier vote.
THEOREM LockRespected == ASSUME ~TestConfig PROVE Spec => []LaterVotesKeepPreferredRound
  <1>1. IInv => LaterVotesKeepPreferredRound
    BY DEF IInv
  <1>2. QED
    BY <1>1, Inductive, PTL

\* Every timeout with a certificate covers the certificates voted on.
THEOREM TimeoutsAreTruthful == ASSUME ~TestConfig PROVE Spec => []TimeoutCarriesVotedQc
  <1>1. IInv => TimeoutCarriesVotedQc
    BY DEF IInv
  <1>2. QED
    BY <1>1, Inductive, PTL

\* The cached copy of the safety data equals the stored one.
THEOREM CacheCoherent == ASSUME ~TestConfig PROVE Spec => []CacheIsCopy
  <1>1. IInv => CacheIsCopy
    BY DEF IInv
  <1>2. QED
    BY <1>1, Inductive, PTL

-----------------------------------------------------------------------------
\* The four ways in which the stored safety data can change, and the waypoint
\* and the verifier with it.
VoteWrite ==
    \E b \in Block, rule \in {"3chain", "2chain"} :
        /\ b.epoch = store.epoch
        /\ b.round > store.last_voted_round
        /\ store' = Voted(b, store, MakeVote(b, rule))

TimeoutWrite ==
    \E r \in Rounds : /\ r > store.last_voted_round
                      /\ store' = [store EXCEPT !.last_voted_round = r]

EpochWrite ==
    \E e \in Epochs : store.epoch < e /\ store' = FreshData(e) /\ waypoint' = e

LEMMA StoreWrites ==
    ASSUME IInv, [Next]_vars
    PROVE  store' = store \/ VoteWrite \/ TimeoutWrite \/ EpochWrite
  <1>1. safety_data = store
    BY ReadsStore DEF IInv
  <1>2. ASSUME NEW b \in Block, NEW rule \in {"3chain", "2chain"}, NEW out \in WriteOutcomes,
               b.epoch = store.epoch, AboveLastVotedRound(b.round, store),
               RecordVote(b, rule, store, out)
        PROVE  store' = store \/ VoteWrite
    BY <1>2 DEF RecordVote, set_safety_data, VoteWrite, AboveLastVotedRound
  <1>3. ASSUME NEW r \in Rounds, NEW h, NEW out \in WriteOutcomes, NEW signed \in BOOLEAN,
               RecordTimeout(r, h, store, out, signed)
        PROVE  store' = store \/ TimeoutWrite
    BY <1>3 DEF RecordTimeout, set_safety_data, TimeoutWrite
  <1>4. ASSUME NEW b \in Blocks, NEW out \in WriteOutcomes, construct_and_sign_vote(b, out)
        PROVE  store' = store \/ VoteWrite
    <2>1. b \in Block /\ b.epoch = store.epoch
      BY <1>1, <1>4, SafetyRulesAssumption DEF construct_and_sign_vote, verify_proposal
    <2>2. QED
      BY <1>1, <1>2, <1>4, <2>1 DEF construct_and_sign_vote, ReturnLastVote, durable
  <1>5. ASSUME NEW b \in Blocks, NEW tc \in TimeoutCerts, NEW out \in WriteOutcomes,
               construct_and_sign_vote_two_chain(b, tc, out)
        PROVE  store' = store \/ VoteWrite
    <2>1. b \in Block /\ b.epoch = store.epoch
      BY <1>1, <1>5, SafetyRulesAssumption DEF construct_and_sign_vote_two_chain, verify_proposal
    <2>2. QED
      BY <1>1, <1>2, <1>5, <2>1 DEF construct_and_sign_vote_two_chain, ReturnLastVote, durable
  <1>6. ASSUME NEW e \in Epochs, NEW r \in PlainTimeouts, NEW out \in WriteOutcomes,
               NEW signed \in BOOLEAN, sign_timeout(e, r, out, signed)
        PROVE  store' = store \/ TimeoutWrite
    BY <1>1, <1>3, <1>6, SafetyRulesAssumption DEF sign_timeout
  <1>7. ASSUME NEW e \in Epochs, NEW t \in QcTimeouts, NEW tc \in TimeoutCerts,
               NEW out \in WriteOutcomes, NEW signed \in BOOLEAN,
               sign_timeout_with_qc(e, t.round, t.hqc, tc, out, signed)
        PROVE  store' = store \/ TimeoutWrite
    <2>1. t.round \in Rounds
      BY SafetyRulesAssumption DEF TimeoutCert
    <2>2. QED
      BY <1>1, <1>3, <1>7, <2>1 DEF sign_timeout_with_qc
  <1>8. ASSUME NEW e \in Epochs, NEW out \in WriteOutcomes, initialize(e, out)
        PROVE  store' = store \/ EpochWrite
    BY <1>1, <1>8 DEF initialize, set_safety_data, EpochWrite, durable
  <1>9. ASSUME NEW b \in Proposals, sign_proposal(b)
        PROVE  store' = store
    BY <1>9 DEF sign_proposal, durable
  <1>10. ASSUME NEW e \in Epochs, NEW out \in StoreFaults, initialize_fails_at_waypoint(e, out)
         PROVE  store' = store
    BY <1>10 DEF initialize_fails_at_waypoint
  <1>11. ASSUME NEW e \in Epochs, initialize_crashes_between_writes(e)
         PROVE  store' = store
    BY <1>11 DEF initialize_crashes_between_writes
  <1>12. CASE ReadOnlyCall \/ Restart \/ UNCHANGED vars
    BY <1>12 DEF ReadOnlyCall, Restart, durable, vars
  <1>13. QED
    BY <1>4, <1>5, <1>6, <1>7, <1>8, <1>9, <1>10, <1>11, <1>12 DEF Next

\* What a vote write does to the rounds.
LEMMA VoteWriteRaises ==
    ASSUME IInv, NEW b \in Block, NEW rule \in {"3chain", "2chain"},
           b.round > store.last_voted_round,
           store' = Voted(b, store, MakeVote(b, rule))
    PROVE  /\ store'.epoch = store.epoch
           /\ store'.last_voted_round = b.round
           /\ store'.preferred_round >= store.preferred_round
           /\ store'.one_chain_round >= store.one_chain_round
           /\ store'.last_vote # None
           /\ store'.last_vote.round = b.round
  <1>1. store \in SafetyData /\ MakeVote(b, rule) \in Vote /\ MakeVote(b, rule).round = b.round
    BY MakeVoteType DEF IInv, TypeOK
  <1>2. /\ store'.epoch = store.epoch
        /\ store'.last_voted_round = b.round
        /\ store'.last_vote = MakeVote(b, rule)
        /\ store'.one_chain_round = max(store.one_chain_round, b.qc1)
        /\ store'.preferred_round = max(store.preferred_round, b.qc0)
    <2>1. /\ Voted(b, store, MakeVote(b, rule)).epoch = store.epoch
          /\ Voted(b, store, MakeVote(b, rule)).last_voted_round = b.round
          /\ Voted(b, store, MakeVote(b, rule)).last_vote = MakeVote(b, rule)
          /\ Voted(b, store, MakeVote(b, rule)).one_chain_round = max(store.one_chain_round, b.qc1)
          /\ Voted(b, store, MakeVote(b, rule)).preferred_round = max(store.preferred_round, b.qc0)
      BY <1>1, ObserveType, Zenon
    <2>2. QED
      BY <2>1, Zenon
  <1>3. QED
    BY <1>1, <1>2, SafetyRulesAssumption DEF max, SafetyData, Block, Rounds

\* The rounds on disk only grow within an epoch, and epochs only grow.
THEOREM DurableDataGrows == ASSUME ~TestConfig PROVE Spec => DurableProgress
  <1>1. ASSUME IInv, [Next]_vars
        PROVE  [DurableStep]_vars
    <2>1. store \in SafetyData
      BY <1>1 DEF IInv, TypeOK
    <2>2. CASE store' = store
      BY <2>1, <2>2 DEF DurableStep, SafetyData, Epochs, Rounds
    <2>3. CASE VoteWrite
      <3>1. PICK b \in Block, rule \in {"3chain", "2chain"} :
                /\ b.round > store.last_voted_round
                /\ store' = Voted(b, store, MakeVote(b, rule))
        BY <2>3 DEF VoteWrite
      <3>2. /\ store'.epoch = store.epoch
            /\ store'.last_voted_round = b.round
            /\ store'.preferred_round >= store.preferred_round
            /\ store'.one_chain_round >= store.one_chain_round
            /\ store'.last_vote # None
            /\ store'.last_vote.round = b.round
        BY <1>1, <3>1, VoteWriteRaises
      <3>3. store'.last_voted_round >= store.last_voted_round
        BY <2>1, <3>1, <3>2 DEF SafetyData, Block, Rounds
      <3>4. store.last_vote # None => store'.last_vote.round > store.last_vote.round
        <4>1. store.last_vote # None => /\ store.last_vote \in Vote
                                        /\ store.last_vote.round <= store.last_voted_round
          BY <1>1, <2>1 DEF IInv, LastVoteCovered, SafetyData
        <4>2. QED
          BY <2>1, <3>1, <3>2, <4>1, SafetyRulesAssumption DEF SafetyData, Vote, Block, Rounds
      <3>5. QED
        BY <3>2, <3>3, <3>4 DEF DurableStep
    <2>4. CASE TimeoutWrite
      BY <2>1, <2>4 DEF TimeoutWrite, DurableStep, SafetyData, Epochs, Rounds
    <2>5. CASE EpochWrite
      BY <2>1, <2>5 DEF EpochWrite, DurableStep, FreshData, SafetyData, Epochs
    <2>6. QED
      BY <1>1, <2>2, <2>3, <2>4, <2>5, StoreWrites
  <1>2. QED
    BY <1>1, Inductive, PTL DEF Spec, DurableProgress

\* No vote is recorded for a round at or below a timeout already signed.
THEOREM TimeoutsEndVoting == ASSUME ~TestConfig PROVE Spec => TimeoutEndsVoting
  <1>1. ASSUME IInv, [Next]_vars
        PROVE  [NewVoteAboveTimeouts]_vars
    <2>1. store \in SafetyData /\ timeouts \subseteq Timeout
      BY <1>1 DEF IInv, TypeOK
    <2>2. CASE store' = store
      BY <2>2 DEF NewVoteAboveTimeouts
    <2>3. CASE VoteWrite
      <3>1. PICK b \in Block, rule \in {"3chain", "2chain"} :
                /\ b.round > store.last_voted_round
                /\ store' = Voted(b, store, MakeVote(b, rule))
        BY <2>3 DEF VoteWrite
      <3>2. store'.epoch = store.epoch /\ store'.last_vote.round = b.round
        BY <1>1, <3>1, VoteWriteRaises
      <3>3. \A t \in timeouts : t.epoch = store.epoch => t.round <= store.last_voted_round
        BY <1>1 DEF IInv, TimeoutsCovered
      <3>4. QED
        BY <2>1, <3>1, <3>2, <3>3 DEF NewVoteAboveTimeouts, SafetyData, Timeout, Block, Rounds
    <2>4. CASE TimeoutWrite
      BY <2>1, <2>4 DEF TimeoutWrite, NewVoteAboveTimeouts, SafetyData
    <2>5. CASE EpochWrite
      BY <2>5 DEF EpochWrite, NewVoteAboveTimeouts, FreshData
    <2>6. QED
      BY <1>1, <2>2, <2>3, <2>4, <2>5, StoreWrites
  <1>2. QED
    BY <1>1, Inductive, PTL DEF Spec, TimeoutEndsVoting

\* The order of the writes in guarded_initialize: under any fault or crash the
\* waypoint stays at or above the epoch on disk and the epoch being verified.
THEOREM WaypointStaysAhead == ASSUME ~TestConfig PROVE Spec => []WaypointLeads
  <1>1. ASSUME Init PROVE WaypointLeads
    BY <1>1 DEF Init, FreshData, WaypointLeads
  <1>2. ASSUME TypeOK, CacheIsCopy, WaypointLeads, TypeOK', [Next]_vars
        PROVE  WaypointLeads'
    <2>1. /\ store.epoch \in Int /\ store'.epoch \in Int /\ waypoint \in Int /\ waypoint' \in Int
          /\ epoch_state \in Int /\ epoch_state' \in Int
      BY <1>2, SMTT(30) DEF TypeOK, SafetyData, Epochs
    <2>2. safety_data = store
      BY <1>2, ReadsStore
    <2>3. CASE UNCHANGED <<store, waypoint>> /\ (epoch_state' = epoch_state \/ epoch_state' = 0)
      BY <1>2, <2>1, <2>3 DEF WaypointLeads, TypeOK, Epochs
    <2>4. CASE UNCHANGED <<waypoint, epoch_state>> /\ store'.epoch = store.epoch
      BY <1>2, <2>4 DEF WaypointLeads
    <2>5. ASSUME NEW e \in Epochs, NEW out \in WriteOutcomes, initialize(e, out)
          PROVE  WaypointLeads'
      BY <1>2, <2>1, <2>2, <2>5
         DEF initialize, set_safety_data, InstallEpoch, FreshData, durable, session, WaypointLeads, Epochs
    <2>6. ASSUME NEW e \in Epochs, NEW out \in StoreFaults, initialize_fails_at_waypoint(e, out)
          PROVE  WaypointLeads'
      BY <1>2, <2>1, <2>2, <2>6 DEF initialize_fails_at_waypoint, session, WaypointLeads, Epochs
    <2>7. ASSUME NEW e \in Epochs, initialize_crashes_between_writes(e)
          PROVE  WaypointLeads'
      BY <1>2, <2>1, <2>2, <2>7
         DEF initialize_crashes_between_writes, NewProcess, WaypointLeads, TypeOK, Epochs
    <2>8. ASSUME NEW b \in Blocks, NEW rule \in {"3chain", "2chain"}, NEW out \in WriteOutcomes,
                 ReturnLastVote(store) \/ RecordVote(b, rule, store, out)
          PROVE  WaypointLeads'
      <3>1. UNCHANGED <<waypoint, epoch_state>>
        BY <2>8 DEF ReturnLastVote, RecordVote, durable, session
      <3>2. store'.epoch = store.epoch
        <4>1. CASE store' = store
          BY <4>1
        <4>2. CASE store' = Voted(b, store, MakeVote(b, rule))
          <5>1. store \in SafetyData /\ b \in Block /\ MakeVote(b, rule) \in Vote
            BY <1>2, MakeVoteType, SafetyRulesAssumption DEF TypeOK
          <5>2. QED
            BY <4>2, <5>1, ObserveType, Zenon
        <4>3. QED
          BY <2>8, <4>1, <4>2 DEF ReturnLastVote, RecordVote, set_safety_data, durable
      <3>3. QED
        BY <2>4, <3>1, <3>2
    <2>9. ASSUME NEW r, NEW h, NEW out \in WriteOutcomes, NEW signed \in BOOLEAN,
                 RecordTimeout(r, h, store, out, signed)
          PROVE  WaypointLeads'
      <3>1. UNCHANGED <<waypoint, epoch_state>>
        BY <2>9 DEF RecordTimeout, session
      <3>2. store' = store \/ store' = [store EXCEPT !.last_voted_round = r]
        BY <2>9 DEF RecordTimeout, set_safety_data
      <3>3. QED
        BY <1>2, <2>4, <3>1, <3>2 DEF TypeOK, SafetyData
    <2>10. ASSUME NEW b \in Blocks, NEW out \in WriteOutcomes, construct_and_sign_vote(b, out)
           PROVE  WaypointLeads'
      BY <2>2, <2>8, <2>10 DEF construct_and_sign_vote
    <2>11. ASSUME NEW b \in Blocks, NEW tc \in TimeoutCerts, NEW out \in WriteOutcomes,
                  construct_and_sign_vote_two_chain(b, tc, out)
           PROVE  WaypointLeads'
      BY <2>2, <2>8, <2>11 DEF construct_and_sign_vote_two_chain
    <2>12. ASSUME NEW e \in Epochs, NEW r \in PlainTimeouts, NEW out \in WriteOutcomes,
                  NEW signed \in BOOLEAN, sign_timeout(e, r, out, signed)
           PROVE  WaypointLeads'
      BY <2>2, <2>9, <2>12 DEF sign_timeout
    <2>13. ASSUME NEW e \in Epochs, NEW t \in QcTimeouts, NEW tc \in TimeoutCerts,
                  NEW out \in WriteOutcomes, NEW signed \in BOOLEAN,
                  sign_timeout_with_qc(e, t.round, t.hqc, tc, out, signed)
           PROVE  WaypointLeads'
      BY <2>2, <2>9, <2>13 DEF sign_timeout_with_qc
    <2>14. ASSUME NEW b \in Proposals, sign_proposal(b)
           PROVE  WaypointLeads'
      BY <2>3, <2>14 DEF sign_proposal, durable, session
    <2>15. CASE ReadOnlyCall \/ Restart \/ UNCHANGED vars
      BY <2>3, <2>15 DEF ReadOnlyCall, Restart, NewProcess, durable, session, vars
    <2>16. QED
      BY <1>2, <2>5, <2>6, <2>7, <2>10, <2>11, <2>12, <2>13, <2>14, <2>15 DEF Next
  <1>3. IInv => TypeOK /\ CacheIsCopy
    BY DEF IInv
  <1>4. QED
    BY <1>1, <1>2, <1>3, Inductive, PTL DEF Spec

-----------------------------------------------------------------------------
(***************************************************************************)
(* SafetyRules implements AtomicVoter.                                     *)
(***************************************************************************)

\* The rules are the same operators on both sides.
LEMMA SameRules ==
    ASSUME NEW b, NEW sd, NEW v, NEW rule, NEW tc, NEW e, NEW r, NEW h
    PROVE  /\ Atomic!Voted(b, sd, v) = Voted(b, sd, v)
           /\ Atomic!MakeVote(b, rule) = MakeVote(b, rule)
           /\ Atomic!FreshData(e) = FreshData(e)
           /\ Atomic!WellFormed(b) <=> WellFormed(b)
           /\ Atomic!AlreadyVoted(b, sd) <=> AlreadyVoted(b, sd)
           /\ Atomic!SafeForPreferredRound(b, sd) <=> SafeForPreferredRound(b, sd)
           /\ Atomic!AboveLastVotedRound(r, sd) <=> AboveLastVotedRound(r, sd)
           /\ Atomic!safe_to_vote(b, tc) <=> safe_to_vote(b, tc)
           /\ Atomic!safe_to_timeout(r, h, tc, sd) <=> safe_to_timeout(r, h, tc, sd)
  <1>1. Atomic!Voted(b, sd, v) = Voted(b, sd, v)
    BY Zenon DEF Atomic!Voted, Voted, Atomic!observe_qc, observe_qc, Atomic!max, max
  <1>2. Atomic!MakeVote(b, rule) = MakeVote(b, rule)
    BY Zenon DEF Atomic!MakeVote, MakeVote, Atomic!construct_ledger_info, construct_ledger_info,
           Atomic!construct_ledger_info_2chain, construct_ledger_info_2chain, Atomic!NoCommit, NoCommit
  <1>3. Atomic!FreshData(e) = FreshData(e)
    BY Zenon DEF Atomic!FreshData, FreshData
  <1>4. /\ Atomic!WellFormed(b) <=> WellFormed(b)
        /\ Atomic!AlreadyVoted(b, sd) <=> AlreadyVoted(b, sd)
        /\ Atomic!SafeForPreferredRound(b, sd) <=> SafeForPreferredRound(b, sd)
        /\ Atomic!AboveLastVotedRound(r, sd) <=> AboveLastVotedRound(r, sd)
    BY Zenon DEF Atomic!WellFormed, WellFormed, Atomic!AlreadyVoted, AlreadyVoted,
           Atomic!SafeForPreferredRound, SafeForPreferredRound,
           Atomic!AboveLastVotedRound, AboveLastVotedRound
  <1>5. /\ Atomic!safe_to_vote(b, tc) <=> safe_to_vote(b, tc)
        /\ Atomic!safe_to_timeout(r, h, tc, sd) <=> safe_to_timeout(r, h, tc, sd)
    BY Zenon DEF Atomic!safe_to_vote, safe_to_vote, Atomic!safe_to_timeout, safe_to_timeout,
           Atomic!HasNextRound, HasNextRound
  <1>6. QED
    BY <1>1, <1>2, <1>3, <1>4, <1>5

\* Recording a vote is a Vote step of the abstract voter, or no step at all when
\* the write was lost.
LEMMA RecordVoteIsAtomic ==
    ASSUME IInv, NEW b \in Blocks, NEW rule \in {"3chain", "2chain"}, NEW out \in WriteOutcomes,
           b.epoch = store.epoch, WellFormed(b), ~AlreadyVoted(b, store),
           AboveLastVotedRound(b.round, store),
           \/ rule = "3chain" /\ SafeForPreferredRound(b, store)
           \/ rule = "2chain" /\ \E tc \in TimeoutCerts : safe_to_vote(b, tc),
           RecordVote(b, rule, store, out)
    PROVE  Atomic!Vote(b, rule) \/ UNCHANGED <<store, votes, timeouts>>
  <1> DEFINE vote == MakeVote(b, rule)
  <1>1. /\ store' = store \/ store' = Voted(b, store, vote)
        /\ store' = store => votes' = votes \/ store' = Voted(b, store, vote)
        /\ votes' \in {votes, votes \cup {vote}}
        /\ timeouts' = timeouts
    BY DEF RecordVote, set_safety_data
  <1>2. Atomic!MayVote(b, rule)
    BY SameRules DEF Atomic!MayVote
  <1>3. CASE store' = Voted(b, store, vote)
    BY <1>1, <1>2, <1>3, SameRules DEF Atomic!Vote
  <1>4. CASE store' # Voted(b, store, vote)
    BY <1>1, <1>4
  <1>5. QED
    BY <1>3, <1>4

\* Signing a timeout is a SignTimeout step of the abstract voter, or no step.
LEMMA RecordTimeoutIsAtomic ==
    ASSUME IInv, NEW r \in Rounds, NEW h, NEW out \in WriteOutcomes, NEW signed \in BOOLEAN,
           RecordTimeout(r, h, store, out, signed)
    PROVE  Atomic!SignTimeout(r, h) \/ UNCHANGED <<store, votes, timeouts>>
  <1> DEFINE t == [epoch |-> store.epoch, round |-> r, hqc |-> h]
  <1>1. store \in SafetyData /\ store.last_voted_round \in Rounds
    BY DEF IInv, TypeOK, SafetyData
  <1>2. votes' = votes /\ timeouts' \in {timeouts, timeouts \cup {t}}
    BY DEF RecordTimeout
  <1>3. r >= store.last_voted_round
    BY <1>1 DEF RecordTimeout, Rounds
  <1>4. CASE store' = [store EXCEPT !.last_voted_round = r]
    BY <1>2, <1>3, <1>4 DEF Atomic!SignTimeout
  <1>5. CASE store' # [store EXCEPT !.last_voted_round = r]
    <2>1. [store EXCEPT !.last_voted_round = store.last_voted_round] = store
      BY <1>1 DEF SafetyData
    <2>2. store' = store /\ timeouts' = timeouts
      BY <1>5, <2>1 DEF RecordTimeout, set_safety_data
    <2>3. QED
      BY <1>2, <2>2
  <1>6. QED
    BY <1>4, <1>5

\* Every step of SafetyRules is a step of AtomicVoter on the stored data, or
\* leaves what AtomicVoter sees unchanged.
LEMMA StepIsAtomic ==
    ASSUME IInv, [Next]_vars
    PROVE  [Atomic!Next]_(Atomic!vars)
  <1> USE DEF Atomic!vars
  <1>1. safety_data = store
    BY ReadsStore DEF IInv
  <1>2. ASSUME store.last_vote # None, ReturnLastVote(store)
        PROVE  Atomic!Next
    BY <1>2 DEF ReturnLastVote, durable, Atomic!ResendVote, Atomic!Next
  <1>3. ASSUME NEW b \in Blocks, NEW out \in WriteOutcomes, construct_and_sign_vote(b, out)
        PROVE  [Atomic!Next]_(Atomic!vars)
    <2>1. b.epoch = store.epoch /\ WellFormed(b)
      BY <1>1, <1>3 DEF construct_and_sign_vote, verify_proposal
    <2>2. CASE AlreadyVoted(b, store) /\ ReturnLastVote(store)
      BY <1>2, <2>2 DEF AlreadyVoted
    <2>3. CASE /\ ~AlreadyVoted(b, store)
               /\ SafeForPreferredRound(b, store)
               /\ AboveLastVotedRound(b.round, store)
               /\ RecordVote(b, "3chain", store, out)
      BY <2>1, <2>3, RecordVoteIsAtomic DEF Atomic!Next
    <2>4. QED
      BY <1>1, <1>3, <2>2, <2>3 DEF construct_and_sign_vote
  <1>4. ASSUME NEW b \in Blocks, NEW tc \in TimeoutCerts, NEW out \in WriteOutcomes,
               construct_and_sign_vote_two_chain(b, tc, out)
        PROVE  [Atomic!Next]_(Atomic!vars)
    <2>1. b.epoch = store.epoch /\ WellFormed(b)
      BY <1>1, <1>4 DEF construct_and_sign_vote_two_chain, verify_proposal
    <2>2. CASE AlreadyVoted(b, store) /\ ReturnLastVote(store)
      BY <1>2, <2>2 DEF AlreadyVoted
    <2>3. CASE /\ ~AlreadyVoted(b, store)
               /\ AboveLastVotedRound(b.round, store)
               /\ safe_to_vote(b, tc)
               /\ RecordVote(b, "2chain", store, out)
      BY <2>1, <2>3, RecordVoteIsAtomic DEF Atomic!Next
    <2>4. QED
      BY <1>1, <1>4, <2>2, <2>3 DEF construct_and_sign_vote_two_chain
  <1>5. ASSUME NEW e \in Epochs, NEW r \in PlainTimeouts, NEW out \in WriteOutcomes,
               NEW signed \in BOOLEAN, sign_timeout(e, r, out, signed)
        PROVE  [Atomic!Next]_(Atomic!vars)
    <2>1. r > store.preferred_round /\ RecordTimeout(r, NoHqc, store, out, signed)
      BY <1>1, <1>5 DEF sign_timeout
    <2>2. Atomic!SignTimeout(r, NoHqc) \/ UNCHANGED <<store, votes, timeouts>>
      BY <2>1, RecordTimeoutIsAtomic, SafetyRulesAssumption
    <2>3. QED
      BY <2>1, <2>2 DEF Atomic!PlainTimeout, Atomic!Next
  <1>6. ASSUME NEW e \in Epochs, NEW t \in QcTimeouts, NEW tc \in TimeoutCerts,
               NEW out \in WriteOutcomes, NEW signed \in BOOLEAN,
               sign_timeout_with_qc(e, t.round, t.hqc, tc, out, signed)
        PROVE  [Atomic!Next]_(Atomic!vars)
    <2>1. /\ safe_to_timeout(t.round, t.hqc, tc, store)
          /\ RecordTimeout(t.round, t.hqc, store, out, signed)
      BY <1>1, <1>6 DEF sign_timeout_with_qc
    <2>2. Atomic!SignTimeout(t.round, t.hqc) \/ UNCHANGED <<store, votes, timeouts>>
      BY <2>1, RecordTimeoutIsAtomic, SafetyRulesAssumption DEF TimeoutCert
    <2>3. QED
      BY <2>1, <2>2, SameRules DEF Atomic!TimeoutWithQc, Atomic!Next
  <1>7. ASSUME NEW e \in Epochs, NEW out \in WriteOutcomes, initialize(e, out)
        PROVE  [Atomic!Next]_(Atomic!vars)
    <2>1. store.epoch \in Nat /\ e \in Nat
      BY DEF IInv, TypeOK, SafetyData, Epochs
    <2>2. CASE store.epoch < e /\ store' = FreshData(e)
      BY <1>7, <2>1, <2>2, SameRules DEF initialize, history, Atomic!EnterEpoch, Atomic!Next
    <2>3. CASE store' = store
      BY <1>7, <2>3 DEF initialize, history
    <2>4. QED
      BY <1>1, <1>7, <2>2, <2>3 DEF initialize, set_safety_data, durable
  <1>8. ASSUME NEW b \in Proposals, sign_proposal(b)
        PROVE  UNCHANGED <<store, votes, timeouts>>
    BY <1>8 DEF sign_proposal, durable
  <1>9. ASSUME NEW e \in Epochs, NEW out \in StoreFaults, initialize_fails_at_waypoint(e, out)
        PROVE  UNCHANGED <<store, votes, timeouts>>
    BY <1>9 DEF initialize_fails_at_waypoint, history
  <1>10. ASSUME NEW e \in Epochs, initialize_crashes_between_writes(e)
         PROVE  UNCHANGED <<store, votes, timeouts>>
    BY <1>10 DEF initialize_crashes_between_writes, history
  <1>11. CASE ReadOnlyCall \/ Restart \/ UNCHANGED vars
    BY <1>11 DEF ReadOnlyCall, Restart, durable, history, vars
  <1>12. QED
    BY <1>3, <1>4, <1>5, <1>6, <1>7, <1>8, <1>9, <1>10, <1>11 DEF Next

\* SafetyRules with its cache, its faulty storage, its two-write epoch change and
\* its restarts implements the atomic voter (guarded_construct_and_sign_vote,
\* guarded_sign_timeout and guarded_initialize over PersistentSafetyStorage).
THEOREM ImplementsAtomicVoter == ASSUME ~TestConfig PROVE Spec => ActsAtomically
  <1>1. Init => Atomic!Init
    BY SameRules DEF Init, Atomic!Init
  <1>2. QED
    BY <1>1, StepIsAtomic, Inductive, PTL DEF Spec, ActsAtomically, Atomic!Spec
=============================================================================
