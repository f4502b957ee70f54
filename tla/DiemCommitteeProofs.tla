------------------------ MODULE DiemCommitteeProofs ------------------------
(***************************************************************************)
(* Proofs about DiemCommittee, for every committee, tree of blocks, number *)
(* of rounds, and choice of crashing validators and timers.                *)
(*                                                                         *)
(* The argument: a validator's signed votes respect the lock of the        *)
(* three-chain rule (VoterInv), its round follows from its certificates    *)
(* (PaceInv), and once a three-chain ends in a block c, a certified block  *)
(* of a later round extends the first of the three unless no quorum can    *)
(* certify c any more (LockInv).                                           *)
(***************************************************************************)
EXTENDS DiemCommittee, TLAPS

\* Every block v has signed a vote for, wherever that vote has got to: recorded
\* by SafetyRules, saved in the database, held in vote_sent, or sent.
Signed(v) ==
    votes[v] \cup ({saved[v], sent[v]} \ {None})
             \cup {b \in BlockIds : safety[v].last_vote # None /\ b = safety[v].last_vote.id}

GrandParent(b) == Parent(Parent(b))

\* The safety data covers every signed vote; votes respect rounds and locks.
VoterInv(v) ==
    /\ safety[v].last_vote = None => safety[v].last_voted_round = 0
    /\ safety[v].last_vote # None =>
          /\ safety[v].last_vote.round = safety[v].last_voted_round
          /\ RoundOf(safety[v].last_vote.id) = safety[v].last_voted_round
    /\ \A b \in Signed(v) :
          /\ RoundOf(b) > 0
          /\ RoundOf(b) <= safety[v].last_voted_round
          /\ RoundOf(GrandParent(b)) <= safety[v].preferred_round
          /\ Certified(Parent(b))
    /\ \A b, c \in Signed(v) :
          /\ RoundOf(b) = RoundOf(c) => b = c
          /\ RoundOf(b) < RoundOf(c) => RoundOf(Parent(c)) >= RoundOf(GrandParent(b))

\* The round is the one after the highest certificate, a vote held in vote_sent
\* is of that round, and nothing signed is ahead of it.
PaceInv(v) ==
    /\ round[v] = max(RoundOf(hqc[v]), htc[v]) + 1
    /\ safety[v].last_voted_round <= round[v]
    /\ safety[v].preferred_round <= RoundOf(hqc[v])
    /\ sent[v] # None => RoundOf(sent[v]) = round[v]
    /\ Certified(hqc[v])
    /\ \E q \in BlockIds : Certified(q) /\ root[v] = CommitInfo(q)

ThreeChain(c) == construct_ledger_info(Shape(c)) # NoCommit

\* Every quorum has an honest member that is past the round of c without a vote
\* for c, so c will never be certified.
Blocked(c) ==
    \A P \in HonestParts : \E w \in P :
        c \notin Signed(w) /\ safety[w].last_voted_round >= RoundOf(c)

LockInv ==
    \A b, c \in BlockIds :
        Certified(b) /\ ThreeChain(c) /\ RoundOf(b) > RoundOf(c) =>
            Extends(b, GrandParent(c)) \/ Blocked(c)

IInv ==
    /\ TypeOK
    /\ \A v \in Honest : VoterInv(v)
    /\ \A v \in Honest : PaceInv(v)
    /\ LockInv

-----------------------------------------------------------------------------
(***************************************************************************)
(* The tree, the quorums and the voting rules                              *)
(***************************************************************************)

\* The order of rounds, in the forms the steps below need.
LEMMA Order ==
  /\ Nat \subseteq Int
  /\ \A i \in Int : i <= i /\ i >= i
  /\ \A i, j \in Int : i > j => i >= j /\ j <= i /\ j < i /\ i # j
  /\ \A i, j \in Int : ~(i > j) => j >= i
  /\ \A i, j \in Int : i >= j /\ ~(i > j) => i = j
  /\ \A i, j, k \in Int : i > j /\ j >= k => i > k
  /\ \A i, j, k \in Int : i > j /\ k <= j => i > k
  /\ \A i, j, k \in Int : i >= j /\ i <= k => k >= j
  /\ \A i, j, k \in Int : i <= j /\ k >= j => i <= k /\ k >= i
  OBVIOUS

LEMMA TreeFacts ==
  ASSUME NEW b \in BlockIds
  PROVE  /\ RoundOf(b) \in Nat
         /\ RoundOf(b) \in Int
         /\ RoundOf(b) \in Rounds
         /\ Parent(b) \in BlockIds
         /\ GrandParent(b) \in BlockIds
         /\ RoundOf(b) = 0 => b = Genesis
         /\ b # Genesis => RoundOf(Parent(b)) < RoundOf(b)
         /\ RoundOf(Parent(b)) <= RoundOf(b)
         /\ b \in Ancestors(b)
         /\ Ancestors(Parent(b)) \subseteq Ancestors(b)
         /\ b # None
  BY CommitteeAssumption DEF GrandParent, Rounds

LEMMA PartsMeet ==
  ASSUME NEW P \in HonestParts, NEW Q \in HonestParts
  PROVE  /\ P \subseteq Honest
         /\ \E w \in Honest : w \in P /\ w \in Q
  BY CommitteeAssumption DEF HonestParts

LEMMA SignedType ==
  ASSUME TypeOK, NEW v \in Honest
  PROVE  /\ Signed(v) \subseteq BlockIds
         /\ votes[v] \subseteq Signed(v)
         /\ safety[v] \in SafetyData
  BY DEF TypeOK, Signed

LEMMA SafetyTypes ==
  ASSUME NEW sd \in SafetyData
  PROVE  sd.last_voted_round \in Nat /\ sd.preferred_round \in Nat
  BY DEF SafetyData, Rounds

LEMMA PaceTypes ==
  ASSUME TypeOK, NEW v \in Honest
  PROVE  /\ safety[v].last_voted_round \in Nat /\ safety[v].preferred_round \in Nat
         /\ round[v] \in Nat /\ htc[v] \in Nat /\ RoundOf(hqc[v]) \in Nat
  <1>1. safety[v] \in SafetyData /\ hqc[v] \in BlockIds
    BY DEF TypeOK
  <1>2. round[v] \in Nat /\ htc[v] \in Nat
    BY CommitteeAssumption DEF TypeOK, Rounds
  <1>3. QED
    BY <1>1, <1>2, SafetyTypes, TreeFacts

\* What add_certs does to the certificates, the root and the round.
LEMMA AddCertsFacts ==
  ASSUME TypeOK, NEW v \in Honest, PaceInv(v), NEW q \in BlockIds, NEW t \in Rounds,
         AddCerts(v, q, t)
  PROVE  /\ hqc' \in [Honest -> BlockIds] /\ htc' \in [Honest -> Rounds]
         /\ root' \in [Honest -> BlockIds] /\ round' \in [Honest -> 1 .. MaxRound + 1]
         /\ \A w \in Honest \ {v} : /\ hqc'[w] = hqc[w] /\ htc'[w] = htc[w]
                                    /\ root'[w] = root[w] /\ round'[w] = round[w]
         /\ hqc'[v] \in {hqc[v], q}
         /\ root'[v] \in {root[v], CommitInfo(q)}
         /\ root'[v] = root[v] \/ RoundOf(root'[v]) > RoundOf(root[v])
         /\ RoundOf(hqc'[v]) >= RoundOf(q) /\ RoundOf(hqc'[v]) >= RoundOf(hqc[v])
         /\ round'[v] = max(RoundOf(hqc'[v]), htc'[v]) + 1
         /\ round'[v] >= round[v]
  <1>1. CommitInfo(q) \in BlockIds
    BY TreeFacts, CommitteeAssumption DEF CommitInfo, GrandParent
  <1>2. /\ hqc[v] \in BlockIds /\ RoundOf(hqc[v]) \in Rounds /\ htc[v] \in Rounds
        /\ round[v] \in 1 .. MaxRound + 1 /\ root[v] \in BlockIds /\ RoundOf(q) \in Rounds
    BY TreeFacts DEF TypeOK
  <1>3. /\ hqc'[v] = IF RoundOf(q) > RoundOf(hqc[v]) THEN q ELSE hqc[v]
        /\ htc'[v] = max(htc[v], t)
        /\ root'[v] = IF RoundOf(CommitInfo(q)) > RoundOf(root[v]) THEN CommitInfo(q) ELSE root[v]
        /\ round'[v] = max(round[v], max(RoundOf(hqc'[v]), htc'[v]) + 1)
    BY DEF AddCerts, TypeOK
  <1>4. htc'[v] \in Rounds /\ htc'[v] >= htc[v]
    BY <1>2, <1>3, CommitteeAssumption DEF max, Rounds
  <1>5. /\ RoundOf(hqc'[v]) \in Rounds /\ RoundOf(hqc'[v]) >= RoundOf(q)
        /\ RoundOf(hqc'[v]) >= RoundOf(hqc[v])
    <2>1. hqc'[v] \in {q, hqc[v]}
      BY <1>3
    <2>2. RoundOf(q) \in Nat /\ RoundOf(hqc[v]) \in Nat
      BY <1>2, TreeFacts
    <2>3. QED
      BY <1>2, <1>3, <2>1, <2>2, Order
  <1>6. round[v] = max(RoundOf(hqc[v]), htc[v]) + 1
    BY DEF PaceInv
  <1>7. /\ round'[v] = max(RoundOf(hqc'[v]), htc'[v]) + 1 /\ round'[v] \in 1 .. MaxRound + 1
        /\ round'[v] >= round[v]
    <2> DEFINE h == RoundOf(hqc[v])
               k == RoundOf(hqc'[v])
               r == round'[v]
    <2>1. h \in 0 .. MaxRound /\ k \in 0 .. MaxRound /\ k >= h
      BY <1>2, <1>5 DEF Rounds
    <2>2. htc[v] \in 0 .. MaxRound /\ htc'[v] \in 0 .. MaxRound /\ htc'[v] >= htc[v]
      BY <1>2, <1>4 DEF Rounds
    <2>3. round[v] = max(h, htc[v]) + 1 /\ r = max(round[v], max(k, htc'[v]) + 1)
      BY <1>3, <1>6
    <2>4. MaxRound \in Nat
      BY CommitteeAssumption
    <2> HIDE DEF h, k, r
    <2>5. r = max(k, htc'[v]) + 1 /\ r \in 1 .. MaxRound + 1 /\ r >= round[v]
      BY <2>1, <2>2, <2>3, <2>4 DEF max
    <2>6. QED
      BY <2>5 DEF k, r
  <1>8. /\ hqc' = [hqc EXCEPT ![v] = hqc'[v]] /\ htc' = [htc EXCEPT ![v] = htc'[v]]
        /\ root' = [root EXCEPT ![v] = root'[v]] /\ round' = [round EXCEPT ![v] = round'[v]]
    BY <1>3 DEF AddCerts, TypeOK
  <1>9. hqc'[v] \in {hqc[v], q} /\ root'[v] \in {root[v], CommitInfo(q)}
    BY <1>3
  <1>10. root'[v] = root[v] \/ RoundOf(root'[v]) > RoundOf(root[v])
    BY <1>3
  <1>11. /\ hqc' \in [Honest -> BlockIds] /\ htc' \in [Honest -> Rounds]
         /\ root' \in [Honest -> BlockIds] /\ round' \in [Honest -> 1 .. MaxRound + 1]
         /\ \A w \in Honest \ {v} : /\ hqc'[w] = hqc[w] /\ htc'[w] = htc[w]
                                    /\ root'[w] = root[w] /\ round'[w] = round[w]
    BY <1>1, <1>2, <1>4, <1>7, <1>8, <1>9 DEF TypeOK
  <1>12. QED
    BY <1>5, <1>7, <1>9, <1>10, <1>11

\* A validator whose round is the one after its highest certificate can time out of it.
LEMMA PaceAllowsTimeout == IInv => CanAlwaysTimeOut
  <1> SUFFICES ASSUME IInv, NEW v \in Honest
               PROVE  /\ round[v] > safety[v].preferred_round
                      /\ round[v] >= safety[v].last_voted_round
                      /\ RoundOf(hqc[v]) >= safety[v].preferred_round
                      /\ safety[v].last_voted_round = round[v] =>
                            safety[v].last_vote # None /\ safety[v].last_vote.round = round[v]
    BY DEF CanAlwaysTimeOut
  <1>1. /\ PaceInv(v) /\ VoterInv(v) /\ safety[v] \in SafetyData
        /\ round[v] \in 1 .. MaxRound + 1 /\ RoundOf(hqc[v]) \in Nat /\ htc[v] \in Rounds
    BY TreeFacts DEF IInv, TypeOK
  <1>2. /\ round[v] \in Int /\ htc[v] \in Int
        /\ safety[v].preferred_round \in Int /\ safety[v].last_voted_round \in Int
    BY PaceTypes DEF IInv
  <1>3. round[v] > RoundOf(hqc[v])
    BY <1>1, <1>2 DEF PaceInv, max
  <1>4. /\ RoundOf(hqc[v]) >= safety[v].preferred_round
        /\ round[v] >= safety[v].last_voted_round
    BY <1>1, <1>2 DEF PaceInv
  <1>5. round[v] > 0 /\ round[v] > safety[v].preferred_round
    BY <1>1, <1>2, <1>3, <1>4
  <1>6. safety[v].last_voted_round = round[v] =>
          safety[v].last_vote # None /\ safety[v].last_vote.round = round[v]
    BY <1>1, <1>2, <1>5 DEF VoterInv
  <1>7. QED
    BY <1>4, <1>5, <1>6

\* A certified block was signed by an honest validator.
LEMMA CertifiedSigned ==
  ASSUME TypeOK, NEW b \in BlockIds, Certified(b), b # Genesis
  PROVE  \E P \in HonestParts : P \subseteq Honest /\ P # {} /\ \A v \in P : b \in Signed(v)
  BY PartsMeet, SignedType DEF Certified

\* What a vote for block b makes of the safety data.
LEMMA VotedFacts ==
  ASSUME NEW sd \in SafetyData, NEW b \in BlockIds,
         NEW n, n = Voted(Shape(b), sd, MakeVote(Shape(b), "3chain"))
  PROVE  /\ n \in SafetyData
         /\ n.last_voted_round = RoundOf(b)
         /\ n.preferred_round = max(sd.preferred_round, RoundOf(GrandParent(b)))
         /\ n.last_vote # None
         /\ n.last_vote.id = b
         /\ n.last_vote.round = RoundOf(b)
  <1>1. /\ RoundOf(b) \in Rounds /\ RoundOf(Parent(b)) \in Rounds
        /\ RoundOf(GrandParent(b)) \in Rounds
    BY TreeFacts
  <1>2. MakeVote(Shape(b), "3chain") \in Vote
    BY <1>1 DEF MakeVote, Shape, Vote, construct_ledger_info, GrandParent
  <1>3. MakeVote(Shape(b), "3chain").id = b /\ MakeVote(Shape(b), "3chain").round = RoundOf(b)
    BY DEF MakeVote, Shape
  <1>4. MakeVote(Shape(b), "3chain") # None
    BY <1>2, CommitteeAssumption
  <1> DEFINE m == MakeVote(Shape(b), "3chain")
  <1> HIDE DEF m
  <1>5. /\ n = [sd EXCEPT !.one_chain_round = max(@, RoundOf(Parent(b))),
                          !.preferred_round = max(@, RoundOf(GrandParent(b))),
                          !.last_voted_round = RoundOf(b), !.last_vote = m]
    BY DEF Voted, observe_qc, Shape, GrandParent, SafetyData, m
  <1>6. /\ max(sd.one_chain_round, RoundOf(Parent(b))) \in Rounds
        /\ max(sd.preferred_round, RoundOf(GrandParent(b))) \in Rounds
    BY <1>1 DEF max, SafetyData
  <1>7. QED
    BY <1>1, <1>2, <1>3, <1>4, <1>5, <1>6 DEF SafetyData, m

-----------------------------------------------------------------------------
(***************************************************************************)
(* What a step can do to one validator: nothing it has not signed already  *)
(* appears, or its safety rules record one new vote.                       *)
(***************************************************************************)

Keeps(v) ==
    /\ safety'[v] = safety[v]
    /\ votes[v] \subseteq votes'[v]
    /\ Signed(v)' \subseteq Signed(v)

Records(v, b) ==
    /\ Certified(Parent(b))
    /\ RoundOf(b) > safety[v].last_voted_round
    /\ RoundOf(Parent(b)) >= safety[v].preferred_round
    /\ safety'[v] = Voted(Shape(b), safety[v], MakeVote(Shape(b), "3chain"))
    /\ votes[v] \subseteq votes'[v]
    /\ Signed(v)' \subseteq Signed(v) \cup {b}

LEMMA RecordsFacts ==
  ASSUME TypeOK, NEW v \in Honest, NEW b \in BlockIds, Records(v, b)
  PROVE  /\ safety'[v].last_voted_round = RoundOf(b)
         /\ safety'[v].preferred_round = max(safety[v].preferred_round, RoundOf(GrandParent(b)))
         /\ safety'[v].last_vote # None
         /\ safety'[v].last_vote.id = b /\ safety'[v].last_vote.round = RoundOf(b)
         /\ RoundOf(b) > safety[v].last_voted_round
         /\ RoundOf(Parent(b)) >= safety[v].preferred_round
         /\ safety'[v].preferred_round \in Nat
         /\ safety'[v].preferred_round >= safety[v].preferred_round
         /\ safety'[v].preferred_round >= RoundOf(GrandParent(b))
  <1>1. safety[v] \in SafetyData
    BY SignedType
  <1>2. /\ safety'[v].last_voted_round = RoundOf(b)
        /\ safety'[v].preferred_round = max(safety[v].preferred_round, RoundOf(GrandParent(b)))
        /\ safety'[v].last_vote # None
        /\ safety'[v].last_vote.id = b /\ safety'[v].last_vote.round = RoundOf(b)
    BY <1>1, VotedFacts DEF Records
  <1>3. safety[v].preferred_round \in Nat /\ RoundOf(GrandParent(b)) \in Nat
    BY <1>1, SafetyTypes, TreeFacts
  <1>4. /\ max(safety[v].preferred_round, RoundOf(GrandParent(b))) \in Nat
        /\ max(safety[v].preferred_round, RoundOf(GrandParent(b))) >= safety[v].preferred_round
        /\ max(safety[v].preferred_round, RoundOf(GrandParent(b))) >= RoundOf(GrandParent(b))
    BY <1>3 DEF max
  <1>5. QED
    BY <1>2, <1>4 DEF Records

\* A vote past the last voted round for a block on the lock keeps the votes one per
\* round and above each other's locks.
LEMMA RecordsKeepsLocks ==
  ASSUME TypeOK, NEW v \in Honest, VoterInv(v), NEW b \in BlockIds, Records(v, b)
  PROVE  \A c, d \in Signed(v)' :
            /\ RoundOf(c) = RoundOf(d) => c = d
            /\ RoundOf(c) < RoundOf(d) => RoundOf(Parent(d)) >= RoundOf(GrandParent(c))
  <1>1. /\ Signed(v) \subseteq BlockIds
        /\ safety[v].last_voted_round \in Nat /\ safety[v].preferred_round \in Nat
    BY SignedType, PaceTypes
  <1>2. /\ RoundOf(b) > safety[v].last_voted_round
        /\ RoundOf(Parent(b)) >= safety[v].preferred_round
        /\ Signed(v)' \subseteq Signed(v) \cup {b}
    BY DEF Records
  <1>3. /\ \A c \in Signed(v) : /\ RoundOf(c) <= safety[v].last_voted_round
                               /\ RoundOf(GrandParent(c)) <= safety[v].preferred_round
        /\ \A c, d \in Signed(v) :
              /\ RoundOf(c) = RoundOf(d) => c = d
              /\ RoundOf(c) < RoundOf(d) => RoundOf(Parent(d)) >= RoundOf(GrandParent(c))
    BY DEF VoterInv
  <1>4. /\ RoundOf(b) \in Nat /\ RoundOf(Parent(b)) \in Nat
        /\ \A c \in Signed(v) : RoundOf(c) \in Nat /\ RoundOf(GrandParent(c)) \in Nat
    BY <1>1, TreeFacts
  <1>5. \A c \in Signed(v) : /\ RoundOf(c) < RoundOf(b)
                            /\ RoundOf(Parent(b)) >= RoundOf(GrandParent(c))
    BY <1>1, <1>2, <1>3, <1>4
  <1>6. QED
    BY <1>2, <1>3, <1>4, <1>5

LEMMA VoteStep ==
  ASSUME TypeOK, NEW v \in Honest, NEW b \in BlockIds,
         Certified(Parent(b)), SignedVote(v, b) # None,
         safety'[v] = SafetyAfter(v, b),
         votes'[v] \in {votes[v], votes[v] \cup {SignedVote(v, b)}},
         saved'[v] \in {saved[v], SignedVote(v, b)},
         sent'[v] \in {saved'[v], SignedVote(v, b), None}
  PROVE  Keeps(v) \/ Records(v, b)
  <1>1. safety[v] \in SafetyData
    BY SignedType
  <1>2. CASE AlreadyVoted(Shape(b), safety[v])
    <2>1. safety'[v] = safety[v]
      BY <1>2 DEF SafetyAfter
    <2>2. SignedVote(v, b) = safety[v].last_vote.id /\ safety[v].last_vote # None
      BY <1>2 DEF SignedVote, AlreadyVoted
    <2>3. SignedVote(v, b) \in Signed(v)
      BY <1>1, <2>2 DEF Signed, SafetyData, Vote
    <2>4. Signed(v)' \subseteq Signed(v)
      BY <2>1, <2>2, <2>3 DEF Signed
    <2>5. QED
      BY <2>1, <2>4 DEF Keeps
  <1>3. CASE ~AlreadyVoted(Shape(b), safety[v])
    <2>1. /\ safety'[v] = Voted(Shape(b), safety[v], MakeVote(Shape(b), "3chain"))
          /\ SignedVote(v, b) = b
          /\ RoundOf(b) > safety[v].last_voted_round
          /\ RoundOf(Parent(b)) >= safety[v].preferred_round
      BY <1>3 DEF SafetyAfter, SignedVote, SafeForPreferredRound, AboveLastVotedRound, Shape
    <2>2. safety'[v].last_vote.id = b
      BY <1>1, <2>1, VotedFacts
    <2>3. Signed(v)' \subseteq Signed(v) \cup {b}
      BY <2>1, <2>2 DEF Signed
    <2>4. QED
      BY <2>1, <2>3 DEF Records
  <1>4. QED
    BY <1>2, <1>3

\* sign_timeout writes nothing when the vote of the round is recorded.
LEMMA TimeoutKeepsData ==
  ASSUME NEW sd \in SafetyData, NEW r, sd.last_voted_round = r
  PROVE  AfterTimeout(r, sd) = sd
  BY DEF AfterTimeout, SafetyData

LEMMA Classify ==
  ASSUME IInv, [Next]_vars, NEW w \in Honest
  PROVE  Keeps(w) \/ \E b \in BlockIds : Records(w, b)
  <1>a. TypeOK /\ \A v \in Honest : VoterInv(v) /\ PaceInv(v)
    BY DEF IInv
  <1> USE <1>a
  <1>1. CASE UNCHANGED vars
    BY <1>1 DEF vars, Keeps, Signed
  <1>2. ASSUME NEW v \in Honest, NEW q \in CertifiedBlocks, NEW t \in TimedOutRounds,
               process_sync_info(v, q, t)
        PROVE  Keeps(w)
    <2>1. /\ safety' = safety /\ votes' = votes /\ saved' = saved
          /\ sent'[w] \in {sent[w], None}
      BY <1>2 DEF process_sync_info, TypeOK, SentIn
    <2>2. QED
      BY <2>1 DEF Keeps, Signed
  <1>3. ASSUME NEW v \in Honest, NEW b \in BlockIds, NEW t \in TimedOutRounds,
               process_proposal_msg(v, b, t)
        PROVE  Keeps(w) \/ Records(w, b)
    <2>1. CASE w # v
      BY <1>3, <2>1 DEF process_proposal_msg, Keeps, Signed, TypeOK
    <2>2. CASE w = v
      <3>1. /\ Certified(Parent(b)) /\ SignedVote(v, b) # None
            /\ safety'[v] = SafetyAfter(v, b)
            /\ votes'[v] = votes[v] \cup {SignedVote(v, b)}
            /\ saved'[v] = SignedVote(v, b) /\ sent'[v] = SignedVote(v, b)
        BY <1>3 DEF process_proposal_msg, ProposalInRound, MayAskForVote, TypeOK
      <3>2. QED
        BY <2>2, <3>1, VoteStep
    <2>3. QED
      BY <2>1, <2>2
  <1>4. ASSUME NEW v \in Honest, NEW b \in BlockIds, NEW r, VoteThenCrash(v, b, r),
               Certified(Parent(b))
        PROVE  Keeps(w) \/ Records(w, b)
    <2>1. CASE w # v
      BY <1>4, <2>1 DEF VoteThenCrash, Keeps, Signed, TypeOK
    <2>2. CASE w = v
      <3>1. /\ SignedVote(v, b) # None
            /\ safety'[v] = SafetyAfter(v, b)
            /\ votes'[v] = votes[v]
            /\ saved'[v] \in {saved[v], SignedVote(v, b)}
            /\ sent'[v] \in {saved'[v], None}
        BY <1>4 DEF VoteThenCrash, MayAskForVote, SentOnStart, TypeOK
      <3>2. QED
        BY <1>4, <2>2, <3>1, VoteStep
    <2>3. QED
      BY <2>1, <2>2
  <1>5. ASSUME NEW v \in Honest, process_local_timeout(v)
        PROVE  Keeps(w) \/ \E b \in BlockIds : Records(w, b)
    <2>1. CASE w # v
      BY <1>5, <2>1 DEF process_local_timeout, Keeps, Signed, TypeOK
    <2>2. CASE w = v /\ sent[v] # None /\ safety' = [safety EXCEPT ![v] = AfterTimeout(round[v], @)]
               /\ votes' = [votes EXCEPT ![v] = @ \cup {sent[v]}] /\ UNCHANGED <<saved, sent>>
      <3>1. safety[v] \in SafetyData /\ sent[v] \in Signed(v) /\ RoundOf(sent[v]) = round[v]
        BY <2>2, SignedType DEF Signed, PaceInv
      <3>2. safety[v].last_voted_round = round[v]
        <4>1. /\ RoundOf(sent[v]) <= safety[v].last_voted_round
              /\ safety[v].last_voted_round <= round[v]
          BY <3>1 DEF VoterInv, PaceInv
        <4>2. round[v] \in Int /\ safety[v].last_voted_round \in Int
          BY <3>1 DEF TypeOK, SafetyData, Rounds
        <4>3. QED
          BY <3>1, <4>1, <4>2
      <3>3. safety'[v] = safety[v]
        BY <2>2, <3>1, <3>2, TimeoutKeepsData DEF TypeOK
      <3>4. votes'[v] = votes[v] \cup {sent[v]} /\ saved'[v] = saved[v] /\ sent'[v] = sent[v]
        BY <2>2 DEF TypeOK
      <3>5. QED
        BY <2>2, <3>1, <3>3, <3>4 DEF Keeps, Signed
    <2>3. ASSUME w = v, NEW b \in BlockIds, NilBlockFor(v, b), MayAskForVote(v, b, round[v]),
                 safety' = [safety EXCEPT ![v] = AfterTimeout(round[v], SafetyAfter(v, b))],
                 saved' = [saved EXCEPT ![v] = SignedVote(v, b)],
                 sent' = [sent EXCEPT ![v] = SignedVote(v, b)],
                 votes' = [votes EXCEPT ![v] = @ \cup {SignedVote(v, b)}]
          PROVE  Keeps(w) \/ Records(w, b)
      <3>1. safety[v] \in SafetyData /\ RoundOf(b) = round[v] /\ Certified(Parent(b))
        BY <2>3, SignedType DEF NilBlockFor, PaceInv
      <3>2. SafetyAfter(v, b) \in SafetyData /\ SafetyAfter(v, b).last_voted_round = round[v]
        <4>1. CASE AlreadyVoted(Shape(b), safety[v])
          <5>1. safety[v].last_vote # None /\ safety[v].last_vote.round = RoundOf(b)
            BY <4>1 DEF AlreadyVoted, Shape
          <5>2. safety[v].last_vote.round = safety[v].last_voted_round
            BY <5>1 DEF VoterInv
          <5>3. SafetyAfter(v, b) = safety[v]
            BY <4>1 DEF SafetyAfter
          <5>4. QED
            BY <3>1, <5>1, <5>2, <5>3
        <4>2. CASE ~AlreadyVoted(Shape(b), safety[v])
          BY <3>1, <4>2, VotedFacts DEF SafetyAfter
        <4>3. QED
          BY <4>1, <4>2
      <3>3. safety'[v] = SafetyAfter(v, b)
        BY <2>3, <3>2, TimeoutKeepsData DEF TypeOK
      <3>4. /\ SignedVote(v, b) # None
            /\ votes'[v] = votes[v] \cup {SignedVote(v, b)}
            /\ saved'[v] = SignedVote(v, b) /\ sent'[v] = SignedVote(v, b)
        BY <2>3 DEF MayAskForVote, TypeOK
      <3>5. QED
        BY <2>3, <3>1, <3>3, <3>4, VoteStep
    <2>4. QED
      BY <1>5, <2>1, <2>2, <2>3 DEF process_local_timeout
  <1>6. ASSUME NEW v \in Honest, Restart(v)
        PROVE  Keeps(w)
    BY <1>6 DEF Restart, SentOnStart, Keeps, Signed, TypeOK
  <1>7. ASSUME NEW v \in Honest, NEW b \in BlockIds, NEW t \in TimedOutRounds,
               process_proposal_msg_crashes(v, b, t)
        PROVE  Keeps(w) \/ Records(w, b)
    BY <1>4, <1>7 DEF process_proposal_msg_crashes, ProposalInRound
  <1>8. ASSUME NEW v \in Honest, NEW b \in BlockIds, process_local_timeout_crashes(v, b)
        PROVE  Keeps(w) \/ Records(w, b)
    BY <1>4, <1>8 DEF process_local_timeout_crashes, NilBlockFor, PaceInv
  <1>9. QED
    BY <1>1, <1>2, <1>3, <1>5, <1>6, <1>7, <1>8 DEF Next

\* Certificates stay.
LEMMA CertifiedGrows ==
  ASSUME IInv, [Next]_vars, NEW b, Certified(b)
  PROVE  Certified(b)'
  <1>1. \A w \in Honest : votes[w] \subseteq votes'[w]
    BY Classify DEF Keeps, Records
  <1>2. CASE b = Genesis
    BY <1>2 DEF Certified
  <1>3. ASSUME NEW P \in HonestParts, \A v \in P : b \in votes[v]
        PROVE  Certified(b)'
    <2>1. P \subseteq Honest
      BY PartsMeet
    <2>2. \A v \in P : b \in votes'[v]
      BY <1>1, <1>3, <2>1
    <2>3. QED
      BY <2>2 DEF Certified
  <1>4. QED
    BY <1>2, <1>3 DEF Certified

\* The vote SafetyRules returns for b, and the safety data it leaves behind.
LEMMA VotePace ==
  ASSUME TypeOK, NEW v \in Honest, VoterInv(v), NEW b \in BlockIds, SignedVote(v, b) # None
  PROVE  /\ SignedVote(v, b) \in BlockIds
         /\ RoundOf(SignedVote(v, b)) = RoundOf(b)
         /\ SafetyAfter(v, b) \in SafetyData
         /\ SafetyAfter(v, b).last_voted_round = RoundOf(b)
         /\ \/ SafetyAfter(v, b).preferred_round = safety[v].preferred_round
            \/ SafetyAfter(v, b).preferred_round = RoundOf(GrandParent(b))
  <1>1. safety[v] \in SafetyData
    BY SignedType
  <1>2. CASE AlreadyVoted(Shape(b), safety[v])
    BY <1>1, <1>2 DEF AlreadyVoted, SignedVote, SafetyAfter, VoterInv, Shape, SafetyData, Vote
  <1>3. CASE ~AlreadyVoted(Shape(b), safety[v])
    <2>1. SignedVote(v, b) \in {b, None}
      BY <1>3 DEF SignedVote
    <2>2. SafetyAfter(v, b) = Voted(Shape(b), safety[v], MakeVote(Shape(b), "3chain"))
      BY <1>3 DEF SafetyAfter
    <2>3. /\ SafetyAfter(v, b) \in SafetyData
          /\ SafetyAfter(v, b).last_voted_round = RoundOf(b)
          /\ SafetyAfter(v, b).preferred_round = max(safety[v].preferred_round, RoundOf(GrandParent(b)))
      BY <1>1, <2>2, VotedFacts
    <2>4. QED
      BY <2>1, <2>3 DEF max
  <1>4. QED
    BY <1>2, <1>3

-----------------------------------------------------------------------------
(***************************************************************************)
(* Types, and the pace of one validator                                    *)
(***************************************************************************)

LEMMA PaceKept ==
  ASSUME IInv, [Next]_vars, NEW w \in Honest,
         safety'[w] = safety[w], hqc'[w] = hqc[w], htc'[w] = htc[w], root'[w] = root[w],
         round'[w] = round[w], sent'[w] \in {sent[w], None}
  PROVE  PaceInv(w)'
  <1>1. PaceInv(w)
    BY DEF IInv
  <1>2. PICK h \in BlockIds : h = hqc[w]
    BY DEF IInv, TypeOK
  <1>3. Certified(h)' /\ hqc'[w] = h
    BY <1>1, <1>2, CertifiedGrows DEF PaceInv
  <1>4. Certified(hqc[w])'
    BY <1>3 DEF Certified
  <1>5. \E q \in BlockIds : Certified(q)' /\ root'[w] = CommitInfo(q)
    BY <1>1, CertifiedGrows DEF PaceInv
  <1>6. QED
    BY <1>1, <1>4, <1>5 DEF PaceInv, CommitInfo

\* The pace after a step that took certificates q and t, and perhaps a vote.
LEMMA PaceMoved ==
  ASSUME IInv, [Next]_vars, NEW v \in Honest, NEW q \in BlockIds, Certified(q), NEW t \in Rounds,
         AddCerts(v, q, t),
         safety'[v].last_voted_round <= round'[v],
         safety'[v].preferred_round <= RoundOf(hqc'[v]),
         sent'[v] # None => RoundOf(sent'[v]) = round'[v]
  PROVE  PaceInv(v)'
  <1>1. PaceInv(v) /\ TypeOK
    BY DEF IInv
  <1>2. /\ hqc'[v] \in {hqc[v], q} /\ root'[v] \in {root[v], CommitInfo(q)}
        /\ round'[v] = max(RoundOf(hqc'[v]), htc'[v]) + 1
    BY <1>1, AddCertsFacts
  <1>3. PICK h \in BlockIds : h = hqc'[v] /\ Certified(h)
    BY <1>1, <1>2 DEF PaceInv, TypeOK
  <1>4. Certified(hqc[v])'
    <2>1. Certified(h)'
      BY <1>3, CertifiedGrows
    <2>2. QED
      BY <1>3, <2>1 DEF Certified
  <1>5. \E p \in BlockIds : Certified(p)' /\ root'[v] = CommitInfo(p)
    BY <1>1, <1>2, CertifiedGrows DEF PaceInv
  <1>6. QED
    BY <1>2, <1>4, <1>5 DEF PaceInv, CommitInfo

LEMMA PaceStep ==
  ASSUME IInv, [Next]_vars
  PROVE  TypeOK' /\ \A w \in Honest : PaceInv(w)'
  <1>a. TypeOK /\ \A v \in Honest : VoterInv(v) /\ PaceInv(v)
    BY DEF IInv
  <1> USE <1>a
  <1>1. CASE UNCHANGED vars
    BY <1>1, PaceKept DEF vars, TypeOK
  <1>2. ASSUME NEW v \in Honest, NEW q \in CertifiedBlocks, NEW t \in TimedOutRounds,
               process_sync_info(v, q, t)
        PROVE  TypeOK' /\ \A w \in Honest : PaceInv(w)'
    <2>1. q \in BlockIds /\ Certified(q) /\ t \in Rounds /\ AddCerts(v, q, t)
      BY <1>2 DEF CertifiedBlocks, TimedOutRounds, process_sync_info
    <2>2. /\ UNCHANGED <<safety, saved, votes, timeouts>>
          /\ sent' = [sent EXCEPT ![v] = SentIn(v, round'[v])]
      BY <1>2 DEF process_sync_info
    <2>3. TypeOK'
      BY <2>1, <2>2, AddCertsFacts DEF TypeOK, SentIn
    <2>4. PaceInv(v)'
      <3>1. /\ safety[v].last_voted_round <= round[v]
            /\ safety[v].preferred_round <= RoundOf(hqc[v])
            /\ sent[v] # None => RoundOf(sent[v]) = round[v]
        BY DEF PaceInv
      <3>2. /\ round'[v] >= round[v] /\ RoundOf(hqc'[v]) >= RoundOf(hqc[v])
            /\ round[v] \in Int /\ round'[v] \in Int
            /\ RoundOf(hqc[v]) \in Int /\ RoundOf(hqc'[v]) \in Int
            /\ safety[v].last_voted_round \in Int /\ safety[v].preferred_round \in Int
        <4>1. round'[v] \in Int /\ hqc'[v] \in BlockIds
          BY <2>3, CommitteeAssumption DEF TypeOK
        <4>2. round'[v] >= round[v] /\ RoundOf(hqc'[v]) >= RoundOf(hqc[v])
          BY <2>1, AddCertsFacts
        <4>3. QED
          BY <4>1, <4>2, PaceTypes, TreeFacts
      <3>3. sent'[v] # None => sent'[v] = sent[v] /\ round'[v] = round[v]
        <4>1. sent'[v] = SentIn(v, round'[v])
          BY <2>2 DEF TypeOK
        <4>2. QED
          BY <3>2, <4>1, Order DEF SentIn
      <3>4. /\ safety'[v].last_voted_round <= round'[v]
            /\ safety'[v].preferred_round <= RoundOf(hqc'[v])
        BY <2>2, <3>1, <3>2
      <3>5. sent'[v] # None => RoundOf(sent'[v]) = round'[v]
        BY <3>1, <3>3
      <3>6. QED
        BY <2>1, <3>4, <3>5, PaceMoved
    <2>5. ASSUME NEW w \in Honest \ {v}
          PROVE  PaceInv(w)'
      BY <2>1, <2>2, AddCertsFacts, PaceKept DEF TypeOK
    <2>6. QED
      BY <2>3, <2>4, <2>5
  <1>3. ASSUME NEW v \in Honest, NEW b \in BlockIds, NEW t \in Rounds,
               ProposalInRound(v, b, t), MayAskForVote(v, b, RoundOf(b)),
               safety' = [safety EXCEPT ![v] = SafetyAfter(v, b)],
               saved' \in [Honest -> BlockIds \cup {None}],
               sent' = [sent EXCEPT ![v] = sent'[v]],
               sent'[v] \in BlockIds \cup {None},
               sent'[v] # None => RoundOf(sent'[v]) = RoundOf(b),
               votes' \in [Honest -> SUBSET BlockIds], timeouts' = timeouts
        PROVE  TypeOK' /\ \A w \in Honest : PaceInv(w)'
    <2>1. /\ Parent(b) \in BlockIds /\ Certified(Parent(b)) /\ AddCerts(v, Parent(b), t)
          /\ round'[v] = RoundOf(b)
      BY <1>3, TreeFacts DEF ProposalInRound
    <2>2. /\ SafetyAfter(v, b) \in SafetyData
          /\ SafetyAfter(v, b).last_voted_round = RoundOf(b)
          /\ \/ SafetyAfter(v, b).preferred_round = safety[v].preferred_round
             \/ SafetyAfter(v, b).preferred_round = RoundOf(GrandParent(b))
      BY <1>3, VotePace DEF MayAskForVote
    <2>3. TypeOK'
      BY <1>3, <2>1, <2>2, AddCertsFacts DEF TypeOK
    <2>4. PaceInv(v)'
      <3>1. safety'[v] = SafetyAfter(v, b)
        BY <1>3 DEF TypeOK
      <3>2. /\ RoundOf(hqc'[v]) >= RoundOf(Parent(b)) /\ RoundOf(hqc'[v]) >= RoundOf(hqc[v])
            /\ RoundOf(Parent(b)) >= RoundOf(GrandParent(b))
            /\ RoundOf(hqc'[v]) \in Int /\ RoundOf(hqc[v]) \in Int /\ RoundOf(b) \in Int
            /\ RoundOf(Parent(b)) \in Int /\ RoundOf(GrandParent(b)) \in Int
        <4>1. hqc'[v] \in BlockIds /\ hqc[v] \in BlockIds
          BY <2>3 DEF TypeOK
        <4>2. RoundOf(hqc'[v]) >= RoundOf(Parent(b)) /\ RoundOf(hqc'[v]) >= RoundOf(hqc[v])
          BY <2>1, <1>3, AddCertsFacts
        <4>3. RoundOf(Parent(b)) >= RoundOf(GrandParent(b))
          BY <2>1, TreeFacts DEF GrandParent
        <4>4. QED
          BY <2>1, <4>1, <4>2, <4>3, TreeFacts
      <3>3. safety[v].preferred_round <= RoundOf(hqc[v]) /\ safety[v].preferred_round \in Int
        BY PaceTypes DEF PaceInv
      <3>4. safety'[v].preferred_round <= RoundOf(hqc'[v])
        BY <2>2, <3>1, <3>2, <3>3
      <3>5. safety'[v].last_voted_round <= round'[v]
        BY <2>1, <2>2, <3>1, <3>2, Order
      <3>6. sent'[v] # None => RoundOf(sent'[v]) = round'[v]
        BY <1>3, <2>1
      <3>7. QED
        BY <1>3, <2>1, <3>4, <3>5, <3>6, PaceMoved
    <2>5. ASSUME NEW w \in Honest \ {v}
          PROVE  PaceInv(w)'
      BY <1>3, <2>1, AddCertsFacts, PaceKept DEF TypeOK
    <2>6. QED
      BY <2>3, <2>4, <2>5
  <1>4. ASSUME NEW v \in Honest, NEW b \in BlockIds, NEW t \in TimedOutRounds,
               process_proposal_msg(v, b, t)
        PROVE  TypeOK' /\ \A w \in Honest : PaceInv(w)'
    <2>1. SignedVote(v, b) \in BlockIds /\ RoundOf(SignedVote(v, b)) = RoundOf(b)
      BY <1>4, VotePace DEF process_proposal_msg, MayAskForVote
    <2>2. /\ saved' \in [Honest -> BlockIds \cup {None}]
          /\ sent' = [sent EXCEPT ![v] = sent'[v]] /\ sent'[v] = SignedVote(v, b)
          /\ votes' \in [Honest -> SUBSET BlockIds] /\ t \in Rounds
      BY <1>4, <2>1 DEF process_proposal_msg, TypeOK, TimedOutRounds
    <2>3. QED
      BY <1>3, <1>4, <2>1, <2>2 DEF process_proposal_msg
  <1>5. ASSUME NEW v \in Honest, NEW b \in BlockIds, NEW r, VoteThenCrash(v, b, r), RoundOf(b) = r
        PROVE  /\ saved' \in [Honest -> BlockIds \cup {None}]
               /\ sent' = [sent EXCEPT ![v] = sent'[v]] /\ sent'[v] \in BlockIds \cup {None}
               /\ sent'[v] # None => RoundOf(sent'[v]) = RoundOf(b)
               /\ votes' \in [Honest -> SUBSET BlockIds] /\ timeouts' = timeouts
               /\ safety' = [safety EXCEPT ![v] = SafetyAfter(v, b)]
               /\ MayAskForVote(v, b, RoundOf(b))
    <2>1. SignedVote(v, b) \in BlockIds
      BY <1>5, VotePace DEF VoteThenCrash, MayAskForVote
    <2>2. saved' \in [Honest -> BlockIds \cup {None}]
      BY <1>5, <2>1 DEF VoteThenCrash, TypeOK
    <2>3. QED
      BY <1>5, <2>2 DEF VoteThenCrash, SentOnStart, TypeOK
  <1>6. ASSUME NEW v \in Honest, NEW b \in BlockIds, NEW t \in TimedOutRounds,
               process_proposal_msg_crashes(v, b, t)
        PROVE  TypeOK' /\ \A w \in Honest : PaceInv(w)'
    BY <1>3, <1>5, <1>6 DEF process_proposal_msg_crashes, TimedOutRounds
  <1>7. ASSUME NEW v \in Honest, UNCHANGED <<hqc, htc, root, round>>,
               safety' \in [Honest -> SafetyData],
               saved' \in [Honest -> BlockIds \cup {None}],
               sent' \in [Honest -> BlockIds \cup {None}],
               votes' \in [Honest -> SUBSET BlockIds], timeouts' \in [Honest -> SUBSET Rounds],
               \A w \in Honest \ {v} : safety'[w] = safety[w] /\ sent'[w] = sent[w],
               safety'[v].last_voted_round <= round[v],
               safety'[v].preferred_round <= RoundOf(hqc[v]),
               sent'[v] # None => RoundOf(sent'[v]) = round[v]
        PROVE  TypeOK' /\ \A w \in Honest : PaceInv(w)'
    <2>1. TypeOK'
      BY <1>7 DEF TypeOK
    <2>2. PaceInv(v)'
      <3>1. PICK h \in BlockIds : h = hqc[v] /\ Certified(h)'
        BY CertifiedGrows DEF PaceInv, TypeOK
      <3>2. \E q \in BlockIds : Certified(q)' /\ root[v] = CommitInfo(q)
        BY CertifiedGrows DEF PaceInv
      <3>3. Certified(hqc[v])'
        BY <1>7, <3>1 DEF Certified
      <3>4. round[v] = max(RoundOf(hqc[v]), htc[v]) + 1
        BY DEF PaceInv
      <3>5. QED
        BY <1>7, <3>2, <3>3, <3>4 DEF PaceInv, CommitInfo
    <2>3. ASSUME NEW w \in Honest \ {v}
          PROVE  PaceInv(w)'
      BY <1>7, <2>3, PaceKept
    <2>4. QED
      BY <2>1, <2>2, <2>3
  <1>8. ASSUME NEW v \in Honest, NEW b \in BlockIds, NilBlockFor(v, b), SignedVote(v, b) # None
        PROVE  /\ SignedVote(v, b) \in BlockIds /\ RoundOf(SignedVote(v, b)) = round[v]
               /\ SafetyAfter(v, b) \in SafetyData
               /\ SafetyAfter(v, b).last_voted_round = round[v]
               /\ SafetyAfter(v, b).preferred_round <= RoundOf(hqc[v])
               /\ round[v] \in Rounds /\ RoundOf(b) = round[v]
    <2>1. RoundOf(b) = round[v] /\ Parent(b) = hqc[v]
      BY <1>8 DEF NilBlockFor
    <2>2. RoundOf(GrandParent(b)) <= RoundOf(hqc[v])
      BY <2>1, TreeFacts DEF GrandParent
    <2>3. safety[v].preferred_round <= RoundOf(hqc[v])
      BY DEF PaceInv
    <2>4. QED
      BY <1>8, <2>1, <2>2, <2>3, VotePace, TreeFacts
  <1>9. ASSUME NEW v \in Honest, process_local_timeout(v)
        PROVE  TypeOK' /\ \A w \in Honest : PaceInv(w)'
    <2>1. /\ UNCHANGED <<hqc, htc, root, round>>
          /\ timeouts' \in [Honest -> SUBSET Rounds] /\ round[v] \in Rounds
      BY <1>9, CommitteeAssumption DEF process_local_timeout, TypeOK, Rounds
    <2>2. /\ round[v] \in Int /\ safety[v] \in SafetyData
          /\ safety[v].preferred_round <= RoundOf(hqc[v])
          /\ sent[v] # None => RoundOf(sent[v]) = round[v]
      BY SignedType DEF TypeOK, PaceInv
    <2>3. CASE /\ sent[v] # None
               /\ safety' = [safety EXCEPT ![v] = AfterTimeout(round[v], @)]
               /\ votes' = [votes EXCEPT ![v] = @ \cup {sent[v]}]
               /\ UNCHANGED <<saved, sent>>
      <3>1. /\ safety' \in [Honest -> SafetyData] /\ safety'[v] = AfterTimeout(round[v], safety[v])
            /\ safety'[v].last_voted_round = round[v]
            /\ safety'[v].preferred_round = safety[v].preferred_round
            /\ \A w \in Honest \ {v} : safety'[w] = safety[w]
        BY <2>1, <2>2, <2>3 DEF TypeOK, AfterTimeout, SafetyData
      <3>2. votes' \in [Honest -> SUBSET BlockIds]
        BY <2>3 DEF TypeOK
      <3>3. /\ saved' \in [Honest -> BlockIds \cup {None}]
            /\ sent' \in [Honest -> BlockIds \cup {None}] /\ sent' = sent
        BY <2>3 DEF TypeOK
      <3>4. /\ safety'[v].last_voted_round <= round[v]
            /\ safety'[v].preferred_round <= RoundOf(hqc[v])
            /\ sent'[v] # None => RoundOf(sent'[v]) = round[v]
        BY <2>2, <3>1, <3>3, Order
      <3>5. QED
        BY <1>7, <2>1, <3>1, <3>2, <3>3, <3>4
    <2>4. ASSUME NEW b \in BlockIds, NilBlockFor(v, b), MayAskForVote(v, b, round[v]),
                 safety' = [safety EXCEPT ![v] = AfterTimeout(round[v], SafetyAfter(v, b))],
                 saved' = [saved EXCEPT ![v] = SignedVote(v, b)],
                 sent' = [sent EXCEPT ![v] = SignedVote(v, b)],
                 votes' = [votes EXCEPT ![v] = @ \cup {SignedVote(v, b)}]
          PROVE  TypeOK' /\ \A w \in Honest : PaceInv(w)'
      <3>1. /\ SignedVote(v, b) \in BlockIds /\ RoundOf(SignedVote(v, b)) = round[v]
            /\ SafetyAfter(v, b) \in SafetyData
            /\ SafetyAfter(v, b).last_voted_round = round[v]
            /\ SafetyAfter(v, b).preferred_round <= RoundOf(hqc[v])
        BY <1>8, <2>4 DEF MayAskForVote
      <3>2. AfterTimeout(round[v], SafetyAfter(v, b)) = SafetyAfter(v, b)
        BY <3>1, TimeoutKeepsData
      <3>3. /\ safety' \in [Honest -> SafetyData] /\ safety'[v] = SafetyAfter(v, b)
            /\ saved' \in [Honest -> BlockIds \cup {None}]
            /\ sent' \in [Honest -> BlockIds \cup {None}] /\ sent'[v] = SignedVote(v, b)
            /\ votes' \in [Honest -> SUBSET BlockIds]
            /\ \A w \in Honest \ {v} : safety'[w] = safety[w] /\ sent'[w] = sent[w]
        <4>1. safety' = [safety EXCEPT ![v] = SafetyAfter(v, b)]
          BY <2>4, <3>2
        <4>2. /\ safety \in [Honest -> SafetyData] /\ saved \in [Honest -> BlockIds \cup {None}]
              /\ sent \in [Honest -> BlockIds \cup {None}] /\ votes \in [Honest -> SUBSET BlockIds]
          BY DEF TypeOK
        <4>3. /\ safety' \in [Honest -> SafetyData] /\ safety'[v] = SafetyAfter(v, b)
              /\ \A w \in Honest \ {v} : safety'[w] = safety[w]
          BY <3>1, <4>1, <4>2
        <4>4. /\ sent' \in [Honest -> BlockIds \cup {None}] /\ sent'[v] = SignedVote(v, b)
              /\ \A w \in Honest \ {v} : sent'[w] = sent[w]
          BY <2>4, <3>1, <4>2
        <4>5. saved' \in [Honest -> BlockIds \cup {None}]
          BY <2>4, <3>1, <4>2
        <4>6. votes' \in [Honest -> SUBSET BlockIds]
          BY <2>4, <3>1, <4>2
        <4>7. QED
          BY <4>3, <4>4, <4>5, <4>6
      <3>4. /\ safety'[v].last_voted_round <= round[v]
            /\ safety'[v].preferred_round <= RoundOf(hqc[v])
            /\ RoundOf(sent'[v]) = round[v]
        BY <3>1, <3>3, PaceTypes, Order
      <3>5. QED
        BY <1>7, <2>1, <2>2, <3>3, <3>4
    <2>5. QED
      BY <1>9, <2>3, <2>4 DEF process_local_timeout
  <1>10. ASSUME NEW v \in Honest, NEW b \in BlockIds, process_local_timeout_crashes(v, b)
         PROVE  TypeOK' /\ \A w \in Honest : PaceInv(w)'
    <2>1. NilBlockFor(v, b) /\ VoteThenCrash(v, b, round[v]) /\ UNCHANGED <<hqc, htc, root, round>>
      BY <1>10 DEF process_local_timeout_crashes
    <2>2. /\ SafetyAfter(v, b) \in SafetyData
          /\ SafetyAfter(v, b).last_voted_round = round[v]
          /\ SafetyAfter(v, b).preferred_round <= RoundOf(hqc[v])
          /\ round[v] \in Rounds /\ RoundOf(b) = round[v]
      BY <1>8, <2>1 DEF VoteThenCrash, MayAskForVote
    <2>3. /\ saved' \in [Honest -> BlockIds \cup {None}]
          /\ sent' = [sent EXCEPT ![v] = sent'[v]] /\ sent'[v] \in BlockIds \cup {None}
          /\ sent'[v] # None => RoundOf(sent'[v]) = round[v]
          /\ votes' \in [Honest -> SUBSET BlockIds] /\ timeouts' = timeouts
          /\ safety' = [safety EXCEPT ![v] = SafetyAfter(v, b)]
      BY <1>5, <2>1, <2>2
    <2>4. /\ safety' \in [Honest -> SafetyData] /\ safety'[v] = SafetyAfter(v, b)
          /\ sent' \in [Honest -> BlockIds \cup {None}]
          /\ \A w \in Honest \ {v} : safety'[w] = safety[w] /\ sent'[w] = sent[w]
      BY <2>2, <2>3 DEF TypeOK
    <2>5. safety'[v].last_voted_round <= round[v]
      BY <2>2, <2>4, PaceTypes, Order
    <2>6. QED
      BY <1>7, <2>1, <2>2, <2>3, <2>4, <2>5 DEF TypeOK
  <1>11. ASSUME NEW v \in Honest, Restart(v)
         PROVE  TypeOK' /\ \A w \in Honest : PaceInv(w)'
    <2>1. round[v] = max(RoundOf(hqc[v]), htc[v]) + 1
      BY DEF PaceInv
    <2>2. round' = round
      BY <1>11, <2>1 DEF Restart, TypeOK
    <2>3. /\ sent' \in [Honest -> BlockIds \cup {None}]
          /\ sent'[v] # None => RoundOf(sent'[v]) = round[v]
          /\ \A w \in Honest \ {v} : sent'[w] = sent[w]
      BY <1>11, <2>2 DEF Restart, SentOnStart, TypeOK
    <2>4. safety[v].last_voted_round <= round[v] /\ safety[v].preferred_round <= RoundOf(hqc[v])
      BY DEF PaceInv
    <2>5. QED
      BY <1>7, <1>11, <2>2, <2>3, <2>4 DEF Restart, TypeOK
  <1>12. QED
    BY <1>1, <1>2, <1>4, <1>6, <1>9, <1>10, <1>11 DEF Next

-----------------------------------------------------------------------------
(***************************************************************************)
(* Votes stay consistent                                                   *)
(***************************************************************************)

LEMMA VoterStep ==
  ASSUME IInv, [Next]_vars, NEW w \in Honest
  PROVE  VoterInv(w)'
  <1> DEFINE old == safety[w]
             new == safety'[w]
  <1>1. /\ TypeOK /\ VoterInv(w) /\ Signed(w) \subseteq BlockIds /\ safety[w] \in SafetyData
    BY SignedType DEF IInv
  <1>2. \A b \in Signed(w) : Certified(Parent(b))'
    BY <1>1, CertifiedGrows DEF VoterInv
  <1>3. CASE Keeps(w)
    BY <1>1, <1>2, <1>3 DEF Keeps, VoterInv
  <1>4. ASSUME NEW b \in BlockIds, Records(w, b)
        PROVE  VoterInv(w)'
    <2>1. /\ new.last_voted_round = RoundOf(b)
          /\ new.preferred_round = max(old.preferred_round, RoundOf(GrandParent(b)))
          /\ new.last_vote # None /\ new.last_vote.id = b /\ new.last_vote.round = RoundOf(b)
      BY <1>1, <1>4, RecordsFacts
    <2>2. /\ RoundOf(b) > old.last_voted_round /\ RoundOf(Parent(b)) >= old.preferred_round
          /\ Signed(w)' \subseteq Signed(w) \cup {b} /\ Certified(Parent(b))'
      BY <1>4, CertifiedGrows DEF Records
    <2>3. /\ old.last_voted_round \in Nat /\ old.preferred_round \in Nat
          /\ RoundOf(b) \in Nat /\ RoundOf(Parent(b)) \in Nat /\ RoundOf(GrandParent(b)) \in Nat
      BY <1>1, SafetyTypes, TreeFacts
    <2>4. /\ new.preferred_round \in Nat /\ new.preferred_round >= old.preferred_round
          /\ new.preferred_round >= RoundOf(GrandParent(b))
      BY <1>1, <1>4, RecordsFacts
    <2>5. \A c \in Signed(w) : /\ RoundOf(c) \in Nat /\ RoundOf(GrandParent(c)) \in Nat
                               /\ RoundOf(c) > 0
                               /\ RoundOf(c) <= old.last_voted_round
                               /\ RoundOf(GrandParent(c)) <= old.preferred_round
      BY <1>1, TreeFacts DEF VoterInv
    <2>6. ASSUME NEW c \in Signed(w)'
          PROVE  /\ RoundOf(c) > 0
                 /\ RoundOf(c) <= new.last_voted_round
                 /\ RoundOf(GrandParent(c)) <= new.preferred_round
                 /\ Certified(Parent(c))'
      <3>1. CASE c \in Signed(w)
        <4>1. RoundOf(c) <= RoundOf(b)
          BY <2>2, <2>3, <2>5, <3>1
        <4>2. RoundOf(GrandParent(c)) <= new.preferred_round
          BY <2>3, <2>4, <2>5, <3>1, Order
        <4>3. QED
          BY <1>2, <2>1, <2>5, <3>1, <4>1, <4>2
      <3>2. CASE c = b
        <4>1. RoundOf(b) > 0
          BY <2>2, <2>3
        <4>2. RoundOf(b) <= RoundOf(b) /\ RoundOf(GrandParent(b)) <= new.preferred_round
          BY <2>3, <2>4
        <4>3. QED
          BY <2>1, <2>2, <3>2, <4>1, <4>2
      <3>3. QED
        BY <2>2, <3>1, <3>2
    <2>7. \A c, d \in Signed(w)' :
             /\ RoundOf(c) = RoundOf(d) => c = d
             /\ RoundOf(c) < RoundOf(d) => RoundOf(Parent(d)) >= RoundOf(GrandParent(c))
      BY <1>1, <1>4, RecordsKeepsLocks
    <2>8. QED
      BY <2>1, <2>6, <2>7 DEF VoterInv
  <1>5. QED
    BY <1>3, <1>4, Classify

Voters == TypeOK /\ \A v \in Honest : VoterInv(v)

\* The honest part of a quorum has signed a certified block, and so has seen the
\* certificate of its parent.
CertifiedChain ==
    \A b \in CertifiedBlocks :
        /\ Parent(b) \in CertifiedBlocks
        /\ b # Genesis => \E P \in HonestParts : \A v \in P : b \in Signed(v)

LEMMA ChainOfCertificates == Voters => CertifiedChain
  <1> SUFFICES ASSUME Voters, NEW b \in CertifiedBlocks
               PROVE  /\ Parent(b) \in CertifiedBlocks
                      /\ b # Genesis => \E P \in HonestParts : \A v \in P : b \in Signed(v)
    BY DEF CertifiedChain
  <1>1. b \in BlockIds /\ Certified(b) /\ TypeOK /\ Parent(b) \in BlockIds
    BY TreeFacts DEF CertifiedBlocks, Voters
  <1>2. CASE b = Genesis
    BY <1>1, <1>2, CommitteeAssumption DEF CertifiedBlocks
  <1>3. CASE b # Genesis
    <2>1. PICK P \in HonestParts : P \subseteq Honest /\ P # {} /\ \A v \in P : b \in Signed(v)
      BY <1>1, <1>3, CertifiedSigned
    <2>2. Certified(Parent(b))
      BY <2>1 DEF Voters, VoterInv
    <2>3. QED
      BY <1>1, <2>1, <2>2 DEF CertifiedBlocks
  <1>4. QED
    BY <1>2, <1>3

LEMMA UniqueCertificates == Voters => OneCertificatePerRound
  <1> SUFFICES ASSUME Voters, NEW b \in CertifiedBlocks, NEW c \in CertifiedBlocks,
                      RoundOf(b) = RoundOf(c)
               PROVE  b = c
    BY DEF OneCertificatePerRound
  <1>1. /\ b \in BlockIds /\ Certified(b) /\ c \in BlockIds /\ Certified(c) /\ TypeOK
    BY DEF CertifiedBlocks, Voters
  <1>2. CASE b = Genesis \/ c = Genesis
    BY <1>1, <1>2, TreeFacts, CommitteeAssumption
  <1>3. CASE b # Genesis /\ c # Genesis
    <2>1. PICK P \in HonestParts : \A v \in P : b \in Signed(v)
      BY <1>1, <1>3, CertifiedSigned
    <2>2. PICK Q \in HonestParts : \A v \in Q : c \in Signed(v)
      BY <1>1, <1>3, CertifiedSigned
    <2>3. PICK w \in Honest : w \in P /\ w \in Q
      BY PartsMeet
    <2>4. QED
      BY <2>1, <2>2, <2>3 DEF Voters, VoterInv
  <1>4. QED
    BY <1>2, <1>3

LEMMA CertificatesNext == Voters' => OneCertificatePerRound' /\ CertifiedChain'
  BY ChainOfCertificates, UniqueCertificates, PTL

-----------------------------------------------------------------------------
(***************************************************************************)
(* The lock                                                                *)
(***************************************************************************)

LEMMA ThreeChainRounds ==
  ASSUME NEW c \in BlockIds, ThreeChain(c)
  PROVE  /\ RoundOf(Parent(c)) = RoundOf(GrandParent(c)) + 1
         /\ RoundOf(c) = RoundOf(Parent(c)) + 1
         /\ CommitInfo(c) = GrandParent(c)
         /\ c # Genesis /\ Parent(c) # Genesis
         /\ GrandParent(c) \in Ancestors(c)
  <1>1. /\ RoundOf(Parent(c)) = RoundOf(GrandParent(c)) + 1
        /\ RoundOf(c) = RoundOf(Parent(c)) + 1
        /\ CommitInfo(c) = GrandParent(c)
    BY TreeFacts DEF ThreeChain, construct_ledger_info, Shape, GrandParent, CommitInfo, Rounds
  <1>2. RoundOf(GrandParent(c)) \in Nat /\ RoundOf(Genesis) = 0
    BY TreeFacts, CommitteeAssumption
  <1>3. GrandParent(c) \in Ancestors(c)
    BY TreeFacts DEF GrandParent
  <1>4. QED
    BY <1>1, <1>2, <1>3

LEMMA BlockedStays ==
  ASSUME IInv, [Next]_vars, NEW c \in BlockIds, Blocked(c)
  PROVE  Blocked(c)'
  <1> SUFFICES ASSUME NEW P \in HonestParts
               PROVE  \E w \in P : c \notin Signed(w)' /\ safety'[w].last_voted_round >= RoundOf(c)
    BY DEF Blocked
  <1>1. PICK w \in P : c \notin Signed(w) /\ safety[w].last_voted_round >= RoundOf(c)
    BY DEF Blocked
  <1>2. w \in Honest
    BY PartsMeet
  <1>3. CASE Keeps(w)
    BY <1>1, <1>3 DEF Keeps
  <1>4. ASSUME NEW b \in BlockIds, Records(w, b)
        PROVE  c \notin Signed(w)' /\ safety'[w].last_voted_round >= RoundOf(c)
    <2>1. safety[w] \in SafetyData /\ safety[w].last_voted_round \in Int
      BY <1>2, SignedType, SafetyTypes DEF IInv
    <2>2. safety'[w].last_voted_round = RoundOf(b) /\ RoundOf(b) > safety[w].last_voted_round
      BY <1>2, <1>4, RecordsFacts DEF IInv
    <2>3. RoundOf(b) > RoundOf(c)
      BY <1>1, <2>1, <2>2, TreeFacts, Order
    <2>4. b # c
      BY <2>3, TreeFacts, Order
    <2>5. c \notin Signed(w)'
      BY <1>1, <1>4, <2>4 DEF Records
    <2>6. RoundOf(b) >= RoundOf(c)
      BY <2>3, TreeFacts, Order
    <2>7. QED
      BY <2>2, <2>5, <2>6
  <1>5. QED
    BY <1>1, <1>2, <1>3, <1>4, Classify

\* A block signed after the step stands on one certified before it.
LEMMA ParentWasCertified ==
  ASSUME IInv, [Next]_vars, NEW w \in Honest, NEW b \in Signed(w)'
  PROVE  Certified(Parent(b))
  BY Classify DEF Keeps, Records, IInv, VoterInv

LEMMA LockStep ==
  ASSUME IInv, [Next]_vars
  PROVE  LockInv'
  <1> SUFFICES ASSUME NEW b \in BlockIds, NEW c \in BlockIds,
                      Certified(b)', ThreeChain(c), RoundOf(b) > RoundOf(c), ~Blocked(c)'
               PROVE  Extends(b, GrandParent(c))
    BY DEF LockInv, ThreeChain, Extends, Shape, GrandParent
  <1>1. /\ Voters' /\ OneCertificatePerRound' /\ CertifiedChain'
        /\ \A w \in Honest : VoterInv(w)'
    BY VoterStep, PaceStep, CertificatesNext DEF Voters
  <1>2. ~Blocked(c)
    BY BlockedStays
  <1>3. /\ RoundOf(Parent(c)) = RoundOf(GrandParent(c)) + 1
        /\ RoundOf(c) = RoundOf(Parent(c)) + 1
        /\ c # Genesis /\ Parent(c) # Genesis /\ GrandParent(c) \in Ancestors(c)
    BY ThreeChainRounds
  <1>4. CASE Certified(b)
    BY <1>2, <1>4 DEF LockInv, IInv
  <1>5. CASE ~Certified(b)
    <2>1. PICK P1 \in HonestParts : \A w \in P1 :
             c \in Signed(w)' \/ ~(safety'[w].last_voted_round >= RoundOf(c))
      BY DEF Blocked
    <2>2. ASSUME NEW d \in CertifiedBlocks', RoundOf(d) >= RoundOf(c)
          PROVE  \E w \in Honest : c \in Signed(w)' /\ d \in Signed(w)'
      <3>1. d \in BlockIds /\ d # Genesis
        BY <2>2, <1>3, TreeFacts, CommitteeAssumption DEF CertifiedBlocks
      <3>2. PICK P \in HonestParts : \A v \in P : d \in Signed(v)'
        BY <1>1, <2>2, <3>1 DEF CertifiedChain
      <3>3. PICK w \in Honest : w \in P /\ w \in P1
        BY PartsMeet
      <3>4. RoundOf(d) <= safety'[w].last_voted_round
        BY <1>1, <3>2, <3>3 DEF VoterInv
      <3>5. safety'[w].last_voted_round \in Int
        BY <1>1 DEF Voters, TypeOK, SafetyData, Rounds
      <3>6. safety'[w].last_voted_round >= RoundOf(c)
        BY <2>2, <3>1, <3>4, <3>5, TreeFacts, Order
      <3>7. QED
        BY <2>1, <3>2, <3>3, <3>6
    <2>3. b \in CertifiedBlocks'
      BY DEF CertifiedBlocks
    <2>4. PICK w \in Honest : c \in Signed(w)' /\ b \in Signed(w)'
      BY <2>2, <2>3, TreeFacts
    <2>5. /\ RoundOf(Parent(b)) >= RoundOf(GrandParent(c))
          /\ Certified(Parent(c))'
      BY <1>1, <2>4 DEF VoterInv
    <2>6. /\ Parent(b) \in BlockIds /\ Certified(Parent(b)) /\ Certified(Parent(b))'
      BY <2>4, ParentWasCertified, CertifiedGrows, TreeFacts
    <2>7. /\ Parent(b) \in CertifiedBlocks' /\ Parent(c) \in CertifiedBlocks'
          /\ GrandParent(c) \in CertifiedBlocks'
      BY <1>1, <2>5, <2>6, TreeFacts DEF CertifiedBlocks, CertifiedChain, GrandParent
    <2>8. Ancestors(Parent(b)) \subseteq Ancestors(b)
      BY TreeFacts
    <2>9. CASE RoundOf(Parent(b)) > RoundOf(c)
      BY <1>2, <2>6, <2>8, <2>9 DEF LockInv, IInv, Extends
    <2>10. CASE RoundOf(Parent(b)) = RoundOf(c)
      <3>1. PICK u \in Honest : c \in Signed(u)' /\ Parent(b) \in Signed(u)'
        BY <2>2, <2>6, <2>7, <2>10, TreeFacts
      <3>2. Parent(b) = c
        BY <1>1, <2>10, <3>1 DEF VoterInv
      <3>3. QED
        BY <1>3, <2>8, <3>2 DEF Extends
    <2>11. CASE RoundOf(Parent(b)) = RoundOf(Parent(c))
      <3>1. Parent(b) = Parent(c)
        BY <1>1, <2>7, <2>11 DEF OneCertificatePerRound
      <3>2. GrandParent(c) \in Ancestors(Parent(c))
        BY TreeFacts DEF GrandParent
      <3>3. QED
        BY <2>8, <3>1, <3>2 DEF Extends
    <2>12. CASE RoundOf(Parent(b)) = RoundOf(GrandParent(c))
      <3>1. Parent(b) = GrandParent(c)
        BY <1>1, <2>7, <2>12 DEF OneCertificatePerRound
      <3>2. QED
        BY <2>6, <2>8, <3>1, TreeFacts DEF Extends
    <2>13. QED
      BY <1>3, <2>5, <2>6, <2>9, <2>10, <2>11, <2>12, TreeFacts
  <1>6. QED
    BY <1>4, <1>5

-----------------------------------------------------------------------------
(***************************************************************************)
(* The invariant and what follows from it                                  *)
(***************************************************************************)

LEMMA InitIInv == Init => IInv
  <1> SUFFICES ASSUME Init
               PROVE  IInv
    OBVIOUS
  <1>1. /\ Genesis \in BlockIds /\ RoundOf(Genesis) = 0 /\ Parent(Genesis) = Genesis
        /\ MaxRound \in Nat /\ 0 \in Rounds /\ 1 \in 1 .. MaxRound + 1
    BY CommitteeAssumption DEF Rounds
  <1>2. TypeOK
    BY <1>1 DEF Init, TypeOK, FreshData, SafetyData
  <1>3. \A v \in Honest : Signed(v) = {}
    BY DEF Init, Signed, FreshData
  <1>4. \A v \in Honest : VoterInv(v)
    BY <1>3 DEF VoterInv, Init, FreshData
  <1>5. Certified(Genesis) /\ CommitInfo(Genesis) = Genesis
    BY <1>1 DEF Certified, CommitInfo
  <1>6. \A v \in Honest : PaceInv(v)
    BY <1>1, <1>5 DEF PaceInv, Init, FreshData, max
  <1>7. \A b \in BlockIds : Certified(b) => b = Genesis
    <2>1. \A v \in Honest : votes[v] = {}
      BY DEF Init
    <2>2. \A P \in HonestParts : \E w \in Honest : w \in P
      BY PartsMeet
    <2>3. QED
      BY <2>1, <2>2 DEF Certified
  <1>8. LockInv
    BY <1>1, <1>7, TreeFacts DEF LockInv
  <1>9. QED
    BY <1>2, <1>4, <1>6, <1>8 DEF IInv

LEMMA Invariance == Spec => []IInv
  <1>1. IInv /\ [Next]_vars => IInv'
    BY PaceStep, VoterStep, LockStep DEF IInv
  <1>2. QED
    BY <1>1, InitIInv, PTL DEF Spec

\* A certificate that commits a block binds every certificate of that round and
\* of the later ones.
LEMMA LockHolds == IInv => CertifiedExtendsCommitted
  <1> SUFFICES ASSUME IInv, NEW b \in CertifiedBlocks, NEW c \in CertifiedBlocks,
                      RoundOf(c) >= RoundOf(CommitInfo(b))
               PROVE  Extends(c, CommitInfo(b))
    BY DEF CertifiedExtendsCommitted
  <1>1. /\ b \in BlockIds /\ Certified(b) /\ c \in BlockIds /\ Certified(c)
        /\ Voters /\ OneCertificatePerRound /\ CertifiedChain
    BY UniqueCertificates, ChainOfCertificates DEF CertifiedBlocks, Voters, IInv
  <1>2. CASE ~ThreeChain(b)
    BY <1>1, <1>2, CommitteeAssumption DEF ThreeChain, CommitInfo, Extends
  <1>3. CASE ThreeChain(b)
    <2>1. /\ RoundOf(Parent(b)) = RoundOf(GrandParent(b)) + 1
          /\ RoundOf(b) = RoundOf(Parent(b)) + 1
          /\ CommitInfo(b) = GrandParent(b) /\ b # Genesis
          /\ GrandParent(b) \in Ancestors(b)
      BY <1>1, <1>3, ThreeChainRounds
    <2>2. Parent(b) \in CertifiedBlocks /\ GrandParent(b) \in CertifiedBlocks
      BY <1>1 DEF CertifiedChain, GrandParent
    <2>3. CASE RoundOf(c) > RoundOf(b)
      <3>1. ~Blocked(b)
        <4>1. PICK P \in HonestParts : \A v \in P : b \in Signed(v)
          BY <1>1, <2>1 DEF CertifiedChain
        <4>2. QED
          BY <4>1 DEF Blocked
      <3>2. QED
        BY <1>1, <1>3, <2>1, <2>3, <3>1 DEF LockInv, IInv
    <2>4. CASE RoundOf(c) = RoundOf(b)
      BY <1>1, <2>1, <2>4 DEF OneCertificatePerRound, Extends
    <2>5. CASE RoundOf(c) = RoundOf(Parent(b))
      <3>1. c = Parent(b)
        BY <1>1, <2>2, <2>5 DEF OneCertificatePerRound
      <3>2. QED
        BY <1>1, <2>1, <3>1, TreeFacts DEF Extends, GrandParent
    <2>6. CASE RoundOf(c) = RoundOf(GrandParent(b))
      <3>1. c = GrandParent(b)
        BY <1>1, <2>2, <2>6 DEF OneCertificatePerRound
      <3>2. QED
        BY <1>1, <2>1, <3>1, TreeFacts DEF Extends
    <2>7. QED
      BY <1>1, <2>1, <2>3, <2>4, <2>5, <2>6, TreeFacts
  <1>4. QED
    BY <1>2, <1>3

\* A committed block is itself certified.
LEMMA CommitIsCertified ==
  ASSUME IInv, NEW q \in BlockIds, Certified(q)
  PROVE  CommitInfo(q) \in CertifiedBlocks
  <1>1. CertifiedChain /\ q \in CertifiedBlocks
    BY ChainOfCertificates DEF CertifiedBlocks, Voters, IInv
  <1>2. Genesis \in CertifiedBlocks
    BY CommitteeAssumption DEF CertifiedBlocks, Certified
  <1>3. QED
    BY <1>1, <1>2 DEF CertifiedChain, CommitInfo

LEMMA CommitsOnOneBranch ==
  ASSUME IInv, NEW p \in BlockIds, Certified(p), NEW q \in BlockIds, Certified(q),
         RoundOf(CommitInfo(p)) >= RoundOf(CommitInfo(q))
  PROVE  Extends(CommitInfo(p), CommitInfo(q))
  <1>1. q \in CertifiedBlocks /\ CommitInfo(p) \in CertifiedBlocks
    BY CommitIsCertified DEF CertifiedBlocks
  <1>2. QED
    BY <1>1, LockHolds DEF CertifiedExtendsCommitted

\* Every handler of the committee keeps the state well formed: what is stored is
\* a block or nothing, and no round runs past the bound by more than one.
THEOREM TypeCorrect == Spec => []TypeOK
  BY Invariance, PTL DEF IInv

\* In every committee, two certificates of one round certify the same block: the
\* safety invariant that BlockTree::insert_quorum_cert asserts can never fail.
THEOREM OneCertificate == Spec => []OneCertificatePerRound
  <1>1. IInv => OneCertificatePerRound
    BY UniqueCertificates DEF Voters, IInv
  <1>2. QED
    BY <1>1, Invariance, PTL

\* The three-chain rule of construct_ledger_info is sound: no block certified at
\* or after the round of a committed block leaves its branch.
THEOREM CommitsBind == Spec => []CertifiedExtendsCommitted
  BY LockHolds, Invariance, PTL

\* Any two validators commit along one branch, with any honest validators crashing
\* in any round between recording, saving and sending a vote.
THEOREM CommitteeAgrees == Spec => []Agreement
  <1>1. IInv => Agreement
    <2> SUFFICES ASSUME IInv, NEW v \in Honest, NEW w \in Honest
                 PROVE  Extends(root[v], root[w]) \/ Extends(root[w], root[v])
      BY DEF Agreement
    <2>1. PICK p \in BlockIds : Certified(p) /\ root[v] = CommitInfo(p)
      BY DEF IInv, PaceInv
    <2>2. PICK q \in BlockIds : Certified(q) /\ root[w] = CommitInfo(q)
      BY DEF IInv, PaceInv
    <2>3. RoundOf(root[v]) \in Nat /\ RoundOf(root[w]) \in Nat
      BY TreeFacts DEF IInv, TypeOK
    <2>4. \/ RoundOf(CommitInfo(p)) >= RoundOf(CommitInfo(q))
          \/ RoundOf(CommitInfo(q)) >= RoundOf(CommitInfo(p))
      BY <2>1, <2>2, <2>3
    <2>5. QED
      BY <2>1, <2>2, <2>4, CommitsOnOneBranch
  <1>2. QED
    BY <1>1, Invariance, PTL

\* BlockStore::commit moves the root up its own branch and never off it.
THEOREM CommitsNeverRevert == Spec => CommitsAreFinal
  <1>1. IInv /\ [Next]_vars => [\A v \in Honest : Extends(root'[v], root[v])]_vars
    <2> SUFFICES ASSUME IInv, Next, NEW v \in Honest
                 PROVE  Extends(root'[v], root[v])
      OBVIOUS
    <2>1. root[v] \in BlockIds /\ RoundOf(root[v]) \in Nat
      BY TreeFacts DEF IInv, TypeOK
    <2>2. CASE root'[v] = root[v]
      BY <2>1, <2>2, TreeFacts DEF Extends
    <2>3. ASSUME NEW q \in BlockIds, Certified(q), root'[v] = CommitInfo(q),
                 RoundOf(root'[v]) > RoundOf(root[v])
          PROVE  Extends(root'[v], root[v])
      <3>1. PICK p \in BlockIds : Certified(p) /\ root[v] = CommitInfo(p)
        BY DEF IInv, PaceInv
      <3>2. RoundOf(CommitInfo(q)) >= RoundOf(CommitInfo(p))
        <4>1. RoundOf(CommitInfo(q)) \in Nat
          BY <2>3, CommitIsCertified, TreeFacts DEF CertifiedBlocks
        <4>2. QED
          BY <2>1, <2>3, <3>1, <4>1, Order
      <3>3. QED
        BY <2>3, <3>1, <3>2, CommitsOnOneBranch
    <2>4. ASSUME NEW u \in Honest, NEW q \in BlockIds, Certified(q), NEW t \in Rounds,
                 AddCerts(u, q, t)
          PROVE  Extends(root'[v], root[v])
      <3>1. PaceInv(u) /\ TypeOK
        BY DEF IInv
      <3>2. CASE u # v
        BY <2>2, <2>4, <3>1, <3>2, AddCertsFacts
      <3>3. CASE u = v
        BY <2>2, <2>3, <2>4, <3>1, <3>3, AddCertsFacts
      <3>4. QED
        BY <3>2, <3>3
    <2>5. ASSUME NEW u \in Honest, NEW q \in CertifiedBlocks, NEW t \in TimedOutRounds,
                 process_sync_info(u, q, t)
          PROVE  Extends(root'[v], root[v])
      BY <2>4, <2>5 DEF process_sync_info, CertifiedBlocks, TimedOutRounds
    <2>6. ASSUME NEW u \in Honest, NEW b \in BlockIds, NEW t \in TimedOutRounds,
                 ProposalInRound(u, b, t)
          PROVE  Extends(root'[v], root[v])
      BY <2>4, <2>6, TreeFacts DEF ProposalInRound, TimedOutRounds
    <2>7. ASSUME NEW u \in Honest, UNCHANGED root
          PROVE  Extends(root'[v], root[v])
      BY <2>2, <2>7
    <2>8. QED
      BY <2>5, <2>6, <2>7 DEF Next, process_proposal_msg, process_proposal_msg_crashes,
           process_local_timeout, process_local_timeout_crashes, Restart
  <1>2. QED
    BY <1>1, Invariance, PTL DEF Spec, CommitsAreFinal

\* No crash, late certificate or repeated message leaves a validator in a round it
\* cannot time out of: SafetyRules will sign what process_local_timeout asks for.
THEOREM TimeoutAlwaysPossible == Spec => []CanAlwaysTimeOut
  BY PaceAllowsTimeout, Invariance, PTL
=============================================================================
