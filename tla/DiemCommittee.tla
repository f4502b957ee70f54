--------------------------- MODULE DiemCommittee ---------------------------
(***************************************************************************)
(* A committee of Diem validators in one epoch: the round managers, their  *)
(* pacemakers (RoundState), the block stores as far as certificates and    *)
(* commits go, and the votes and timeouts that travel between them         *)
(* (round_manager.rs, round_state.rs, block_store.rs, sync_manager.rs).    *)
(* Voting itself uses the operators of VotingRules, on safety data that    *)
(* AtomicVoter shows to be one record.                                     *)
(*                                                                         *)
(* The network is the set of all votes and timeout signatures ever sent:   *)
(* any validator may see any of them at any time, in any order, again, or  *)
(* never.  Faulty validators sign whatever they like, so a certificate     *)
(* needs the honest members of some quorum only.  Any leader may propose   *)
(* any block, an honest one too: sign_proposal checks nothing.             *)
(* A validator whose messages LOKI mutates still signs by these rules; the *)
(* mutated copy keeps the old signature and is dropped, which here is a    *)
(* lost message.                                                           *)
(*                                                                         *)
(* Blocks form a fixed tree: each carries the certificate of its parent.   *)
(***************************************************************************)
EXTENDS VotingRules

CONSTANTS
    Honest,        \* validators that run the code as it is
    Quorums,       \* sets of validators with quorum_voting_power
    BlockIds,      \* every block that may ever be built in the epoch
    Genesis,
    RoundOf(_),    \* the round of a block
    Parent(_),     \* the block its quorum certificate certifies
    Ancestors(_),  \* the block and all blocks below it
    NilBlocks,     \* blocks of generate_nil_block: no author, no payload
    Crashing,      \* honest validators whose process may stop and restart
    CrashRounds,   \* rounds in which it may stop
    TimerRounds    \* rounds in which a local timer may expire

Rounds == 0 .. MaxRound

Vote == [epoch : {1}, round : Rounds, id : BlockIds, qc1 : Rounds, qc0 : Rounds,
         rule : {"3chain"}, commit : Rounds \cup {NoCommit}]

SafetyData == [epoch : {1}, last_voted_round : Rounds, preferred_round : Rounds,
               one_chain_round : Rounds, last_vote : Vote \cup {None}]

\* Two quorums have an honest validator in common (total * 2 / 3 + 1 of the power,
\* less than a third of it faulty); a block is above its parent; Ancestors follows
\* Parent down to Genesis.
ASSUME CommitteeAssumption ==
    /\ MaxRound \in Nat \ {0}
    /\ \A P, Q \in Quorums : P \cap Q \cap Honest # {}
    /\ Genesis \in BlockIds
    /\ NilBlocks \subseteq BlockIds \ {Genesis}
    /\ Crashing \subseteq Honest
    /\ TimerRounds \subseteq 1 .. MaxRound
    /\ \A b \in BlockIds : /\ RoundOf(b) \in Rounds
                            /\ Parent(b) \in BlockIds
                            /\ Ancestors(b) \subseteq BlockIds
    /\ RoundOf(Genesis) = 0 /\ Parent(Genesis) = Genesis /\ Ancestors(Genesis) = {Genesis}
    /\ \A b \in BlockIds \ {Genesis} : /\ RoundOf(Parent(b)) < RoundOf(b)
                                       /\ Ancestors(b) = {b} \cup Ancestors(Parent(b))
    /\ \A b \in BlockIds : Genesis \in Ancestors(b)
    /\ None \notin BlockIds /\ None \notin Vote

VARIABLES
    safety,    \* safety data of each honest validator (durable)
    saved,     \* the last vote in the consensus database, or None (durable)
    hqc,       \* highest_quorum_cert, as the block it certifies (durable)
    htc,       \* round of highest_timeout_cert, 0 for none (durable)
    root,      \* root of the block tree: the last committed block (durable)
    round,     \* current_round of RoundState
    sent,      \* vote_sent of RoundState: the block voted for, or None
    votes,     \* the blocks each honest validator has sent a vote for
    timeouts   \* the rounds each honest validator has sent a timeout signature for

vars == <<safety, saved, hqc, htc, root, round, sent, votes, timeouts>>

\* The block as the voting rules see it.
Shape(b) ==
    [epoch |-> 1, round |-> RoundOf(b), id |-> b,
     qc1 |-> RoundOf(Parent(b)), qc0 |-> RoundOf(Parent(Parent(b)))]

Extends(b, a) == a \in Ancestors(b)

-----------------------------------------------------------------------------
(***************************************************************************)
(* Certificates                                                            *)
(***************************************************************************)

\* What the honest members of a quorum must sign; the others sign anything.
HonestParts == {Q \cap Honest : Q \in Quorums}

\* Faulty variant of Certified: the power of one honest validator is enough.
Certified_any_vote(b) == b = Genesis \/ \E v \in Honest : b \in votes[v]

\* PendingVotes::insert_vote and check_voting_power: a quorum signed the block.
Certified(b) ==
    b = Genesis \/ \E P \in HonestParts : \A v \in P : b \in votes[v]

\* The same for a timeout certificate of round r; round 0 stands for none.
TimedOut(r) ==
    r = 0 \/ \E P \in HonestParts : \A v \in P : r \in timeouts[v]

CertifiedBlocks == {b \in BlockIds : Certified(b)}

TimedOutRounds == {r \in Rounds : TimedOut(r)}

\* commit_info of the certificate of block b.
CommitInfo(b) ==
    IF construct_ledger_info(Shape(b)) = NoCommit THEN Genesis ELSE Parent(Parent(b))

\* Faulty variant of AddCerts: the commit of any certificate is taken.
AddCerts_any_commit(v, q, t) ==
    /\ hqc' = [hqc EXCEPT ![v] = IF RoundOf(q) > RoundOf(@) THEN q ELSE @]
    /\ htc' = [htc EXCEPT ![v] = max(@, t)]
    /\ root' = [root EXCEPT ![v] = CommitInfo(q)]
    /\ round' = [round EXCEPT ![v] = max(@, max(RoundOf(hqc'[v]), htc'[v]) + 1)]

\* Faulty variant of AddCerts: the certified block is committed, not the one its
\* commit_info names.
AddCerts_commits_certified(v, q, t) ==
    /\ hqc' = [hqc EXCEPT ![v] = IF RoundOf(q) > RoundOf(@) THEN q ELSE @]
    /\ htc' = [htc EXCEPT ![v] = max(@, t)]
    /\ root' = [root EXCEPT ![v] = IF Extends(q, @) THEN q ELSE @]
    /\ round' = [round EXCEPT ![v] = max(@, max(RoundOf(hqc'[v]), htc'[v]) + 1)]

\* add_certs and process_certificates: the certificates are inserted into the
\* block store, a commit they carry moves the root, and the highest of them
\* starts the round after it.
AddCerts(v, q, t) ==
    /\ hqc' = [hqc EXCEPT ![v] = IF RoundOf(q) > RoundOf(@) THEN q ELSE @]
    /\ htc' = [htc EXCEPT ![v] = max(@, t)]
    /\ root' = [root EXCEPT ![v] = IF RoundOf(CommitInfo(q)) > RoundOf(@) THEN CommitInfo(q) ELSE @]
    /\ round' = [round EXCEPT ![v] = max(@, max(RoundOf(hqc'[v]), htc'[v]) + 1)]

\* vote_sent once the round is r: forgotten when a new round starts.
SentIn(v, r) == IF r > round[v] THEN None ELSE sent[v]

\* SyncInfo::new: a timeout certificate goes with the QC only when it is above it
\* (a lower one, from a faulty sender, would change no round).
SyncInfo(q, t) == t = 0 \/ t > RoundOf(q)

\* has_newer_certificates: a timeout certificate counts above the highest QC only.
Newer(v, q, t) ==
    \/ RoundOf(q) > RoundOf(hqc[v])
    \/ t > (IF htc[v] > RoundOf(hqc[v]) THEN htc[v] ELSE 0)
    \/ RoundOf(CommitInfo(q)) > RoundOf(root[v])

-----------------------------------------------------------------------------
(***************************************************************************)
(* Voting                                                                  *)
(***************************************************************************)

\* SafetyRules::construct_and_sign_vote: the vote it returns for block b, or
\* None when it refuses.  A round already voted in gets the recorded vote.
SignedVote(v, b) ==
    IF AlreadyVoted(Shape(b), safety[v]) THEN safety[v].last_vote.id
    ELSE IF /\ SafeForPreferredRound(Shape(b), safety[v])
            /\ AboveLastVotedRound(RoundOf(b), safety[v])
         THEN b ELSE None

\* The safety data it leaves behind.
SafetyAfter(v, b) ==
    IF AlreadyVoted(Shape(b), safety[v]) THEN safety[v]
    ELSE Voted(Shape(b), safety[v], MakeVote(Shape(b), "3chain"))

\* execute_and_vote up to the call of SafetyRules.
MayAskForVote(v, b, r) ==
    /\ SentIn(v, r) = None
    /\ SignedVote(v, b) # None

-----------------------------------------------------------------------------
(***************************************************************************)
(* Handlers                                                                *)
(***************************************************************************)

\* process_sync_info_msg, and the sync_up of every other message whose own
\* content is then dropped: q and t are the certificates of the sender.
process_sync_info(v, q, t) ==
    /\ SyncInfo(q, t)
    /\ Newer(v, q, t)
    /\ AddCerts(v, q, t)
    /\ sent' = [sent EXCEPT ![v] = SentIn(v, round'[v])]
    /\ UNCHANGED <<safety, saved, votes, timeouts>>

\* ProposalMsg::verify_well_formed and ensure_round_and_sync_up: the message
\* proves the round before, and brings the validator into the round of b.
ProposalInRound(v, b, t) ==
    /\ b \notin NilBlocks
    /\ SyncInfo(Parent(b), t)
    /\ RoundOf(b) = max(RoundOf(Parent(b)), t) + 1
    /\ RoundOf(b) >= round[v]
    /\ Certified(Parent(b))
    /\ AddCerts(v, Parent(b), t)
    /\ round'[v] = RoundOf(b)

process_proposal_msg(v, b, t) ==
    /\ ProposalInRound(v, b, t)
    /\ MayAskForVote(v, b, RoundOf(b))
    /\ LET vote == SignedVote(v, b)
       IN  /\ safety' = [safety EXCEPT ![v] = SafetyAfter(v, b)]
           /\ saved' = [saved EXCEPT ![v] = vote]
           /\ sent' = [sent EXCEPT ![v] = vote]
           /\ votes' = [votes EXCEPT ![v] = @ \cup {vote}]
    /\ UNCHANGED timeouts

\* vote_sent of a process that starts in round r with vote s in the database.
SentOnStart(s, r) == IF s # None /\ RoundOf(s) = r THEN s ELSE None

\* The process stops after SafetyRules stored the vote for b in round r, before or
\* after save_vote but before the vote is sent, and starts again.
VoteThenCrash(v, b, r) ==
    /\ v \in Crashing /\ r \in CrashRounds
    /\ MayAskForVote(v, b, r)
    /\ safety' = [safety EXCEPT ![v] = SafetyAfter(v, b)]
    /\ saved' \in {saved, [saved EXCEPT ![v] = SignedVote(v, b)]}
    /\ sent' = [sent EXCEPT ![v] = SentOnStart(saved'[v], r)]
    /\ UNCHANGED <<votes, timeouts>>

process_proposal_msg_crashes(v, b, t) ==
    /\ ProposalInRound(v, b, t)
    /\ VoteThenCrash(v, b, RoundOf(b))

\* sign_timeout on the safety data sd: its condition, and what it leaves behind.
TimeoutAllowed(r, sd) == r > sd.preferred_round /\ r >= sd.last_voted_round

AfterTimeout(r, sd) == [sd EXCEPT !.last_voted_round = r]

\* generate_nil_block
NilBlockFor(v, b) ==
    b \in NilBlocks /\ round[v] \in TimerRounds /\ RoundOf(b) = round[v] /\ Parent(b) = hqc[v]

\* process_local_timeout: the vote of this round is repeated, or a NIL block on
\* the highest certificate is voted for; either way with a timeout signature.
process_local_timeout(v) ==
    /\ round[v] \in TimerRounds
    /\ \/ /\ sent[v] # None
          /\ TimeoutAllowed(round[v], safety[v])
          /\ safety' = [safety EXCEPT ![v] = AfterTimeout(round[v], @)]
          /\ votes' = [votes EXCEPT ![v] = @ \cup {sent[v]}]
          /\ UNCHANGED <<saved, sent>>
       \/ \E b \in BlockIds :
            LET vote == SignedVote(v, b)
            IN  /\ NilBlockFor(v, b)
                /\ MayAskForVote(v, b, round[v])
                /\ TimeoutAllowed(round[v], SafetyAfter(v, b))
                /\ safety' = [safety EXCEPT ![v] = AfterTimeout(round[v], SafetyAfter(v, b))]
                /\ saved' = [saved EXCEPT ![v] = vote]
                /\ sent' = [sent EXCEPT ![v] = vote]
                /\ votes' = [votes EXCEPT ![v] = @ \cup {vote}]
    /\ timeouts' = [timeouts EXCEPT ![v] = @ \cup {round[v]}]
    /\ UNCHANGED <<hqc, htc, root, round>>

process_local_timeout_crashes(v, b) ==
    /\ NilBlockFor(v, b)
    /\ VoteThenCrash(v, b, round[v])
    /\ UNCHANGED <<hqc, htc, root, round>>

\* Faulty variant of Restart: the round follows from the committed root alone.
Restart_from_root(v) ==
    /\ v \in Crashing /\ round[v] \in CrashRounds
    /\ round' = [round EXCEPT ![v] = RoundOf(root[v]) + 1]
    /\ sent' = [sent EXCEPT ![v] = SentOnStart(saved[v], round'[v])]
    /\ UNCHANGED <<safety, saved, hqc, htc, root, votes, timeouts>>

\* The process stops between two messages and starts again (RoundManager::start):
\* the round follows from the stored certificates.
Restart(v) ==
    /\ v \in Crashing /\ round[v] \in CrashRounds
    /\ round' = [round EXCEPT ![v] = max(RoundOf(hqc[v]), htc[v]) + 1]
    /\ sent' = [sent EXCEPT ![v] = SentOnStart(saved[v], round'[v])]
    /\ UNCHANGED <<safety, saved, hqc, htc, root, votes, timeouts>>

-----------------------------------------------------------------------------
Init ==
    /\ safety = [v \in Honest |-> FreshData(1)]
    /\ saved = [v \in Honest |-> None]
    /\ hqc = [v \in Honest |-> Genesis]
    /\ htc = [v \in Honest |-> 0]
    /\ root = [v \in Honest |-> Genesis]
    /\ round = [v \in Honest |-> 1]
    /\ sent = [v \in Honest |-> None]
    /\ votes = [v \in Honest |-> {}]
    /\ timeouts = [v \in Honest |-> {}]

Next ==
    \E v \in Honest :
        \/ \E q \in CertifiedBlocks, t \in TimedOutRounds : process_sync_info(v, q, t)
        \/ \E b \in BlockIds, t \in TimedOutRounds : process_proposal_msg(v, b, t)
        \/ \E b \in BlockIds, t \in TimedOutRounds : process_proposal_msg_crashes(v, b, t)
        \/ process_local_timeout(v)
        \/ \E b \in BlockIds : process_local_timeout_crashes(v, b)
        \/ Restart(v)

Spec == Init /\ [][Next]_vars

-----------------------------------------------------------------------------
(***************************************************************************)
(* Properties                                                              *)
(***************************************************************************)

TypeOK ==
    /\ safety \in [Honest -> SafetyData]
    /\ saved \in [Honest -> BlockIds \cup {None}]
    /\ sent \in [Honest -> BlockIds \cup {None}]
    /\ hqc \in [Honest -> BlockIds]
    /\ root \in [Honest -> BlockIds]
    /\ htc \in [Honest -> Rounds]
    /\ round \in [Honest -> 1 .. MaxRound + 1]
    /\ votes \in [Honest -> SUBSET BlockIds]
    /\ timeouts \in [Honest -> SUBSET Rounds]

\* The safety invariant BlockTree::insert_quorum_cert asks for: two certificates
\* of one round certify the same block, whatever crashed between recording,
\* saving and sending a vote.
OneCertificatePerRound ==
    \A b, c \in CertifiedBlocks : RoundOf(b) = RoundOf(c) => b = c

\* What makes the commit rule of construct_ledger_info final: once a certificate
\* commits a block, every certified block of that round or a later one extends it.
CertifiedExtendsCommitted ==
    \A b, c \in CertifiedBlocks :
        RoundOf(c) >= RoundOf(CommitInfo(b)) => Extends(c, CommitInfo(b))

\* Agreement: the committed chains of any two validators lie on one branch, so
\* path_from_root in BlockStore::commit always finds the path it commits.
Agreement ==
    \A v, w \in Honest : Extends(root[v], root[w]) \/ Extends(root[w], root[v])

\* A validator's committed chain only grows.
CommitsAreFinal == [][\A v \in Honest : Extends(root'[v], root[v])]_vars

\* A validator can always leave its round: in whatever state a crash between
\* SafetyRules, the database and the network left it, it either still holds the
\* vote of the round or SafetyRules will give it one for the NIL block on its
\* highest certificate, and the timeout can be signed.
CanAlwaysTimeOut ==
    \A v \in Honest :
        round[v] <= MaxRound =>
            /\ round[v] > safety[v].preferred_round
            /\ round[v] >= safety[v].last_voted_round
            /\ \/ sent[v] # None
               \/ RoundOf(hqc[v]) >= safety[v].preferred_round
                  /\ (safety[v].last_voted_round = round[v] =>
                        safety[v].last_vote # None /\ safety[v].last_vote.round = round[v])
=============================================================================
