---------------------------- MODULE VotingRules ----------------------------
(***************************************************************************)
(* The voting and timeout rules of Diem as operators on a block and on the *)
(* safety data of a validator (safety_rules.rs, safety_rules_2chain.rs).   *)
(* SafetyRules applies them to the stored data of one validator,           *)
(* AtomicVoter states what that amounts to, and DiemCommittee puts many    *)
(* validators together.                                                    *)
(*                                                                         *)
(* A block is its epoch, round, id and the rounds its quorum certificate   *)
(* (QC) names: qc1 of the certified block, qc0 of that block's parent.     *)
(***************************************************************************)
EXTENDS Integers

CONSTANTS
    MaxRound,      \* u64::MAX, scaled down
    None

\* A LedgerInfo over BlockInfo::empty(): the vote commits nothing.
NoCommit == -1

FreshData(e) == [epoch |-> e, last_voted_round |-> 0, preferred_round |-> 0,
                 one_chain_round |-> 0, last_vote |-> None]

max(a, b) == IF a > b THEN a ELSE b

\* next_round is a checked_add; a caller's `?' turns the overflow into an error.
HasNextRound(r) == r < MaxRound

\* Faulty variant of observe_qc: preferred_round is not raised.
observe_qc_no_preferred(b, sd) == [sd EXCEPT !.one_chain_round = max(@, b.qc1)]

\* observe_qc
observe_qc(b, sd) ==
    [sd EXCEPT !.one_chain_round = max(@, b.qc1),
               !.preferred_round = max(@, b.qc0)]

\* The part of verify_proposal that looks at the block alone: VoteData::verify
\* for its certificate and Block::verify_well_formed.
WellFormed(b) ==
    /\ b.qc0 < b.qc1 \/ (b.qc1 = 0 /\ b.qc0 = 0)
    /\ b.qc1 < b.round

\* guarded_construct_and_sign_vote returns the recorded vote of the round again.
AlreadyVoted(b, sd) == sd.last_vote # None /\ sd.last_vote.round = b.round

\* verify_and_update_preferred_round: the second voting rule of the three-chain.
SafeForPreferredRound(b, sd) == b.qc1 >= sd.preferred_round

\* Faulty variant of AboveLastVotedRound: off by one.
AtLastVotedRound(r, sd) == r >= sd.last_voted_round

\* verify_and_update_last_vote_round: the first voting rule.
AboveLastVotedRound(r, sd) == r > sd.last_voted_round

\* construct_ledger_info: which block a certified three-chain vote commits.
construct_ledger_info(b) ==
    IF b.qc0 + 1 = b.qc1 /\ b.qc1 + 1 = b.round THEN b.qc0 ELSE NoCommit

\* construct_ledger_info_2chain
construct_ledger_info_2chain(b) ==
    IF b.qc1 + 1 = b.round THEN b.qc1 ELSE NoCommit

safe_to_vote(b, tc) ==
    /\ HasNextRound(b.qc1)
    /\ \/ b.round = b.qc1 + 1
       \/ HasNextRound(tc.round) /\ b.round = tc.round + 1 /\ b.qc1 >= tc.hqc

\* Faulty variant of safe_to_timeout: rule 2 (one_chain_round) is missing.
safe_to_timeout_any_qc(round, hqc, tc, sd) ==
    /\ HasNextRound(hqc)
    /\ \/ round = hqc + 1
       \/ HasNextRound(tc.round) /\ round = tc.round + 1

safe_to_timeout(round, hqc, tc, sd) ==
    /\ HasNextRound(hqc)
    /\ \/ round = hqc + 1
       \/ HasNextRound(tc.round) /\ round = tc.round + 1
    /\ hqc >= sd.one_chain_round

MakeVote(b, rule) ==
    [epoch |-> b.epoch, round |-> b.round, id |-> b.id, qc1 |-> b.qc1, qc0 |-> b.qc0,
     rule |-> rule,
     commit |-> IF rule = "3chain" THEN construct_ledger_info(b)
                                   ELSE construct_ledger_info_2chain(b)]

\* Faulty variant of Voted: the certificate is observed, the vote not recorded.
Voted_unrecorded(b, sd, v) == observe_qc(b, sd)

\* The safety data a vote v for block b leaves behind: both checks passed, the
\* certificate observed, the round and the vote recorded.
Voted(b, sd, v) ==
    [observe_qc(b, sd) EXCEPT !.last_voted_round = b.round, !.last_vote = v]
=============================================================================
