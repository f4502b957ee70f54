---------------------------- MODULE AtomicVoter ----------------------------
(***************************************************************************)
(* What the safety rules of a Diem validator promise: one record of safety *)
(* data, read and replaced in one step under the voting rules.  There is   *)
(* no cache, no waypoint, no signer, no write that fails and no restart; a *)
(* vote or timeout that is recorded may be handed out at once, later, or   *)
(* never.  SafetyRules is shown to implement this specification.           *)
(***************************************************************************)
EXTENDS VotingRules

CONSTANTS
    Epochs,
    Blocks,        \* blocks the validator may be asked to vote for
    PlainTimeouts, \* rounds of the timeouts it may be asked to sign
    QcTimeouts,    \* timeouts with a certificate [round, hqc]
    TimeoutCerts,  \* two-chain timeout certificates [round, hqc]
    NoHqc          \* the certificate round of a plain timeout

VARIABLES
    data,          \* the SafetyData of the validator
    votes,         \* every vote handed out
    timeouts       \* every timeout signature handed out

vars == <<data, votes, timeouts>>

\* The rule under which a block may be voted for.
MayVote(b, rule) ==
    \/ rule = "3chain" /\ SafeForPreferredRound(b, data)
    \/ rule = "2chain" /\ \E tc \in TimeoutCerts : safe_to_vote(b, tc)

Vote(b, rule) ==
    LET vote == MakeVote(b, rule)
    IN  /\ b.epoch = data.epoch
        /\ WellFormed(b)
        /\ ~AlreadyVoted(b, data)
        /\ AboveLastVotedRound(b.round, data)
        /\ MayVote(b, rule)
        /\ data' = Voted(b, data, vote)
        /\ votes' \in {votes, votes \cup {vote}}
        /\ UNCHANGED timeouts

\* The recorded vote is handed out (again), whatever block was asked for.
ResendVote ==
    /\ data.last_vote # None
    /\ votes' = votes \cup {data.last_vote}
    /\ UNCHANGED <<data, timeouts>>

SignTimeout(round, hqc) ==
    /\ round >= data.last_voted_round
    /\ data' = [data EXCEPT !.last_voted_round = round]
    /\ timeouts' \in {timeouts,
                      timeouts \cup {[epoch |-> data.epoch, round |-> round, hqc |-> hqc]}}
    /\ UNCHANGED votes

PlainTimeout(round) ==
    /\ round > data.preferred_round
    /\ SignTimeout(round, NoHqc)

TimeoutWithQc(round, hqc) ==
    /\ \E tc \in TimeoutCerts : safe_to_timeout(round, hqc, tc, data)
    /\ SignTimeout(round, hqc)

EnterEpoch(e) ==
    /\ e > data.epoch
    /\ data' = FreshData(e)
    /\ UNCHANGED <<votes, timeouts>>

Init ==
    /\ data = FreshData(1)
    /\ votes = {}
    /\ timeouts = {}

Next ==
    \/ \E b \in Blocks, rule \in {"3chain", "2chain"} : Vote(b, rule)
    \/ ResendVote
    \/ \E r \in PlainTimeouts : PlainTimeout(r)
    \/ \E t \in QcTimeouts : TimeoutWithQc(t.round, t.hqc)
    \/ \E e \in Epochs : EnterEpoch(e)

Spec == Init /\ [][Next]_vars
=============================================================================
