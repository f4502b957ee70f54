----------------------------- MODULE TxBroadcast -----------------------------
(***************************************************************************)
(* LOKI inside a geth node: one eth peer, the write loop that sends it     *)
(* pooled transactions, and the FuzzTransactions goroutine LOKI adds.      *)
(*                                                                         *)
(* The handler hands batches of hashes to the loop over an unbuffered      *)
(* channel; the loop keeps a capped queue and runs at most one writer      *)
(* goroutine, which marks the batch as known, records it as a seed and     *)
(* sends it.  LOKI overwrites the transactions of a recorded batch in      *)
(* place, and these are the objects the transaction pool holds.            *)
(***************************************************************************)
EXTENDS Naturals, Sequences, FiniteSets, SequencesExt

CONSTANTS
    Txs,            \* transactions, one object each
    MaxQueuedTxs,   \* maxQueuedTxs
    MaxKnownTxs,    \* maxKnownTxs
    PackTxs,        \* how many transactions fill maxTxPacketSize
    MaxBroadcasts,  \* bound: batches the handler hands over
    MaxMarks        \* bound: transactions the remote peer announces

ASSUME LimitsAssumption ==
    /\ IsFiniteSet(Txs)
    /\ MaxQueuedTxs \in Nat \ {0} /\ MaxKnownTxs \in Nat \ {0} /\ PackTxs \in Nat \ {0}
    /\ MaxBroadcasts \in Nat /\ MaxMarks \in Nat

VARIABLES
    pool,       \* transactions the pool holds
    fuzzed,     \* transactions whose nonce, gas, prices, value were overwritten
    queue,      \* broadcastTransactions: hashes to send
    done,       \* broadcastTransactions: the channel done is not nil
    events,     \* what the writer signalled: "done" closed, "fail" buffered
    failed,     \* broadcastTransactions: a send failed
    loop,       \* the write loop is running
    term,       \* Peer.term is closed
    known,      \* Peer.knownTxs
    thread,     \* the goroutines that mark hashes as known
    recorded,   \* Peer.TransactionsMsgs
    broadcasts, marks

vars == <<pool, fuzzed, queue, done, events, failed, loop, term, known, thread,
          recorded, broadcasts, marks>>

Caller == "AsyncSendTransactions"
Writer == "SendTransactions"
Handler == "markTransaction"
Threads == {Caller, Writer, Handler}

Idle == [pc |-> "idle", txs |-> <<>>]

Init ==
    /\ pool = Txs /\ fuzzed = {}
    /\ queue = <<>> /\ done = FALSE /\ events = {} /\ failed = FALSE
    /\ loop = TRUE /\ term = FALSE
    /\ known = {} /\ recorded = {}
    /\ thread = [g \in Threads |-> Idle]
    /\ broadcasts = 0 /\ marks = 0

(***************************************************************************)
(* "New batch of transactions to be broadcast, queue them (with cap)": the *)
(* oldest entries are dropped.                                             *)
(***************************************************************************)
Capped_dropOneShort(q) ==
    IF Len(q) > MaxQueuedTxs + 1
    THEN SubSeq(q, Len(q) - MaxQueuedTxs, Len(q)) ELSE q

Capped(q) ==
    IF Len(q) > MaxQueuedTxs
    THEN SubSeq(q, Len(q) - MaxQueuedTxs + 1, Len(q)) ELSE q

(***************************************************************************)
(* The top of the write loop, run before every select: with no writer in   *)
(* flight, take entries until the pack is full, counting only what the     *)
(* pool still has, and start a writer if there is anything to send.        *)
(***************************************************************************)
InPool(q) ==
    LET txs[i \in 0..Len(q)] ==
            IF i = 0 THEN <<>>
            ELSE IF q[i] \in pool THEN Append(txs[i - 1], q[i]) ELSE txs[i - 1]
    IN txs[Len(q)]

Taken(q) ==
    CHOOSE i \in 0..Len(q) :
        /\ i = Len(q) \/ Len(InPool(SubSeq(q, 1, i))) >= PackTxs
        /\ \A j \in 0..(i - 1) : Len(InPool(SubSeq(q, 1, j))) < PackTxs

StartWriter_ignoreDone(q, inFlight, threads) ==
    LET txs == InPool(SubSeq(q, 1, Taken(q))) IN
    /\ queue' = SubSeq(q, Taken(q) + 1, Len(q))
    /\ done' = (inFlight \/ txs # <<>>)
    /\ thread' = IF txs = <<>> THEN threads
                 ELSE [threads EXCEPT ![Writer] = [pc |-> "evict", txs |-> txs]]

StartWriter(q, inFlight, threads) ==
    IF ~inFlight /\ q # <<>>
    THEN LET txs == InPool(SubSeq(q, 1, Taken(q))) IN
         /\ queue' = SubSeq(q, Taken(q) + 1, Len(q))
         /\ done' = (txs # <<>>)
         /\ thread' = IF txs = <<>> THEN threads
                      ELSE [threads EXCEPT ![Writer] = [pc |-> "evict", txs |-> txs]]
    ELSE /\ queue' = q
         /\ done' = inFlight
         /\ thread' = threads

(***************************************************************************)
(* handler.BroadcastTransactions picks transactions the peer is not known  *)
(* to have and calls AsyncSendTransactions.  A batch is far smaller than   *)
(* the known list: the pool holds fewer transactions than maxKnownTxs.     *)
(***************************************************************************)
BroadcastTransactions ==
    /\ thread[Caller].pc = "idle"
    /\ broadcasts < MaxBroadcasts
    /\ broadcasts' = broadcasts + 1
    /\ \E S \in SUBSET (pool \ known) :
          /\ S # {} /\ Cardinality(S) <= MaxKnownTxs
          /\ thread' = [thread EXCEPT ![Caller] = [pc |-> "offer", txs |-> SetToSeq(S)]]
    /\ UNCHANGED <<pool, fuzzed, queue, done, events, failed, loop, term, known,
                   recorded, marks>>

(***************************************************************************)
(* The rendezvous on txBroadcast, or on the closed term channel.           *)
(***************************************************************************)
QueueBatch ==
    LET handed == [thread EXCEPT ![Caller].pc = "evict"] IN
    /\ thread[Caller].pc = "offer"
    /\ loop
    /\ IF failed
       THEN thread' = handed /\ UNCHANGED <<queue, done>>
       ELSE StartWriter(Capped(queue \o thread[Caller].txs), done, handed)
    /\ UNCHANGED <<pool, fuzzed, events, failed, loop, term, known, recorded,
                   broadcasts, marks>>

DropBatch ==
    /\ thread[Caller].pc = "offer"
    /\ term
    /\ thread' = [thread EXCEPT ![Caller] = Idle]
    /\ UNCHANGED <<pool, fuzzed, queue, done, events, failed, loop, term, known,
                   recorded, broadcasts, marks>>

(***************************************************************************)
(* Marking hashes as known is two steps: pop until there is room for the   *)
(* batch, then add it.  The set locks each call, not the pair.             *)
(***************************************************************************)
Room(n) == IF n > MaxKnownTxs THEN 0 ELSE MaxKnownTxs - n

Evict(g) ==
    /\ thread[g].pc = "evict"
    /\ \E kept \in SUBSET known :
          /\ IF Cardinality(known) > Room(Len(thread[g].txs))
             THEN Cardinality(kept) = Room(Len(thread[g].txs))
             ELSE kept = known
          /\ known' = kept
    /\ thread' = [thread EXCEPT ![g].pc = "add"]
    /\ UNCHANGED <<pool, fuzzed, queue, done, events, failed, loop, term,
                   recorded, broadcasts, marks>>

Add(g) ==
    /\ thread[g].pc = "add"
    /\ known' = known \cup ToSet(thread[g].txs)
    /\ thread' = [thread EXCEPT ![g] = IF g = Writer THEN [@ EXCEPT !.pc = "send"]
                                                     ELSE Idle]
    /\ UNCHANGED <<pool, fuzzed, queue, done, events, failed, loop, term,
                   recorded, broadcasts, marks>>

(***************************************************************************)
(* The rest of SendTransactions: LOKI records the batch, the message goes  *)
(* out, and the writer goroutine closes done or reports the error.         *)
(***************************************************************************)
SendOutcome_errorLost(sent) == IF sent THEN {"done"} ELSE {}
SendOutcome(sent) == IF sent THEN {"done"} ELSE {"fail"}

SendTransactions ==
    /\ thread[Writer].pc = "send"
    /\ recorded' = recorded \cup {thread[Writer].txs}
    /\ \E sent \in BOOLEAN : events' = events \cup SendOutcome(sent)
    /\ thread' = [thread EXCEPT ![Writer] = Idle]
    /\ UNCHANGED <<pool, fuzzed, queue, done, failed, loop, term, known,
                   broadcasts, marks>>

(***************************************************************************)
(* The other three cases of the select.                                    *)
(***************************************************************************)
WriterDone_noRestart ==
    /\ loop /\ "done" \in events
    /\ events' = events \ {"done"}
    /\ done' = FALSE
    /\ UNCHANGED <<pool, fuzzed, queue, failed, loop, term, known, thread, recorded,
                   broadcasts, marks>>

WriterDone ==
    /\ loop /\ "done" \in events
    /\ events' = events \ {"done"}
    /\ StartWriter(queue, FALSE, thread)
    /\ UNCHANGED <<pool, fuzzed, failed, loop, term, known, recorded,
                   broadcasts, marks>>

WriterFailed_return ==
    /\ loop /\ "fail" \in events
    /\ loop' = FALSE
    /\ UNCHANGED <<pool, fuzzed, queue, done, events, failed, term, known, thread,
                   recorded, broadcasts, marks>>

WriterFailed ==
    /\ loop /\ "fail" \in events
    /\ events' = events \ {"fail"}
    /\ failed' = TRUE
    /\ UNCHANGED <<pool, fuzzed, queue, done, loop, term, known, thread, recorded,
                   broadcasts, marks>>

LoopTerminated ==
    /\ loop /\ term
    /\ loop' = FALSE
    /\ UNCHANGED <<pool, fuzzed, queue, done, events, failed, term, known, thread,
                   recorded, broadcasts, marks>>

Close ==
    /\ ~term
    /\ term' = TRUE
    /\ UNCHANGED <<pool, fuzzed, queue, done, events, failed, loop, known, thread,
                   recorded, broadcasts, marks>>

(***************************************************************************)
(* The remote peer announces or sends a transaction: markTransaction.      *)
(***************************************************************************)
markTransaction(t) ==
    /\ thread[Handler].pc = "idle"
    /\ marks < MaxMarks
    /\ marks' = marks + 1
    /\ thread' = [thread EXCEPT ![Handler] = [pc |-> "evict", txs |-> <<t>>]]
    /\ UNCHANGED <<pool, fuzzed, queue, done, events, failed, loop, term, known,
                   recorded, broadcasts>>

PoolRemove(t) ==
    /\ t \in pool
    /\ pool' = pool \ {t}
    /\ UNCHANGED <<fuzzed, queue, done, events, failed, loop, term, known, thread,
                   recorded, broadcasts, marks>>

(***************************************************************************)
(* FuzzTransactions, and the transaction case of FuzzMessages: overwrite   *)
(* the transactions of a recorded batch and send it.  The goroutines do    *)
(* not watch term.                                                         *)
(***************************************************************************)
FuzzTransactions ==
    /\ \E batch \in recorded : fuzzed' = fuzzed \cup ToSet(batch)
    /\ UNCHANGED <<pool, queue, done, events, failed, loop, term, known, thread,
                   recorded, broadcasts, marks>>

Loop == QueueBatch \/ WriterDone \/ WriterFailed \/ LoopTerminated

Next ==
    \/ BroadcastTransactions \/ DropBatch \/ Loop \/ SendTransactions \/ Close
    \/ \E g \in Threads : Evict(g) \/ Add(g)
    \/ \E t \in Txs : markTransaction(t) \/ PoolRemove(t)
    \/ FuzzTransactions

(***************************************************************************)
(* Goroutines that can run do run; closing the peer, new batches and what  *)
(* the remote peer sends are up to the environment.                        *)
(***************************************************************************)
Fairness ==
    /\ WF_vars(Loop)
    /\ WF_vars(DropBatch)
    /\ WF_vars(SendTransactions)
    /\ \A g \in Threads : WF_vars(Evict(g) \/ Add(g))

Spec == Init /\ [][Next]_vars /\ Fairness
-----------------------------------------------------------------------------
(***************************************************************************)
(* The values the loop's variables, the channels and the sets may take.    *)
(***************************************************************************)
TypeOK ==
    /\ pool \subseteq Txs /\ fuzzed \subseteq Txs /\ known \subseteq Txs
    /\ queue \in Seq(Txs) /\ Len(queue) <= MaxQueuedTxs
    /\ events \subseteq {"done", "fail"}
    /\ \A g \in Threads : /\ thread[g].pc \in {"idle", "offer", "evict", "add", "send"}
                           /\ thread[g].txs \in Seq(Txs)
    /\ broadcasts \in 0..MaxBroadcasts /\ marks \in 0..MaxMarks

(***************************************************************************)
(* While the loop of broadcastTransactions waits on done, someone will     *)
(* still signal it: a writer is in flight, has closed done, or has         *)
(* reported an error; the loop never waits for a writer that is gone.      *)
(***************************************************************************)
WaitsForSomeone ==
    loop /\ done /\ ~failed => thread[Writer].pc # "idle" \/ events # {}

(***************************************************************************)
(* One batch at a time: the loop starts no writer while one is in flight   *)
(* or its signal is unread, so batches reach the wire in queue order.      *)
(***************************************************************************)
NoWriterOverlap ==
    /\ Cardinality(events) + (IF thread[Writer].pc = "idle" THEN 0 ELSE 1) <= 1
    /\ (events # {} \/ thread[Writer].pc # "idle") => done

(***************************************************************************)
(* AsyncSendTransactions always returns to the node: the loop takes its    *)
(* batch even after a failed send, or the peer is closed.                  *)
(***************************************************************************)
CallerReturns == (thread[Caller].pc # "idle") ~> (thread[Caller].pc = "idle")

(***************************************************************************)
(* A queued hash leaves the queue (sent, dropped by the cap, or gone from  *)
(* the pool) unless a send failed or the peer was closed.                  *)
(***************************************************************************)
QueueServed ==
    \A t \in Txs : t \in ToSet(queue) ~> (t \notin ToSet(queue) \/ failed \/ term)

(***************************************************************************)
(* The pool files a transaction under its nonce (comment on txSortedMap),  *)
(* so a pooled transaction keeps the nonce it was added with.              *)
(***************************************************************************)
PooledKeepsNonce == pool \cap fuzzed = {}
=============================================================================
