-------------------------- MODULE TxBroadcastProofs --------------------------
(***************************************************************************)
(* Proofs about the hand-over between the write loop and its writer, and   *)
(* the cap of its queue, for any pool, any limits and any number of        *)
(* batches.                                                                *)
(***************************************************************************)
EXTENDS TxBroadcast, FiniteSetTheorems, TLAPS

-----------------------------------------------------------------------------
(***************************************************************************)
(* Induction over the entries of a queue: a set of bounds has a least one. *)
(***************************************************************************)
LEMMA Least ==
    ASSUME NEW n \in Nat, NEW B, B \subseteq 0..n, B # {}
    PROVE  \E m \in B : \A j \in B : m <= j
<1> DEFINE T == {0..j : j \in B}
<1>1. IsFiniteSet(0..n)
  <2>1. 0 \in Int /\ n \in Int
    OBVIOUS
  <2> QED
    BY <2>1, FS_Interval
<1>2. IsWellFoundedOn(StrictSubsetOrdering(0..n), SUBSET (0..n))
  BY <1>1, FS_StrictSubsetOrderingWellFounded, FS_FiniteSubsetsOfFinite
<1>3. T \subseteq SUBSET (0..n) /\ T # {}
  <2>1. ASSUME NEW j \in B PROVE 0..j \subseteq 0..n
    <3>1. j \in 0..n
      OBVIOUS
    <3> QED
      BY <3>1
  <2> QED
    BY <2>1
<1>4. PICK t \in T : \A u \in T : ~(<<u, t>> \in StrictSubsetOrdering(0..n))
  BY <1>2, <1>3, WFMin
<1>5. PICK m \in B : t = 0..m
  BY <1>4
<1>6. ASSUME NEW j \in B, ~(m <= j) PROVE FALSE
  <2>1. j \in Nat /\ m \in Nat /\ j < m
    BY <1>6
  <2>2. 0..j \subseteq 0..m /\ m \in 0..m /\ m \notin 0..j
    BY <2>1
  <2>3. 0..j \in SUBSET (0..n) /\ 0..m \in SUBSET (0..n)
    BY <1>3
  <2>4. <<0..j, 0..m>> \in StrictSubsetOrdering(0..n)
    BY <2>2, <2>3 DEF StrictSubsetOrdering
  <2> QED
    BY <1>4, <1>5, <2>4
<1> QED
  BY <1>6

(***************************************************************************)
(* The pass over the first n entries of the queue.                         *)
(***************************************************************************)
Entry(f, q, i) ==
    IF i = 0 THEN <<>> ELSE IF q[i] \in pool THEN Append(f[i - 1], q[i]) ELSE f[i - 1]

IsPass(f, q) == f = [i \in 0..Len(q) |-> Entry(f, q, i)]

LEMMA InPoolUnfolds ==
    ASSUME NEW q
    PROVE  InPool(q) = (CHOOSE f : IsPass(f, q))[Len(q)]
BY DEF InPool, IsPass, Entry

(***************************************************************************)
(* The pass is defined: one over n - 1 entries extends to one over n.      *)
(***************************************************************************)
LEMMA PassExists ==
    ASSUME NEW q \in Seq(Txs)
    PROVE  \E f : IsPass(f, q)
<1> DEFINE n == Len(q)
           Built(k) == \E f \in [0..k -> Seq(Txs)] : \A i \in 0..k : f[i] = Entry(f, q, i)
           Bad == {k \in 0..n : ~Built(k)}
<1>1. n \in Nat /\ \A i \in 1..n : q[i] \in Txs
  OBVIOUS
<1>2. ASSUME Bad # {} PROVE FALSE
  <2>1. PICK m \in Bad : \A j \in Bad : m <= j
    BY <1>1, <1>2, Least
  <2>2. m # 0
    <3> DEFINE f == [i \in 0..0 |-> <<>>]
    <3>1. f \in [0..0 -> Seq(Txs)]
      OBVIOUS
    <3>2. ASSUME NEW i \in 0..0 PROVE f[i] = Entry(f, q, i)
      BY DEF Entry
    <3>3. Built(0)
      BY <3>1, <3>2
    <3> QED
      BY <2>1, <3>3
  <2>3. m \in 0..n /\ m - 1 \in 0..n /\ m - 1 \notin Bad
    <3>1. m \in 0..n /\ n \in Nat
      BY <1>1, <2>1
    <3>2. m - 1 \in 0..n /\ ~(m <= m - 1)
      BY <2>2, <3>1
    <3> QED
      BY <2>1, <3>1, <3>2
  <2>4. PICK f \in [0..(m - 1) -> Seq(Txs)] : \A i \in 0..(m - 1) : f[i] = Entry(f, q, i)
    BY <2>3
  <2>5. Entry(f, q, m) \in Seq(Txs)
    <3>1. f[m - 1] \in Seq(Txs) /\ q[m] \in Txs
      BY <1>1, <2>2, <2>3, <2>4
    <3> QED
      BY <2>2, <3>1 DEF Entry
  <2> DEFINE g == [i \in 0..m |-> IF i = m THEN Entry(f, q, m) ELSE f[i]]
  <2>6. g \in [0..m -> Seq(Txs)]
    BY <1>1, <2>3, <2>4, <2>5
  <2>7. ASSUME NEW i \in 0..m PROVE g[i] = Entry(g, q, i)
    <3>1. g[i] = Entry(f, q, i)
      BY <1>1, <2>3, <2>4
    <3>2. i # 0 => g[i - 1] = f[i - 1]
      BY <1>1, <2>3
    <3> QED
      BY <3>1, <3>2 DEF Entry
  <2>8. Built(m)
    BY <2>6, <2>7
  <2> QED
    BY <2>1, <2>8
<1>3. Built(n)
  <2>1. n \in 0..n
    BY <1>1
  <2> HIDE DEF Built
  <2> QED
    BY <1>2, <2>1
<1>4. PICK f \in [0..n -> Seq(Txs)] : \A i \in 0..n : f[i] = Entry(f, q, i)
  BY <1>3
<1>5. f = [i \in 0..n |-> f[i]]
  BY <1>4
<1>6. f = [i \in 0..n |-> Entry(f, q, i)]
  BY <1>4, <1>5
<1> QED
  BY <1>6 DEF IsPass

(***************************************************************************)
(* What the loop takes for the writer is a list of transactions.           *)
(***************************************************************************)
LEMMA InPoolType ==
    ASSUME NEW q \in Seq(Txs)
    PROVE  InPool(q) \in Seq(Txs)
<1> DEFINE n == Len(q)
           f == CHOOSE f : IsPass(f, q)
           Bad == {k \in 0..n : f[k] \notin Seq(Txs)}
<1>1. n \in Nat /\ \A i \in 1..n : q[i] \in Txs
  OBVIOUS
<1>2. IsPass(f, q)
  BY PassExists
<1>3. InPool(q) = f[n]
  BY InPoolUnfolds
<1> HIDE DEF f
<1>4. \A i \in 0..n : f[i] = Entry(f, q, i)
  BY <1>2 DEF IsPass
<1>5. ASSUME Bad # {} PROVE FALSE
  <2>1. PICK m \in Bad : \A j \in Bad : m <= j
    BY <1>1, <1>5, Least
  <2>2. m # 0
    <3>1. 0 \in 0..n
      BY <1>1
    <3>2. f[0] = <<>>
      BY <1>4, <3>1 DEF Entry
    <3>3. f[0] \in Seq(Txs)
      BY <3>2
    <3> QED
      BY <2>1, <3>3
  <2>3. m \in 0..n /\ m - 1 \in 0..n /\ m - 1 \notin Bad
    <3>1. m \in 0..n /\ n \in Nat
      BY <1>1, <2>1
    <3>2. m - 1 \in 0..n /\ ~(m <= m - 1)
      BY <2>2, <3>1
    <3> QED
      BY <2>1, <3>1, <3>2
  <2>4. f[m - 1] \in Seq(Txs) /\ f[m] = Entry(f, q, m)
    BY <1>4, <2>3
  <2>5. q[m] \in Txs
    BY <1>1, <2>2, <2>3
  <2>6. f[m] \in Seq(Txs)
    BY <2>2, <2>4, <2>5 DEF Entry
  <2> QED
    BY <2>1, <2>6
<1> QED
  BY <1>1, <1>3, <1>5

(***************************************************************************)
(* The pass over the queue stops at the first full pack, or at the end.    *)
(***************************************************************************)
LEMMA TakenFacts ==
    ASSUME NEW q \in Seq(Txs)
    PROVE  Taken(q) \in 0..Len(q)
<1> DEFINE n == Len(q)
           Full(i) == i = n \/ Len(InPool(SubSeq(q, 1, i))) >= PackTxs
           B == {i \in 0..n : Full(i)}
<1>1. n \in Nat /\ n \in B
  OBVIOUS
<1>2. PICK m \in B : \A j \in B : m <= j
  BY <1>1, Least
<1>3. ASSUME NEW j \in 0..(m - 1)
      PROVE  Len(InPool(SubSeq(q, 1, j))) < PackTxs
  <2>1. j \in 0..n /\ j < m /\ j # n
    BY <1>1, <1>2
  <2>2. ~(Len(InPool(SubSeq(q, 1, j))) >= PackTxs)
    BY <1>2, <2>1
  <2>3. SubSeq(q, 1, j) \in Seq(Txs)
    BY <1>1, <2>1
  <2>4. Len(InPool(SubSeq(q, 1, j))) \in Nat
    BY <2>3, InPoolType
  <2> QED
    BY <2>2, <2>4, LimitsAssumption DEF LimitsAssumption
<1>4. \E i \in 0..n : /\ i = n \/ Len(InPool(SubSeq(q, 1, i))) >= PackTxs
                      /\ \A j \in 0..(i - 1) : Len(InPool(SubSeq(q, 1, j))) < PackTxs
  BY <1>2, <1>3
<1> QED
  BY <1>4 DEF Taken

-----------------------------------------------------------------------------
(***************************************************************************)
(* A goroutine has a program counter, whatever batch it carries.           *)
(***************************************************************************)
Shape(t) == /\ t = [g \in Threads |-> t[g]]
            /\ \A g \in Threads : "pc" \in DOMAIN t[g]

(***************************************************************************)
(* The inductive invariant: at most one signal is unread, none while a     *)
(* writer is in flight, and done is not nil as long as there is either.    *)
(***************************************************************************)
IInv ==
    /\ Shape(thread) /\ done \in BOOLEAN
    /\ events \in {{}, {"done"}, {"fail"}}
    /\ events # {} => thread[Writer].pc = "idle"
    /\ (events # {} \/ thread[Writer].pc # "idle") => done
    /\ WaitsForSomeone

LEMMA WriterIsThread == Writer \in Threads /\ Caller \in Threads /\ Handler \in Threads
                        /\ Writer # Caller /\ Writer # Handler
BY DEF Threads, Writer, Caller, Handler

LEMMA InitIInv == Init => IInv
<1> SUFFICES ASSUME Init PROVE IInv
  OBVIOUS
<1>1. thread = [g \in Threads |-> Idle] /\ "pc" \in DOMAIN Idle /\ Idle.pc = "idle"
  BY DEF Init, Idle
<1>2. Shape(thread) /\ thread[Writer] = Idle
  BY <1>1, WriterIsThread DEF Shape
<1>3. events = {} /\ done = FALSE
  BY DEF Init
<1> QED  BY <1>1, <1>2, <1>3 DEF IInv, WaitsForSomeone

(***************************************************************************)
(* The top of the loop starts a writer only when none is in flight, and    *)
(* done is not nil exactly when one is then.                               *)
(***************************************************************************)
LEMMA StartFacts ==
    ASSUME NEW s, NEW inFlight \in BOOLEAN, NEW threads, Shape(threads),
           StartWriter(s, inFlight, threads)
    PROVE  /\ Shape(thread') /\ done' \in BOOLEAN
           /\ inFlight => done' /\ thread'[Writer].pc = threads[Writer].pc
           /\ ~inFlight /\ done' => thread'[Writer].pc # "idle"
           /\ ~inFlight /\ ~done' => thread'[Writer].pc = threads[Writer].pc
<1> DEFINE txs == InPool(SubSeq(s, 1, Taken(s)))
           w == [pc |-> "evict", txs |-> txs]
<1>1. CASE inFlight \/ s = <<>>
  BY <1>1 DEF StartWriter
<1>2. CASE ~inFlight /\ s # <<>>
  <2>1. done' = (txs # <<>>) /\ thread' = IF txs = <<>> THEN threads ELSE [threads EXCEPT ![Writer] = w]
    BY <1>2 DEF StartWriter
  <2>2. w.pc = "evict" /\ "pc" \in DOMAIN w
    OBVIOUS
  <2> HIDE DEF txs, w
  <2>3. Shape([threads EXCEPT ![Writer] = w]) /\ [threads EXCEPT ![Writer] = w][Writer] = w
    BY <2>2, WriterIsThread DEF Shape
  <2> QED  BY <1>2, <2>1, <2>2, <2>3
<1> QED  BY <1>1, <1>2

LEMMA ThreadStep ==
    ASSUME Shape(thread), NEW g \in Threads, NEW r, "pc" \in DOMAIN r,
           thread' = [thread EXCEPT ![g] = r]
    PROVE  /\ Shape(thread')
           /\ thread'[g] = r
           /\ \A f \in Threads \ {g} : thread'[f] = thread[f]
BY DEF Shape

(***************************************************************************)
(* A step that leaves the loop, the writer and the signals alone.          *)
(***************************************************************************)
LEMMA NothingHandedOver ==
    ASSUME IInv, UNCHANGED <<events, done, failed, loop>>, Shape(thread'),
           (thread'[Writer].pc = "idle") <=> (thread[Writer].pc = "idle")
    PROVE  IInv'
BY DEF IInv, WaitsForSomeone

LEMMA Invariance == IInv /\ [Next]_vars => IInv'
<1> SUFFICES ASSUME IInv, [Next]_vars PROVE IInv'
  OBVIOUS
<1> USE WriterIsThread
<1>s. Shape(thread) /\ \A g \in Threads : "pc" \in DOMAIN thread[g]
  BY DEF IInv, Shape
<1>1. CASE BroadcastTransactions
  <2>1. PICK S \in SUBSET (pool \ known) :
          thread' = [thread EXCEPT ![Caller] = [pc |-> "offer", txs |-> SetToSeq(S)]]
    BY <1>1 DEF BroadcastTransactions
  <2> DEFINE r == [pc |-> "offer", txs |-> SetToSeq(S)]
  <2>r. "pc" \in DOMAIN r /\ thread' = [thread EXCEPT ![Caller] = r]
    BY <2>1
  <2> HIDE DEF r
  <2>2. Shape(thread') /\ thread'[Writer] = thread[Writer]
    BY <1>s, <2>r, ThreadStep
  <2> QED  BY <1>1, <2>2, NothingHandedOver DEF BroadcastTransactions
<1>2. CASE QueueBatch
  <2> DEFINE handed == [thread EXCEPT ![Caller].pc = "evict"]
  <2>1. Shape(handed) /\ handed[Writer] = thread[Writer]
    BY <1>s DEF Shape
  <2>2. /\ UNCHANGED <<events, failed, loop>> /\ loop
        /\ IF failed THEN thread' = handed /\ UNCHANGED <<queue, done>>
           ELSE StartWriter(Capped(queue \o thread[Caller].txs), done, handed)
    BY <1>2 DEF QueueBatch
  <2> HIDE DEF handed
  <2>3. CASE failed
    BY <2>1, <2>2, <2>3, NothingHandedOver
  <2>4. CASE ~failed
    <3>1. /\ Shape(thread') /\ done' \in BOOLEAN
          /\ done => done' /\ thread'[Writer].pc = handed[Writer].pc
          /\ ~done /\ done' => thread'[Writer].pc # "idle"
          /\ ~done /\ ~done' => thread'[Writer].pc = handed[Writer].pc
      BY <2>1, <2>2, <2>4, StartFacts DEF IInv
    <3> QED  BY <2>1, <2>2, <3>1 DEF IInv, WaitsForSomeone
  <2> QED  BY <2>3, <2>4
<1>3. CASE DropBatch
  <2>1. "pc" \in DOMAIN Idle
    BY DEF Idle
  <2>2. Shape(thread') /\ thread'[Writer] = thread[Writer]
    BY <1>s, <1>3, <2>1, ThreadStep DEF DropBatch
  <2> QED  BY <1>3, <2>2, NothingHandedOver DEF DropBatch
<1>4. ASSUME NEW g \in Threads, Evict(g) PROVE IInv'
  <2> DEFINE r == [thread[g] EXCEPT !.pc = "add"]
  <2>1. "pc" \in DOMAIN r /\ r.pc = "add"
    BY <1>s
  <2>2. thread' = [thread EXCEPT ![g] = r] /\ thread[g].pc = "evict"
    BY <1>4 DEF Evict
  <2> HIDE DEF r
  <2>3. Shape(thread') /\ thread'[g] = r /\ \A f \in Threads \ {g} : thread'[f] = thread[f]
    BY <1>s, <2>1, <2>2, ThreadStep
  <2>4. (thread'[Writer].pc = "idle") <=> (thread[Writer].pc = "idle")
    BY <2>1, <2>2, <2>3
  <2> QED  BY <1>4, <2>3, <2>4, NothingHandedOver DEF Evict
<1>5. ASSUME NEW g \in Threads, Add(g) PROVE IInv'
  <2> DEFINE r == IF g = Writer THEN [thread[g] EXCEPT !.pc = "send"] ELSE Idle
  <2>1. "pc" \in DOMAIN r /\ (g = Writer => r.pc = "send")
    BY <1>s DEF Idle
  <2>2. thread' = [thread EXCEPT ![g] = r] /\ thread[g].pc = "add"
    BY <1>5 DEF Add
  <2> HIDE DEF r
  <2>3. Shape(thread') /\ thread'[g] = r /\ \A f \in Threads \ {g} : thread'[f] = thread[f]
    BY <1>s, <2>1, <2>2, ThreadStep
  <2>4. (thread'[Writer].pc = "idle") <=> (thread[Writer].pc = "idle")
    BY <2>1, <2>2, <2>3
  <2> QED  BY <1>5, <2>3, <2>4, NothingHandedOver DEF Add
<1>6. CASE SendTransactions
  <2>1. "pc" \in DOMAIN Idle /\ Idle.pc = "idle"
    BY DEF Idle
  <2>2. Shape(thread') /\ thread'[Writer] = Idle
    BY <1>s, <1>6, <2>1, ThreadStep DEF SendTransactions
  <2>3. events = {} /\ done
    BY <1>6 DEF IInv, SendTransactions
  <2>4. events' \in {{"done"}, {"fail"}} /\ UNCHANGED <<done, failed, loop>>
    BY <1>6, <2>3 DEF SendTransactions, SendOutcome
  <2> QED  BY <2>1, <2>2, <2>3, <2>4 DEF IInv, WaitsForSomeone
<1>7. CASE WriterDone
  <2>1. /\ events = {"done"} /\ events' = {} /\ thread[Writer].pc = "idle"
        /\ UNCHANGED <<failed, loop>> /\ StartWriter(queue, FALSE, thread)
    BY <1>7 DEF WriterDone, IInv
  <2>2. /\ Shape(thread') /\ done' \in BOOLEAN
        /\ done' => thread'[Writer].pc # "idle"
        /\ ~done' => thread'[Writer].pc = thread[Writer].pc
    BY <1>s, <2>1, StartFacts
  <2> QED  BY <2>1, <2>2 DEF IInv, WaitsForSomeone
<1>8. CASE WriterFailed
  <2>1. events = {"fail"} /\ events' = {} /\ thread[Writer].pc = "idle"
        /\ failed' = TRUE /\ UNCHANGED <<done, loop, thread>>
    BY <1>8 DEF WriterFailed, IInv
  <2> QED  BY <2>1 DEF IInv, WaitsForSomeone
<1>9. CASE LoopTerminated
  BY <1>9 DEF LoopTerminated, IInv, WaitsForSomeone
<1>10. ASSUME NEW t \in Txs, markTransaction(t) PROVE IInv'
  <2> DEFINE r == [pc |-> "evict", txs |-> <<t>>]
  <2>r. "pc" \in DOMAIN r /\ thread' = [thread EXCEPT ![Handler] = r]
    BY <1>10 DEF markTransaction
  <2> HIDE DEF r
  <2>1. Shape(thread') /\ thread'[Writer] = thread[Writer]
    BY <1>s, <2>r, ThreadStep
  <2> QED  BY <1>10, <2>1, NothingHandedOver DEF markTransaction
<1>11. ASSUME UNCHANGED <<events, done, failed, loop, thread>> PROVE IInv'
  BY <1>11, <1>s, NothingHandedOver
<1>12. CASE Close
  BY <1>11, <1>12 DEF Close
<1>13. ASSUME NEW t \in Txs, PoolRemove(t) PROVE IInv'
  BY <1>11, <1>13 DEF PoolRemove
<1>14. CASE FuzzTransactions
  BY <1>11, <1>14 DEF FuzzTransactions
<1>15. CASE UNCHANGED vars
  BY <1>11, <1>15 DEF vars
<1> QED
  BY <1>1, <1>2, <1>3, <1>4, <1>5, <1>6, <1>7, <1>8, <1>9, <1>10, <1>12, <1>13,
     <1>14, <1>15 DEF Next, Loop

LEMMA IInvHolds == Spec => []IInv
BY InitIInv, Invariance, PTL DEF Spec

(***************************************************************************)
(* The write loop never waits on done for a writer that is gone.           *)
(***************************************************************************)
THEOREM NeverWaitsInVain == Spec => []WaitsForSomeone
<1>1. IInv => WaitsForSomeone  BY DEF IInv
<1> QED  BY <1>1, IInvHolds, PTL

(***************************************************************************)
(* The loop starts no writer while one is in flight or its signal unread.  *)
(***************************************************************************)
THEOREM OneWriterAtATime == Spec => []NoWriterOverlap
<1>1. IInv => NoWriterOverlap
  <2> SUFFICES ASSUME IInv PROVE NoWriterOverlap
    OBVIOUS
  <2>1. Cardinality({}) = 0 /\ Cardinality({"done"}) = 1 /\ Cardinality({"fail"}) = 1
    BY FS_EmptySet, FS_Singleton
  <2>2. CASE events = {}
    BY <2>1, <2>2 DEF IInv, NoWriterOverlap
  <2>3. CASE events # {}
    BY <2>1, <2>3 DEF IInv, NoWriterOverlap
  <2> QED  BY <2>2, <2>3
<1> QED  BY <1>1, IInvHolds, PTL

-----------------------------------------------------------------------------
(***************************************************************************)
(* Types.  What TypeOK needs besides itself: the goroutines are records    *)
(* with a batch, and what LOKI recorded are batches.                       *)
(***************************************************************************)
Goroutine == [pc : {"idle", "offer", "evict", "add", "send"}, txs : Seq(Txs)]

Typed ==
    /\ TypeOK
    /\ thread \in [Threads -> Goroutine]
    /\ recorded \subseteq Seq(Txs)

(***************************************************************************)
(* The batch of the handler lists the chosen transactions.                 *)
(***************************************************************************)
LEMMA BatchType ==
    ASSUME NEW S \in SUBSET Txs
    PROVE  SetToSeq(S) \in Seq(Txs)
<1>1. IsFiniteSet(S)
  BY LimitsAssumption, FS_Subset DEF LimitsAssumption
<1>2. Cardinality(S) \in Nat /\ ExistsBijection(1..Cardinality(S), S)
  BY <1>1, FS_CardinalityType
<1>3. PICK f : f \in Bijection(1..Cardinality(S), S)
  BY <1>2 DEF ExistsBijection
<1>4. f \in [1..Cardinality(S) -> S] /\ IsInjective(f)
  BY <1>3 DEF Bijection, Injection, IsInjective
<1>5. SetToSeq(S) \in [1..Cardinality(S) -> S]
  BY <1>4 DEF SetToSeq
<1> QED
  BY <1>2, <1>5

(***************************************************************************)
(* The cap keeps the newest MaxQueuedTxs entries.                          *)
(***************************************************************************)
LEMMA CappedType ==
    ASSUME NEW q \in Seq(Txs)
    PROVE  Capped(q) \in Seq(Txs) /\ Len(Capped(q)) <= MaxQueuedTxs
<1>1. MaxQueuedTxs \in Nat /\ Len(q) \in Nat
  BY LimitsAssumption DEF LimitsAssumption
<1>2. CASE Len(q) > MaxQueuedTxs
  <2> DEFINE a == Len(q) - MaxQueuedTxs + 1
  <2>1. a \in 1..(Len(q) + 1) /\ Len(q) - a + 1 = MaxQueuedTxs /\ a <= Len(q) + 1
    BY <1>1, <1>2
  <2>2. Capped(q) = SubSeq(q, a, Len(q))
    BY <1>2 DEF Capped
  <2> HIDE DEF a
  <2>3. SubSeq(q, a, Len(q)) \in Seq(Txs) /\ Len(SubSeq(q, a, Len(q))) = Len(q) - a + 1
    BY <1>1, <2>1
  <2> QED
    BY <1>1, <2>1, <2>2, <2>3
<1>3. CASE ~(Len(q) > MaxQueuedTxs)
  BY <1>1, <1>3 DEF Capped
<1> QED
  BY <1>2, <1>3

(***************************************************************************)
(* The top of the loop leaves a shorter queue and gives the writer a list  *)
(* of transactions.                                                        *)
(***************************************************************************)
LEMMA StartType ==
    ASSUME NEW s \in Seq(Txs), Len(s) <= MaxQueuedTxs, NEW inFlight,
           NEW threads \in [Threads -> Goroutine], StartWriter(s, inFlight, threads)
    PROVE  /\ queue' \in Seq(Txs) /\ Len(queue') <= MaxQueuedTxs
           /\ thread' \in [Threads -> Goroutine]
<1> DEFINE k == Taken(s)
           txs == InPool(SubSeq(s, 1, k))
           w == [pc |-> "evict", txs |-> txs]
<1>1. CASE ~(~inFlight /\ s # <<>>)
  BY <1>1 DEF StartWriter
<1>2. CASE ~inFlight /\ s # <<>>
  <2>1. k \in 0..Len(s) /\ Len(s) \in Nat /\ MaxQueuedTxs \in Nat
    BY TakenFacts, LimitsAssumption DEF LimitsAssumption
  <2>2. /\ queue' = SubSeq(s, k + 1, Len(s))
        /\ thread' = IF txs = <<>> THEN threads ELSE [threads EXCEPT ![Writer] = w]
    BY <1>2 DEF StartWriter
  <2> HIDE DEF k
  <2>3. SubSeq(s, 1, k) \in Seq(Txs)
    BY <2>1
  <2>4. SubSeq(s, k + 1, Len(s)) \in Seq(Txs) /\ Len(SubSeq(s, k + 1, Len(s))) = Len(s) - k
    BY <2>1
  <2>5. txs \in Seq(Txs)
    BY <2>3, InPoolType
  <2>6. w \in Goroutine
    BY <2>5 DEF Goroutine
  <2> HIDE DEF w, txs
  <2>7. thread' \in [Threads -> Goroutine]
    BY <2>2, <2>6
  <2>8. queue' \in Seq(Txs) /\ Len(queue') <= MaxQueuedTxs
    BY <2>1, <2>2, <2>4
  <2> QED
    BY <2>7, <2>8
<1> QED
  BY <1>1, <1>2

LEMMA InitTyped == Init => Typed
<1> SUFFICES ASSUME Init PROVE Typed
  OBVIOUS
<1>1. Idle \in Goroutine
  BY DEF Idle, Goroutine
<1>2. thread \in [Threads -> Goroutine]
  BY <1>1 DEF Init
<1>3. queue \in Seq(Txs) /\ Len(queue) <= MaxQueuedTxs
  BY LimitsAssumption DEF LimitsAssumption, Init
<1>4. broadcasts \in 0..MaxBroadcasts /\ marks \in 0..MaxMarks
  BY LimitsAssumption DEF LimitsAssumption, Init
<1>5. \A g \in Threads : /\ thread[g].pc \in {"idle", "offer", "evict", "add", "send"}
                         /\ thread[g].txs \in Seq(Txs)
  BY <1>2 DEF Goroutine
<1> QED
  BY <1>2, <1>3, <1>4, <1>5 DEF Init, Typed, TypeOK

LEMMA TypedKept == Typed /\ [Next]_vars => Typed'
<1> SUFFICES ASSUME Typed, [Next]_vars PROVE Typed'
  OBVIOUS
<1> DEFINE Sets == /\ pool' \subseteq Txs /\ fuzzed' \subseteq Txs /\ known' \subseteq Txs
                   /\ events' \subseteq {"done", "fail"} /\ recorded' \subseteq Seq(Txs)
           Counts == broadcasts' \in 0..MaxBroadcasts /\ marks' \in 0..MaxMarks
           Queue == queue' \in Seq(Txs) /\ Len(queue') <= MaxQueuedTxs
           Threads0 == thread' \in [Threads -> Goroutine]
<1>0. /\ pool \subseteq Txs /\ fuzzed \subseteq Txs /\ known \subseteq Txs
      /\ events \subseteq {"done", "fail"} /\ recorded \subseteq Seq(Txs)
      /\ broadcasts \in 0..MaxBroadcasts /\ marks \in 0..MaxMarks
      /\ queue \in Seq(Txs) /\ Len(queue) <= MaxQueuedTxs
      /\ thread \in [Threads -> Goroutine]
  BY DEF Typed, TypeOK
<1>1. SUFFICES Sets /\ Counts /\ Queue /\ Threads0
  <2>1. ASSUME Threads0
        PROVE  \A g \in Threads : /\ thread'[g].pc \in {"idle", "offer", "evict", "add", "send"}
                                  /\ thread'[g].txs \in Seq(Txs)
    BY <2>1 DEF Goroutine
  <2> QED
    BY <2>1 DEF Typed, TypeOK
<1>2. \A g \in Threads : thread[g] \in Goroutine /\ thread[g].txs \in Seq(Txs)
  BY <1>0 DEF Goroutine
<1>3. ASSUME NEW g \in Threads, NEW r \in Goroutine, thread' = [thread EXCEPT ![g] = r]
      PROVE  Threads0
  BY <1>0, <1>3
<1>4. ASSUME NEW t \in Goroutine, NEW p \in {"idle", "offer", "evict", "add", "send"}
      PROVE  [t EXCEPT !.pc = p] \in Goroutine
  BY DEF Goroutine
<1>5. Idle \in Goroutine
  BY DEF Idle, Goroutine
<1>6. ASSUME NEW t \in Seq(Txs) PROVE ToSet(t) \subseteq Txs
  BY DEF ToSet
<1> USE WriterIsThread
<1> HIDE DEF Threads0
<1>10. CASE BroadcastTransactions
  <2>1. PICK S \in SUBSET (pool \ known) :
          thread' = [thread EXCEPT ![Caller] = [pc |-> "offer", txs |-> SetToSeq(S)]]
    BY <1>10 DEF BroadcastTransactions
  <2>2. SetToSeq(S) \in Seq(Txs)
    BY <1>0, BatchType
  <2>3. [pc |-> "offer", txs |-> SetToSeq(S)] \in Goroutine
    BY <2>2 DEF Goroutine
  <2>4. Threads0
    BY <1>3, <2>1, <2>3
  <2>5. broadcasts' \in 0..MaxBroadcasts
    BY <1>0, <1>10, LimitsAssumption DEF BroadcastTransactions, LimitsAssumption
  <2> QED
    BY <1>0, <1>10, <2>4, <2>5 DEF BroadcastTransactions
<1>11. CASE QueueBatch
  <2> DEFINE handed == [thread EXCEPT ![Caller].pc = "evict"]
             c == queue \o thread[Caller].txs
  <2>1. handed \in [Threads -> Goroutine]
    BY <1>0, <1>2, <1>4
  <2>2. c \in Seq(Txs)
    BY <1>0, <1>2
  <2>3. IF failed THEN thread' = handed /\ UNCHANGED <<queue, done>>
        ELSE StartWriter(Capped(c), done, handed)
    BY <1>11 DEF QueueBatch
  <2> HIDE DEF handed, c
  <2>4. Capped(c) \in Seq(Txs) /\ Len(Capped(c)) <= MaxQueuedTxs
    BY <2>2, CappedType
  <2>5. CASE failed
    BY <1>0, <1>11, <2>1, <2>3, <2>5 DEF QueueBatch, Threads0
  <2>6. CASE ~failed
    <3>1. Queue /\ Threads0
      BY <2>1, <2>3, <2>4, <2>6, StartType DEF Threads0
    <3> QED
      BY <1>0, <1>11, <3>1 DEF QueueBatch
  <2> QED
    BY <2>5, <2>6
<1>12. CASE DropBatch
  BY <1>0, <1>3, <1>5, <1>12 DEF DropBatch
<1>13. ASSUME NEW g \in Threads, Evict(g) PROVE Sets /\ Counts /\ Queue /\ Threads0
  <2>1. [thread[g] EXCEPT !.pc = "add"] \in Goroutine
    BY <1>2, <1>4
  <2>2. thread' = [thread EXCEPT ![g] = [thread[g] EXCEPT !.pc = "add"]]
    BY <1>13 DEF Evict
  <2>3. Threads0
    BY <1>3, <2>1, <2>2
  <2>4. known' \subseteq Txs
    BY <1>0, <1>13 DEF Evict
  <2> QED
    BY <1>0, <1>13, <2>3, <2>4 DEF Evict
<1>14. ASSUME NEW g \in Threads, Add(g) PROVE Sets /\ Counts /\ Queue /\ Threads0
  <2> DEFINE r == IF g = Writer THEN [thread[g] EXCEPT !.pc = "send"] ELSE Idle
  <2>1. r \in Goroutine
    BY <1>2, <1>4, <1>5
  <2>2. thread' = [thread EXCEPT ![g] = r]
    BY <1>14 DEF Add
  <2> HIDE DEF r
  <2>3. Threads0
    BY <1>3, <2>1, <2>2
  <2>4. known' \subseteq Txs
    BY <1>0, <1>2, <1>6, <1>14 DEF Add
  <2> QED
    BY <1>0, <1>14, <2>3, <2>4 DEF Add
<1>15. CASE SendTransactions
  <2>1. Threads0
    BY <1>3, <1>5, <1>15 DEF SendTransactions
  <2>2. recorded' \subseteq Seq(Txs)
    BY <1>0, <1>2, <1>15 DEF SendTransactions
  <2>3. events' \subseteq {"done", "fail"}
    BY <1>0, <1>15 DEF SendTransactions, SendOutcome
  <2> QED
    BY <1>0, <1>15, <2>1, <2>2, <2>3 DEF SendTransactions
<1>16. CASE WriterDone
  <2>1. Queue /\ Threads0
    BY <1>0, <1>16, StartType DEF WriterDone, Threads0
  <2> QED
    BY <1>0, <1>16, <2>1 DEF WriterDone
<1>17. CASE WriterFailed
  BY <1>0, <1>17 DEF WriterFailed, Threads0
<1>18. CASE LoopTerminated
  BY <1>0, <1>18 DEF LoopTerminated, Threads0
<1>19. CASE Close
  BY <1>0, <1>19 DEF Close, Threads0
<1>20. ASSUME NEW t \in Txs, markTransaction(t) PROVE Sets /\ Counts /\ Queue /\ Threads0
  <2>1. [pc |-> "evict", txs |-> <<t>>] \in Goroutine
    BY DEF Goroutine
  <2>2. Threads0
    BY <1>3, <1>20, <2>1 DEF markTransaction
  <2>3. marks' \in 0..MaxMarks
    BY <1>0, <1>20, LimitsAssumption DEF markTransaction, LimitsAssumption
  <2> QED
    BY <1>0, <1>20, <2>2, <2>3 DEF markTransaction
<1>21. ASSUME NEW t \in Txs, PoolRemove(t) PROVE Sets /\ Counts /\ Queue /\ Threads0
  BY <1>0, <1>21 DEF PoolRemove, Threads0
<1>22. CASE FuzzTransactions
  <2>1. fuzzed' \subseteq Txs
    BY <1>0, <1>6, <1>22 DEF FuzzTransactions
  <2> QED
    BY <1>0, <1>22, <2>1 DEF FuzzTransactions, Threads0
<1>23. CASE UNCHANGED vars
  BY <1>0, <1>23 DEF vars, Threads0
<1> QED
  BY <1>10, <1>11, <1>12, <1>13, <1>14, <1>15, <1>16, <1>17, <1>18, <1>19, <1>20,
     <1>21, <1>22, <1>23 DEF Next, Loop

(***************************************************************************)
(* The queue of the write loop never holds more than maxQueuedTxs entries, *)
(* and every list that is handed over is a list of transactions.           *)
(***************************************************************************)
THEOREM QueueIsCapped == Spec => []TypeOK
<1>1. Typed => TypeOK
  BY DEF Typed
<1> QED
  BY <1>1, InitTyped, TypedKept, PTL DEF Spec
=============================================================================
