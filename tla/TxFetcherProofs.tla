--------------------------- MODULE TxFetcherProofs ---------------------------
(***************************************************************************)
(* TxFetcher for every set of peers, every set of hashes and every limit.  *)
(***************************************************************************)
EXTENDS TxFetcher, FiniteSetTheorems, TLAPS

(***************************************************************************)
(* What the stages 2 and 3 keep to between two events: OneStage, NoPanic   *)
(* and FetchedFromDebtor as far as they are about s, and that a hash in    *)
(* announces is queued or being fetched.  Without the last, scheduleFetches*)
(* would move a hash with no origin to the fetching stage, where an empty  *)
(* alternates entry reads as none.                                         *)
(***************************************************************************)
Apart(s) ==
    \A h \in Hashes :
        /\ (s.fetching[h] # None) <=> (s.alternates[h] # {})
        /\ s.alternates[h] # {} => s.announced[h] = {}

Debts(s) == \A h \in Hashes, p \in Peers : s.fetching[h] = p <=> h \in Owed(s, p)

Backed(s) ==
    \A h \in Hashes, p \in Peers :
        h \in s.announces[p] => p \in s.announced[h] \cup s.alternates[h]

Sound(s) == s \in Stages /\ ~s.panic /\ Apart(s) /\ Debts(s) /\ Backed(s)

\* The converse of Backed, but for the peers in D.
Origins(s, D) ==
    \A h \in Hashes, p \in Peers :
        p \in s.announced[h] \cup s.alternates[h] => h \in s.announces[p] \/ p \in D

\* No hash outside H is tracked by t that was not tracked by s.
NothingNew(s, t, H) ==
    \A h \in Hashes \ H :
        s.announced[h] = {} /\ s.alternates[h] = {} => t.announced[h] = {} /\ t.alternates[h] = {}

Asking(s) == Busy(s) # {} => s.timer

Active(s) == (\E p \in Peers : Unfetched(s, p) # {}) => Busy(s) # {}

-----------------------------------------------------------------------------
LEMMA RangeFacts ==
    ASSUME NEW S, NEW x \in Seq(S)
    PROVE  /\ Range(x) \subseteq S
           /\ Range(x) = {} <=> x = <<>>
           /\ Range(x) # {} => Len(x) # 0
BY DEF Range

LEMMA EmptyRange == Range(<<>>) = {}
BY DEF Range

LEMMA BatchFacts ==
    ASSUME NEW S \in SUBSET Hashes, NEW x \in Batches(S)
    PROVE  x \in Seq(Hashes)
<1>1. PICK n \in 0..MaxTxRetrievals : x \in [1..n -> S]
  BY DEF Batches, Injection
<1> QED
  BY <1>1, LimitAssumption

LEMMA AllocationFacts ==
    ASSUME NEW s \in Stages, NEW P \in SUBSET Peers, NEW a \in Allocations(s, P)
    PROVE  /\ \A p \in P : a[p] \in Seq(Hashes) /\ Range(a[p]) \subseteq Unfetched(s, p)
           /\ \A p, o \in P, h \in Hashes : h \in Range(a[p]) /\ h \in Range(a[o]) => p = o
           /\ (\A p \in P : a[p] = <<>>) => \A p \in P : Unfetched(s, p) = {}
<1> DEFINE U == UNION {Unfetched(s, p) : p \in P}
<1>1. U \in SUBSET Hashes
  BY DEF Stages, Unfetched
<1>2. a \in [P -> Batches(U)]
  BY DEF Allocations
<1>3. PICK rank \in [P -> 1..Cardinality(P)] :
            /\ \A p, o \in P : rank[p] = rank[o] => p = o
            /\ \A p \in P :
                 /\ Range(a[p]) \subseteq Left(s, a, rank, p)
                 /\ Len(a[p]) = MaxTxRetrievals \/ Range(a[p]) = Left(s, a, rank, p)
  BY DEF Allocations, Injection, IsInjective
<1>4. \A p \in P : a[p] \in Seq(Hashes)
  BY <1>1, <1>2, BatchFacts
<1>5. \A p \in P : Range(a[p]) \subseteq Unfetched(s, p)
  BY <1>3 DEF Left
<1>6. \A p, o \in P : rank[o] < rank[p] => Range(a[p]) \cap Range(a[o]) = {}
  BY <1>2, <1>3 DEF Left
<1>7. \A p \in P : rank[p] \in Int
  BY <1>3, FS_Subset, FiniteAssumption, FS_CardinalityType
<1>8. \A p, o \in P, h \in Hashes : h \in Range(a[p]) /\ h \in Range(a[o]) => p = o
  <2> SUFFICES ASSUME NEW p \in P, NEW o \in P, NEW h \in Hashes, p # o,
                      h \in Range(a[p]), h \in Range(a[o])
               PROVE  FALSE
    OBVIOUS
  <2>1. rank[p] < rank[o] \/ rank[o] < rank[p]
    BY <1>3, <1>7
  <2> QED
    BY <2>1, <1>6
<1>9. ASSUME \A p \in P : a[p] = <<>>, NEW p \in P
      PROVE  Unfetched(s, p) = {}
  <2>1. \A o \in P : Range(a[o]) = {}
    BY <1>9, EmptyRange
  <2>2. Left(s, a, rank, p) = Unfetched(s, p)
    BY <1>2, <2>1 DEF Left
  <2>3. Len(a[p]) # MaxTxRetrievals
    BY <1>9, LimitAssumption
  <2> QED
    BY <1>3, <2>1, <2>2, <2>3
<1> QED
  BY <1>4, <1>5, <1>8, <1>9

-----------------------------------------------------------------------------
LEMMA AllocateSound ==
    ASSUME NEW s, NEW P \in SUBSET Peers, NEW a \in Allocations(s, P), Sound(s),
           \A p \in P : s.requests[p] = None
    PROVE  LET t == Allocate(s, P, a)
           IN  /\ Sound(t)
               /\ NothingNew(s, t, {})
               /\ \A D : Origins(s, D) => Origins(t, D)
               /\ Asking(s) => Asking(t)
               /\ Busy(t) = Busy(s) \cup {p \in P : a[p] # <<>>}
               /\ \A p \in Peers : Unfetched(t, p) \subseteq Unfetched(s, p)
<1> DEFINE t == Allocate(s, P, a)
           taken == UNION {Range(a[p]) : p \in P}
<1>1. s \in Stages
  BY DEF Sound
<1>2. /\ \A p \in P : a[p] \in Seq(Hashes) /\ Range(a[p]) \subseteq Unfetched(s, p)
      /\ \A p, o \in P, h \in Hashes : h \in Range(a[p]) /\ h \in Range(a[o]) => p = o
  BY <1>1, AllocationFacts
<1>3. /\ t.announces = s.announces
      /\ t.fetching = [h \in Hashes |->
            IF h \in taken THEN CHOOSE p \in P : h \in Range(a[p]) ELSE s.fetching[h]]
      /\ t.alternates = [h \in Hashes |->
            IF h \in taken THEN s.announced[h] ELSE s.alternates[h]]
      /\ t.announced = [h \in Hashes |-> IF h \in taken THEN {} ELSE s.announced[h]]
      /\ t.requests = [p \in Peers |->
            IF p \in P /\ a[p] # <<>> THEN [hashes |-> a[p], stolen |-> {}]
            ELSE s.requests[p]]
      /\ t.timer = (s.timer \/ (Busy(s) = {} /\ taken # {}))
      /\ t.panic = (s.panic \/ \E h \in taken : s.alternates[h] # {})
  BY <1>1 DEF Allocate, Stages
<1>4. \A h \in taken : /\ h \in Hashes /\ s.fetching[h] = None /\ s.alternates[h] = {}
                       /\ s.announced[h] # {}
                       /\ t.fetching[h] \in P /\ h \in Range(a[t.fetching[h]])
  <2> SUFFICES ASSUME NEW h \in taken
               PROVE  /\ h \in Hashes /\ s.fetching[h] = None /\ s.alternates[h] = {}
                      /\ s.announced[h] # {}
                      /\ t.fetching[h] \in P /\ h \in Range(a[t.fetching[h]])
    OBVIOUS
  <2>1. PICK p \in P : h \in Range(a[p])
    OBVIOUS
  <2>2. h \in s.announces[p] /\ s.fetching[h] = None
    BY <1>2, <2>1 DEF Unfetched
  <2>3. h \in Hashes
    BY <1>1, <2>2 DEF Stages
  <2>4. t.fetching[h] = CHOOSE o \in P : h \in Range(a[o])
    BY <1>3, <2>3
  <2> QED
    BY <2>1, <2>2, <2>3, <2>4 DEF Sound, Apart, Backed
<1>5. t \in Stages
  <2>1. t.fetching \in [Hashes -> Peers \cup {None}]
    BY <1>1, <1>3, <1>4 DEF Stages
  <2>2. t.requests \in [Peers -> Requests \cup {None}]
    BY <1>1, <1>2, <1>3 DEF Stages, Requests
  <2>3. t.alternates \in [Hashes -> SUBSET Peers] /\ t.announced \in [Hashes -> SUBSET Peers]
    BY <1>1, <1>3 DEF Stages
  <2>4. t.announces \in [Peers -> SUBSET Hashes] /\ t.timer \in BOOLEAN /\ t.panic \in BOOLEAN
    BY <1>1, <1>3 DEF Stages
  <2> QED
    BY <1>1, <2>1, <2>2, <2>3, <2>4 DEF Allocate, Stages
<1>6. ~t.panic
  BY <1>3, <1>4 DEF Sound
<1>7. Apart(t)
  <2> SUFFICES ASSUME NEW h \in Hashes
               PROVE  /\ (t.fetching[h] # None) <=> (t.alternates[h] # {})
                      /\ t.alternates[h] # {} => t.announced[h] = {}
    BY DEF Apart
  <2>1. CASE h \in taken
    <3>1. t.fetching[h] # None
      BY <1>4, <2>1, NoneAssumption
    <3>2. t.alternates[h] = s.announced[h] /\ t.announced[h] = {}
      BY <1>3, <2>1
    <3> QED
      BY <1>4, <2>1, <3>1, <3>2
  <2>2. CASE h \notin taken
    BY <1>3, <2>2 DEF Sound, Apart
  <2> QED
    BY <2>1, <2>2
<1>8. Debts(t)
  <2> SUFFICES ASSUME NEW h \in Hashes, NEW p \in Peers
               PROVE  t.fetching[h] = p <=> h \in Owed(t, p)
    BY DEF Debts
  <2>1. CASE p \in P /\ a[p] # <<>>
    <3>1. t.requests[p] = [hashes |-> a[p], stolen |-> {}] /\ t.requests[p] # None
      BY <1>2, <1>3, <2>1, NoneAssumption DEF Requests
    <3>2. Owed(t, p) = Range(a[p])
      BY <3>1 DEF Owed
    <3>3. Owed(s, p) = {}
      BY <2>1 DEF Owed
    <3>4. CASE h \in taken
      BY <1>2, <1>4, <2>1, <3>2, <3>4
    <3>5. CASE h \notin taken
      BY <1>3, <2>1, <3>2, <3>3, <3>5 DEF Sound, Debts
    <3> QED
      BY <3>4, <3>5
  <2>2. CASE ~(p \in P /\ a[p] # <<>>)
    <3>1. t.requests[p] = s.requests[p]
      BY <1>3, <2>2
    <3>2. Owed(t, p) = Owed(s, p)
      BY <3>1 DEF Owed
    <3>3. CASE h \in taken
      <4>1. t.fetching[h] # p
        BY <1>4, <2>2, <3>3, EmptyRange
      <4>2. h \notin Owed(s, p)
        BY <1>4, <3>3, NoneAssumption DEF Sound, Debts
      <4> QED
        BY <3>2, <4>1, <4>2
    <3>4. CASE h \notin taken
      BY <1>3, <3>2, <3>4 DEF Sound, Debts
    <3> QED
      BY <3>3, <3>4
  <2> QED
    BY <2>1, <2>2
<1>9. Backed(t)
  <2> SUFFICES ASSUME NEW h \in Hashes, NEW p \in Peers, h \in s.announces[p]
               PROVE  p \in t.announced[h] \cup t.alternates[h]
    BY <1>3 DEF Backed
  <2>1. p \in s.announced[h] \cup s.alternates[h]
    BY DEF Sound, Backed
  <2>2. CASE h \in taken
    BY <1>3, <1>4, <2>1, <2>2
  <2>3. CASE h \notin taken
    BY <1>3, <2>1, <2>3
  <2> QED
    BY <2>2, <2>3
<1>10. NothingNew(s, t, {})
  BY <1>3, <1>4 DEF NothingNew
<1>11. ASSUME NEW D, Origins(s, D)
       PROVE  Origins(t, D)
  BY <1>3, <1>4, <1>11 DEF Origins
<1>12. Busy(t) = Busy(s) \cup {p \in P : a[p] # <<>>}
  <2>1. \A p \in P : a[p] # <<>> => [hashes |-> a[p], stolen |-> {}] # None
    BY <1>2, NoneAssumption DEF Requests
  <2> QED
    BY <1>3, <2>1 DEF Busy
<1>13. Asking(s) => Asking(t)
  <2>1. \A p \in P : a[p] # <<>> => Range(a[p]) # {}
    BY <1>2, RangeFacts
  <2>2. (\E p \in P : a[p] # <<>>) => taken # {}
    BY <2>1
  <2>3. t.timer = (s.timer \/ (Busy(s) = {} /\ taken # {}))
    BY <1>3
  <2>4. Busy(t) # {} => Busy(s) # {} \/ taken # {}
    BY <1>12, <2>2
  <2> QED
    BY <2>3, <2>4 DEF Asking
<1>14. \A p \in Peers : Unfetched(t, p) \subseteq Unfetched(s, p)
  <2>1. \A h \in Hashes : t.fetching[h] = None => s.fetching[h] = None
    BY <1>3, <1>4, NoneAssumption
  <2> QED
    BY <1>1, <1>3, <2>1 DEF Unfetched, Stages
<1> QED
  BY <1>5, <1>6, <1>7, <1>8, <1>9, <1>10, <1>11, <1>12, <1>13, <1>14 DEF Sound

\* scheduleFetches for the peers A keeps everything, and leaves none of A with
\* something to ask for while nobody is asked.
LEMMA ScheduleSound ==
    ASSUME NEW s, NEW A \in SUBSET Peers, NEW t \in scheduleFetches(s, A), Sound(s)
    PROVE  /\ Sound(t)
           /\ NothingNew(s, t, {})
           /\ \A D : Origins(s, D) => Origins(t, D)
           /\ Asking(s) => Asking(t)
           /\ (\A p \in Peers \ A : Unfetched(s, p) # {} => Busy(s) # {}) => Active(t)
<1> DEFINE P == Idle(s, A)
<1>1. PICK a \in Allocations(s, P) : t = Allocate(s, P, a)
  BY DEF scheduleFetches
<1>2. P \in SUBSET Peers /\ \A p \in P : s.requests[p] = None
  BY DEF Idle
<1>3. /\ Sound(t)
      /\ NothingNew(s, t, {})
      /\ \A D : Origins(s, D) => Origins(t, D)
      /\ Asking(s) => Asking(t)
      /\ Busy(t) = Busy(s) \cup {p \in P : a[p] # <<>>}
      /\ \A p \in Peers : Unfetched(t, p) \subseteq Unfetched(s, p)
  BY <1>1, <1>2, AllocateSound
<1>4. ASSUME \A p \in Peers \ A : Unfetched(s, p) # {} => Busy(s) # {},
             Busy(t) = {}, NEW p \in Peers
      PROVE  Unfetched(t, p) = {}
  <2>1. Busy(s) = {} /\ \A o \in P : a[o] = <<>>
    BY <1>3, <1>4
  <2>2. \A o \in P : Unfetched(s, o) = {}
    BY <1>1, <1>2, <2>1, AllocationFacts DEF Sound
  <2>3. p \in A \ P => Unfetched(s, p) = {}
    BY <2>1 DEF Idle, Busy, Unfetched
  <2>4. Unfetched(s, p) = {}
    BY <1>4, <2>1, <2>2, <2>3
  <2> QED
    BY <1>3, <2>4
<1> QED
  BY <1>3, <1>4 DEF Active

-----------------------------------------------------------------------------
(***************************************************************************)
(* The state each case of the loop hands to scheduleFetches                *)
(***************************************************************************)
Agree == \A h \in Hashes, p \in Peers : h \in waitslots[p] <=> p \in waitlist[h]

Exclusive == \A h \in Hashes : waitlist[h] # {} => q.announced[h] = {} /\ q.alternates[h] = {}

LEMMA AddOriginSound ==
    ASSUME Sound(q), NEW p \in Peers, NEW H \in SUBSET Hashes
    PROVE  LET t == AddOrigin(p, H)
           IN  /\ Sound(t)
               /\ NothingNew(q, t, {})
               /\ \A D : Origins(q, D) => Origins(t, D)
               /\ Asking(q) => Asking(t)
               /\ Busy(t) = Busy(q)
               /\ \A o \in Peers \ {p} : Unfetched(t, o) = Unfetched(q, o)
<1> DEFINE t == AddOrigin(p, H)
<1>1. q \in Stages
  BY DEF Sound
<1>2. /\ t.fetching = q.fetching /\ t.requests = q.requests
      /\ t.timer = q.timer /\ t.panic = q.panic
      /\ t.alternates = [h \in Hashes |->
            IF h \in H /\ q.alternates[h] # {} THEN q.alternates[h] \cup {p}
            ELSE q.alternates[h]]
      /\ t.announced = [h \in Hashes |->
            IF h \in H /\ q.alternates[h] = {} /\ q.announced[h] # {}
            THEN q.announced[h] \cup {p} ELSE q.announced[h]]
      /\ t.announces = [q.announces EXCEPT ![p] =
            @ \cup {h \in H : q.alternates[h] # {} \/ q.announced[h] # {}}]
  BY <1>1 DEF AddOrigin, Stages
<1>3. t \in Stages
  <2>1. t.alternates \in [Hashes -> SUBSET Peers] /\ t.announced \in [Hashes -> SUBSET Peers]
    BY <1>1, <1>2 DEF Stages
  <2>2. t.announces \in [Peers -> SUBSET Hashes]
    BY <1>1, <1>2 DEF Stages
  <2> QED
    BY <1>1, <1>2, <2>1, <2>2 DEF AddOrigin, Stages
<1>4. \A h \in Hashes : /\ t.alternates[h] = {} <=> q.alternates[h] = {}
                        /\ t.announced[h] = {} <=> q.announced[h] = {}
  BY <1>2
<1>5. Apart(t)
  BY <1>2, <1>4 DEF Sound, Apart
<1>6. \A o \in Peers : Owed(t, o) = Owed(q, o)
  BY <1>2 DEF Owed
<1>7. Debts(t)
  BY <1>2, <1>6 DEF Sound, Debts
<1>8. Backed(t)
  <2> SUFFICES ASSUME NEW h \in Hashes, NEW o \in Peers, h \in t.announces[o]
               PROVE  o \in t.announced[h] \cup t.alternates[h]
    BY DEF Backed
  <2>1. CASE h \in q.announces[o]
    <3>1. o \in q.announced[h] \cup q.alternates[h]
      BY <2>1 DEF Sound, Backed
    <3> QED
      BY <1>2, <3>1
  <2>2. CASE h \notin q.announces[o]
    <3>1. o = p /\ h \in H /\ (q.alternates[h] # {} \/ q.announced[h] # {})
      BY <1>1, <1>2, <2>2 DEF Stages
    <3> QED
      BY <1>2, <3>1
  <2> QED
    BY <2>1, <2>2
<1>9. NothingNew(q, t, {})
  BY <1>4 DEF NothingNew
<1>10. ASSUME NEW D, Origins(q, D)
       PROVE  Origins(t, D)
  <2> SUFFICES ASSUME NEW h \in Hashes, NEW o \in Peers, o \in t.announced[h] \cup t.alternates[h]
               PROVE  h \in t.announces[o] \/ o \in D
    BY DEF Origins
  <2>1. CASE o \in q.announced[h] \cup q.alternates[h]
    <3>1. h \in q.announces[o] \/ o \in D
      BY <1>10, <2>1 DEF Origins
    <3> QED
      BY <1>1, <1>2, <3>1 DEF Stages
  <2>2. CASE o \notin q.announced[h] \cup q.alternates[h]
    <3>1. o = p /\ h \in H /\ (q.alternates[h] # {} \/ q.announced[h] # {})
      BY <1>2, <2>2
    <3> QED
      BY <1>1, <1>2, <3>1 DEF Stages
  <2> QED
    BY <2>1, <2>2
<1>11. Busy(t) = Busy(q)
  BY <1>2 DEF Busy
<1>12. Asking(q) => Asking(t)
  BY <1>2, <1>11 DEF Asking
<1>13. \A o \in Peers \ {p} : Unfetched(t, o) = Unfetched(q, o)
  BY <1>1, <1>2 DEF Unfetched, Stages
<1> QED
  BY <1>2, <1>3, <1>5, <1>7, <1>8, <1>9, <1>10, <1>11, <1>12, <1>13 DEF Sound

LEMMA QueuedSound ==
    ASSUME Sound(q), Exclusive, waitlist \in [Hashes -> SUBSET Peers], NEW E \in SUBSET Waiting
    PROVE  LET t == Queued(E)
           IN  /\ Sound(t)
               /\ NothingNew(q, t, E)
               /\ \A D : Origins(q, D) => Origins(t, D)
               /\ Asking(q) => Asking(t)
               /\ Busy(t) = Busy(q)
               /\ \A o \in Peers \ UNION {waitlist[h] : h \in E} : Unfetched(t, o) = Unfetched(q, o)
<1> DEFINE t == Queued(E)
<1>1. q \in Stages /\ E \subseteq Hashes
  BY DEF Sound, Waiting
<1>2. /\ t.fetching = q.fetching /\ t.requests = q.requests /\ t.timer = q.timer
      /\ t.alternates = q.alternates
      /\ t.announced = [h \in Hashes |-> IF h \in E THEN waitlist[h] ELSE q.announced[h]]
      /\ t.announces = [p \in Peers |-> q.announces[p] \cup {h \in E : p \in waitlist[h]}]
      /\ t.panic = (q.panic \/ \E h \in E : q.announced[h] # {})
  BY <1>1 DEF Queued, Stages
<1>3. t \in Stages
  <2>1. t.announced \in [Hashes -> SUBSET Peers]
    BY <1>1, <1>2 DEF Stages
  <2>2. t.announces \in [Peers -> SUBSET Hashes]
    BY <1>1, <1>2 DEF Stages
  <2>3. t.panic \in BOOLEAN
    BY <1>1, <1>2 DEF Stages
  <2> QED
    BY <1>1, <1>2, <2>1, <2>2, <2>3 DEF Queued, Stages
<1>4. \A h \in E : q.announced[h] = {} /\ q.alternates[h] = {} /\ waitlist[h] # {}
  BY <1>1 DEF Waiting, Exclusive
<1>5. ~t.panic
  BY <1>2, <1>4 DEF Sound
<1>6. Apart(t)
  BY <1>2, <1>4 DEF Sound, Apart
<1>7. Debts(t)
  BY <1>2 DEF Sound, Debts, Owed
<1>8. Backed(t)
  <2> SUFFICES ASSUME NEW h \in Hashes, NEW o \in Peers, h \in t.announces[o]
               PROVE  o \in t.announced[h] \cup t.alternates[h]
    BY DEF Backed
  <2>1. CASE h \in q.announces[o]
    <3>1. o \in q.announced[h] \cup q.alternates[h]
      BY <2>1 DEF Sound, Backed
    <3> QED
      BY <1>2, <1>4, <3>1
  <2>2. CASE h \notin q.announces[o]
    BY <1>2, <2>2
  <2> QED
    BY <2>1, <2>2
<1>9. NothingNew(q, t, E)
  BY <1>2 DEF NothingNew
<1>10. ASSUME NEW D, Origins(q, D)
       PROVE  Origins(t, D)
  <2> SUFFICES ASSUME NEW h \in Hashes, NEW o \in Peers, o \in t.announced[h] \cup t.alternates[h]
               PROVE  h \in t.announces[o] \/ o \in D
    BY DEF Origins
  <2>1. CASE h \in E
    BY <1>2, <1>4, <2>1
  <2>2. CASE h \notin E
    <3>1. h \in q.announces[o] \/ o \in D
      BY <1>2, <1>10, <2>2 DEF Origins
    <3> QED
      BY <1>2, <3>1
  <2> QED
    BY <2>1, <2>2
<1>11. Busy(t) = Busy(q)
  BY <1>2 DEF Busy
<1>12. Asking(q) => Asking(t)
  BY <1>2, <1>11 DEF Asking
<1>13. \A o \in Peers \ UNION {waitlist[h] : h \in E} : Unfetched(t, o) = Unfetched(q, o)
  BY <1>1, <1>2 DEF Unfetched, Stages
<1> QED
  BY <1>3, <1>5, <1>6, <1>7, <1>8, <1>9, <1>10, <1>11, <1>12, <1>13 DEF Sound

LEMMA OwedFacts ==
    ASSUME NEW s \in Stages, NEW p \in Peers
    PROVE  Owed(s, p) \subseteq Hashes /\ (Owed(s, p) # {} => p \in Busy(s))
<1>1. s.requests[p] # None => s.requests[p].hashes \in Seq(Hashes)
  BY DEF Stages, Requests
<1> QED
  BY <1>1, RangeFacts DEF Owed, Busy

LEMMA EmptiedRequest ==
    ASSUME NEW r \in Requests
    PROVE  [r EXCEPT !.hashes = <<>>] \in Requests
<1>1. <<>> \in Seq(Hashes)
  OBVIOUS
<1> QED
  BY <1>1 DEF Requests

LEMMA ExpiredSound ==
    ASSUME Sound(q), NEW L \in SUBSET Pending
    PROVE  LET t == Expired(L)
           IN  /\ Sound(t)
               /\ NothingNew(q, t, {})
               /\ \A D : Origins(q, D) => Origins(t, D)
               /\ Asking(q) => Asking(t)
<1> DEFINE t == Expired(L)
           late == UNION {Owed(q, p) : p \in L}
           origins == [h \in Hashes |-> q.alternates[h] \ {p \in L : h \in Owed(q, p)}]
<1>1. q \in Stages /\ L \subseteq Peers
  BY DEF Sound, Pending, Busy
<1>2. /\ t.timer = q.timer
      /\ t.announced = [h \in Hashes |->
            IF h \in late /\ origins[h] # {} THEN origins[h] ELSE q.announced[h]]
      /\ t.alternates = [h \in Hashes |-> IF h \in late THEN {} ELSE q.alternates[h]]
      /\ t.fetching = [h \in Hashes |-> IF h \in late THEN None ELSE q.fetching[h]]
      /\ t.announces = [p \in Peers |-> IF p \in L THEN q.announces[p] \ Owed(q, p)
                                        ELSE q.announces[p]]
      /\ t.requests = [p \in Peers |-> IF p \in L THEN [q.requests[p] EXCEPT !.hashes = <<>>]
                                       ELSE q.requests[p]]
      /\ t.panic = (q.panic \/ \E h \in late : q.announced[h] # {})
  BY <1>1 DEF Expired, PutBack, Stages
<1>3. \A h \in late : /\ h \in Hashes /\ q.fetching[h] \in L
                      /\ q.alternates[h] # {} /\ q.announced[h] = {}
  <2> SUFFICES ASSUME NEW h \in late
               PROVE  /\ h \in Hashes /\ q.fetching[h] \in L
                      /\ q.alternates[h] # {} /\ q.announced[h] = {}
    OBVIOUS
  <2>1. PICK p \in L : h \in Owed(q, p)
    OBVIOUS
  <2>2. h \in Hashes /\ p \in Peers
    BY <1>1, <2>1, OwedFacts
  <2>3. q.fetching[h] = p /\ p # None
    BY <2>1, <2>2, NoneAssumption DEF Sound, Debts
  <2> QED
    BY <2>2, <2>3 DEF Sound, Apart
<1>4. \A p \in L : /\ q.requests[p] \in Requests
                   /\ t.requests[p] = [q.requests[p] EXCEPT !.hashes = <<>>]
                   /\ t.requests[p] \in Requests /\ t.requests[p] # None
  <2> SUFFICES ASSUME NEW p \in L
               PROVE  /\ q.requests[p] \in Requests
                      /\ t.requests[p] = [q.requests[p] EXCEPT !.hashes = <<>>]
                      /\ t.requests[p] \in Requests /\ t.requests[p] # None
    OBVIOUS
  <2>1. q.requests[p] \in Requests
    BY <1>1 DEF Pending, Busy, Stages
  <2>2. t.requests[p] = [q.requests[p] EXCEPT !.hashes = <<>>]
    BY <1>1, <1>2
  <2>3. t.requests[p] \in Requests
    BY <2>1, <2>2, EmptiedRequest
  <2> QED
    BY <2>1, <2>2, <2>3, NoneAssumption
<1>5. t \in Stages
  <2>1. t.announced \in [Hashes -> SUBSET Peers] /\ t.alternates \in [Hashes -> SUBSET Peers]
    BY <1>1, <1>2 DEF Stages
  <2>2. t.fetching \in [Hashes -> Peers \cup {None}]
    BY <1>1, <1>2 DEF Stages
  <2>3. t.announces \in [Peers -> SUBSET Hashes]
    BY <1>1, <1>2 DEF Stages
  <2>4. t.requests \in [Peers -> Requests \cup {None}]
    <3>1. \A p \in Peers : t.requests[p] \in Requests \cup {None}
      BY <1>1, <1>2, <1>4 DEF Stages
    <3> QED
      BY <1>2, <3>1
  <2>5. t.panic \in BOOLEAN /\ t.timer \in BOOLEAN
    BY <1>1, <1>2 DEF Stages
  <2> QED
    BY <1>1, <2>1, <2>2, <2>3, <2>4, <2>5 DEF Expired, PutBack, Stages
<1>6. ~t.panic
  BY <1>2, <1>3 DEF Sound
<1>7. Apart(t)
  <2> SUFFICES ASSUME NEW h \in Hashes
               PROVE  /\ (t.fetching[h] # None) <=> (t.alternates[h] # {})
                      /\ t.alternates[h] # {} => t.announced[h] = {}
    BY DEF Apart
  <2>1. CASE h \in late
    <3>1. t.fetching[h] = None /\ t.alternates[h] = {}
      BY <1>2, <2>1
    <3> QED
      BY <3>1
  <2>2. CASE h \notin late
    BY <1>2, <2>2 DEF Sound, Apart
  <2> QED
    BY <2>1, <2>2
<1>8. \A p \in Peers : Owed(t, p) = IF p \in L THEN {} ELSE Owed(q, p)
  <2> SUFFICES ASSUME NEW p \in Peers
               PROVE  Owed(t, p) = IF p \in L THEN {} ELSE Owed(q, p)
    OBVIOUS
  <2>1. CASE p \in L
    <3>1. t.requests[p].hashes = <<>>
      BY <1>4, <2>1 DEF Requests
    <3> QED
      BY <1>4, <2>1, <3>1, EmptyRange DEF Owed
  <2>2. CASE p \notin L
    BY <1>2, <2>2 DEF Owed
  <2> QED
    BY <2>1, <2>2
<1>9. Debts(t)
  <2> SUFFICES ASSUME NEW h \in Hashes, NEW p \in Peers
               PROVE  t.fetching[h] = p <=> h \in Owed(t, p)
    BY DEF Debts
  <2>1. q.fetching[h] = p <=> h \in Owed(q, p)
    BY DEF Sound, Debts
  <2>2. CASE h \in late
    BY <1>2, <1>3, <1>8, <2>1, <2>2, NoneAssumption
  <2>3. CASE h \notin late
    BY <1>2, <1>8, <2>1, <2>3
  <2> QED
    BY <2>2, <2>3
<1>10. Backed(t)
  <2> SUFFICES ASSUME NEW h \in Hashes, NEW o \in Peers, h \in t.announces[o]
               PROVE  o \in t.announced[h] \cup t.alternates[h]
    BY DEF Backed
  <2>1. h \in q.announces[o] /\ ~(o \in L /\ h \in Owed(q, o))
    BY <1>2
  <2>2. o \in q.announced[h] \cup q.alternates[h]
    BY <2>1 DEF Sound, Backed
  <2>3. CASE h \in late
    <3>1. o \in origins[h]
      BY <1>3, <2>1, <2>2, <2>3
    <3> QED
      BY <1>2, <2>3, <3>1
  <2>4. CASE h \notin late
    BY <1>2, <2>2, <2>4
  <2> QED
    BY <2>3, <2>4
<1>11. NothingNew(q, t, {})
  BY <1>2, <1>3 DEF NothingNew
<1>12. ASSUME NEW D, Origins(q, D)
       PROVE  Origins(t, D)
  <2> SUFFICES ASSUME NEW h \in Hashes, NEW o \in Peers, o \in t.announced[h] \cup t.alternates[h]
               PROVE  h \in t.announces[o] \/ o \in D
    BY DEF Origins
  <2>1. CASE h \in late
    <3>1. o \in origins[h]
      BY <1>2, <1>3, <2>1
    <3>2. o \in q.alternates[h] /\ ~(o \in L /\ h \in Owed(q, o))
      BY <3>1
    <3>3. h \in q.announces[o] \/ o \in D
      BY <1>12, <3>2 DEF Origins
    <3> QED
      BY <1>2, <3>2, <3>3
  <2>2. CASE h \notin late
    <3>1. h \in q.announces[o] \/ o \in D
      BY <1>2, <1>12, <2>2 DEF Origins
    <3>2. ~(o \in L /\ h \in Owed(q, o))
      BY <2>2
    <3> QED
      BY <1>2, <3>1, <3>2
  <2> QED
    BY <2>1, <2>2
<1>13. Asking(q) => Asking(t)
  <2>1. Busy(t) = Busy(q)
    BY <1>1, <1>2, <1>4 DEF Busy, Pending
  <2> QED
    BY <1>2, <2>1 DEF Asking
<1> QED
  BY <1>5, <1>6, <1>7, <1>9, <1>10, <1>11, <1>12, <1>13 DEF Sound

\* s after the first part of cleanup.  A reply of p leaves p's request for the second
\* part, so p still owes what it just delivered.
AfterDelivery(s, p, D, direct) ==
    /\ s \in Stages /\ ~s.panic /\ Apart(s) /\ Backed(s)
    /\ \A h \in D : s.fetching[h] = None /\ s.announced[h] = {} /\ s.alternates[h] = {}
    /\ \A h \in Hashes, o \in Peers : s.fetching[h] = o => h \in Owed(s, o)
    /\ \A h \in Hashes, o \in Peers : h \in Owed(s, o) =>
          q.fetching[h] = o /\ (s.fetching[h] = o \/ (h \in D /\ o = p /\ direct))
    /\ NothingNew(q, s, {})
    /\ \A X : Origins(q, X) => Origins(s, X)
    /\ Asking(q) => Asking(s)
    /\ Busy(s) = Busy(q)
    /\ \A o \in Peers : Unfetched(s, o) \subseteq Unfetched(q, o)

LEMMA DeliveredFacts ==
    ASSUME Sound(q), NEW p \in Peers, NEW D \in SUBSET Hashes, NEW direct \in BOOLEAN
    PROVE  AfterDelivery(Delivered(p, D, direct), p, D, direct)
<1> DEFINE s == Delivered(p, D, direct)
           stolen(o) == {h \in D : q.fetching[h] = o /\ (o # p \/ ~direct)}
<1>1. q \in Stages
  BY DEF Sound
<1>2. /\ s.timer = q.timer
      /\ s.announces = [o \in Peers |-> q.announces[o] \ D]
      /\ s.announced = [h \in Hashes |-> IF h \in D THEN {} ELSE q.announced[h]]
      /\ s.alternates = [h \in Hashes |-> IF h \in D THEN {} ELSE q.alternates[h]]
      /\ s.fetching = [h \in Hashes |-> IF h \in D THEN None ELSE q.fetching[h]]
      /\ s.requests = [o \in Peers |->
            IF q.requests[o] = None THEN None
            ELSE [q.requests[o] EXCEPT !.stolen = @ \cup stolen(o)]]
      /\ s.panic = (q.panic \/ \E o \in Peers \ Busy(q) : stolen(o) # {})
  BY <1>1 DEF Delivered, Stages
<1>3. \A o \in Peers : q.requests[o] # None =>
            /\ s.requests[o] \in Requests /\ s.requests[o] # None
            /\ s.requests[o].hashes = q.requests[o].hashes
            /\ s.requests[o].stolen = q.requests[o].stolen \cup stolen(o)
  <2> SUFFICES ASSUME NEW o \in Peers, q.requests[o] # None
               PROVE  /\ s.requests[o] \in Requests /\ s.requests[o] # None
                      /\ s.requests[o].hashes = q.requests[o].hashes
                      /\ s.requests[o].stolen = q.requests[o].stolen \cup stolen(o)
    OBVIOUS
  <2>1. q.requests[o] \in Requests
    BY <1>1 DEF Stages
  <2>2. s.requests[o] = [q.requests[o] EXCEPT !.stolen = @ \cup stolen(o)]
    BY <1>2
  <2>3. stolen(o) \subseteq Hashes
    OBVIOUS
  <2>4. /\ s.requests[o] \in Requests
        /\ s.requests[o].hashes = q.requests[o].hashes
        /\ s.requests[o].stolen = q.requests[o].stolen \cup stolen(o)
    BY <2>1, <2>2, <2>3 DEF Requests
  <2> QED
    BY <2>4, NoneAssumption
<1>4. \A o \in Peers : q.requests[o] = None => s.requests[o] = None
  BY <1>2
<1>5. \A o \in Peers : Owed(s, o) = Owed(q, o) \ stolen(o)
  BY <1>3, <1>4 DEF Owed
<1>6. \A h \in Hashes, o \in Peers : q.fetching[h] = o <=> h \in Owed(q, o)
  BY DEF Sound, Debts
<1>7. s \in Stages
  <2>1. s.announced \in [Hashes -> SUBSET Peers] /\ s.alternates \in [Hashes -> SUBSET Peers]
    BY <1>1, <1>2 DEF Stages
  <2>2. s.fetching \in [Hashes -> Peers \cup {None}]
    BY <1>1, <1>2 DEF Stages
  <2>3. s.announces \in [Peers -> SUBSET Hashes]
    BY <1>1, <1>2 DEF Stages
  <2>4. s.requests \in [Peers -> Requests \cup {None}]
    <3>1. \A o \in Peers : s.requests[o] \in Requests \cup {None}
      BY <1>3, <1>4
    <3> QED
      BY <1>2, <3>1
  <2>5. s.panic \in BOOLEAN /\ s.timer \in BOOLEAN
    BY <1>1, <1>2 DEF Stages
  <2> QED
    BY <1>1, <2>1, <2>2, <2>3, <2>4, <2>5 DEF Delivered, Stages
<1>8. ~s.panic
  <2>1. \A o \in Peers : stolen(o) # {} => o \in Busy(q)
    BY <1>1, <1>6, OwedFacts
  <2> QED
    BY <1>2, <2>1 DEF Sound
<1>9. \A h \in D : s.fetching[h] = None /\ s.announced[h] = {} /\ s.alternates[h] = {}
  BY <1>2
<1>10. \A h \in Hashes \ D : /\ s.fetching[h] = q.fetching[h]
                             /\ s.announced[h] = q.announced[h]
                             /\ s.alternates[h] = q.alternates[h]
  BY <1>2
<1>11. Apart(s)
  BY <1>9, <1>10 DEF Sound, Apart
<1>12. Backed(s)
  <2> SUFFICES ASSUME NEW h \in Hashes, NEW o \in Peers, h \in s.announces[o]
               PROVE  o \in s.announced[h] \cup s.alternates[h]
    BY DEF Backed
  <2>1. h \in q.announces[o] /\ h \notin D
    BY <1>2
  <2> QED
    BY <1>10, <2>1 DEF Sound, Backed
<1>13. \A h \in Hashes, o \in Peers : s.fetching[h] = o => h \in Owed(s, o)
  <2> SUFFICES ASSUME NEW h \in Hashes, NEW o \in Peers, s.fetching[h] = o
               PROVE  h \in Owed(s, o)
    OBVIOUS
  <2>1. h \notin D
    BY <1>9, NoneAssumption
  <2>2. h \in Owed(q, o) /\ h \notin stolen(o)
    BY <1>6, <1>10, <2>1
  <2> QED
    BY <1>5, <2>2
<1>14. \A h \in Hashes, o \in Peers : h \in Owed(s, o) =>
            /\ q.fetching[h] = o
            /\ s.fetching[h] = o \/ (h \in D /\ o = p /\ direct)
  <2> SUFFICES ASSUME NEW h \in Hashes, NEW o \in Peers, h \in Owed(s, o)
               PROVE  /\ q.fetching[h] = o
                      /\ s.fetching[h] = o \/ (h \in D /\ o = p /\ direct)
    OBVIOUS
  <2>1. h \in Owed(q, o) /\ h \notin stolen(o)
    BY <1>5
  <2>2. q.fetching[h] = o
    BY <1>6, <2>1
  <2> QED
    BY <1>10, <2>1, <2>2
<1>15. NothingNew(q, s, {})
  BY <1>9, <1>10 DEF NothingNew
<1>16. ASSUME NEW X, Origins(q, X)
       PROVE  Origins(s, X)
  <2> SUFFICES ASSUME NEW h \in Hashes, NEW o \in Peers, o \in s.announced[h] \cup s.alternates[h]
               PROVE  h \in s.announces[o] \/ o \in X
    BY DEF Origins
  <2>1. h \notin D
    BY <1>9
  <2>2. h \in q.announces[o] \/ o \in X
    BY <1>10, <1>16, <2>1 DEF Origins
  <2> QED
    BY <1>2, <2>1, <2>2
<1>17. Busy(s) = Busy(q)
  BY <1>3, <1>4 DEF Busy
<1>18. Asking(q) => Asking(s)
  BY <1>2, <1>17 DEF Asking
<1>19. \A o \in Peers : Unfetched(s, o) \subseteq Unfetched(q, o)
  <2> SUFFICES ASSUME NEW o \in Peers, NEW h \in Unfetched(s, o)
               PROVE  h \in Unfetched(q, o)
    OBVIOUS
  <2>1. h \in q.announces[o] \ D /\ s.fetching[h] = None
    BY <1>2 DEF Unfetched
  <2>2. h \in Hashes \ D
    BY <1>1, <2>1 DEF Stages
  <2> QED
    BY <1>10, <2>1, <2>2 DEF Unfetched
<1> QED
  BY <1>7, <1>8, <1>9, <1>11, <1>12, <1>13, <1>14, <1>15, <1>16, <1>17, <1>18, <1>19
  DEF AfterDelivery

\* A delivery that is not a reply to a request.
LEMMA DeliveredSound ==
    ASSUME Sound(q), NEW p \in Peers, NEW D \in SUBSET Hashes, NEW direct \in BOOLEAN,
           ~(direct /\ Delivered(p, D, direct).requests[p] # None)
    PROVE  Sound(Delivered(p, D, direct))
<1> DEFINE s == Delivered(p, D, direct)
<1>2. direct => Owed(s, p) = {}
  BY DEF Owed
<1> AfterDelivery(s, p, D, direct)
  BY DeliveredFacts
<1> HIDE DEF s
<1>1. /\ s \in Stages /\ ~s.panic /\ Apart(s) /\ Backed(s)
      /\ \A h \in Hashes, o \in Peers : s.fetching[h] = o => h \in Owed(s, o)
      /\ \A h \in Hashes, o \in Peers : h \in Owed(s, o) =>
            s.fetching[h] = o \/ (h \in D /\ o = p /\ direct)
  BY DEF AfterDelivery
<1>3. Debts(s)
  <2> SUFFICES ASSUME NEW h \in Hashes, NEW o \in Peers
               PROVE  s.fetching[h] = o <=> h \in Owed(s, o)
    BY DEF Debts
  <2> QED
    BY <1>1, <1>2
<1> QED
  BY <1>1, <1>3 DEF Sound, s

LEMMA AnsweredSound ==
    ASSUME Sound(q), Exclusive, NEW p \in Peers, NEW D \in SUBSET Hashes
    PROVE  LET t == Answered(Delivered(p, D \ Waiting, TRUE), p, D)
           IN  /\ Sound(t)
               /\ NothingNew(q, t, {})
               /\ \A X : Origins(q, X) => Origins(t, X)
               /\ Asking(q) => Asking(t)
<1> DEFINE s == Delivered(p, D \ Waiting, TRUE)
           t == Answered(s, p, D)
           origins == [h \in Hashes |->
              IF h \in D THEN {}
              ELSE s.alternates[h] \ (IF h \in Refused(s, p, D) THEN {p} ELSE {})]
<1> AfterDelivery(s, p, D \ Waiting, TRUE)
  <2>1. D \ Waiting \in SUBSET Hashes /\ TRUE \in BOOLEAN
    OBVIOUS
  <2> QED
    BY <2>1, DeliveredFacts
<1> HIDE DEF s
<1>1. /\ s \in Stages /\ ~s.panic /\ Apart(s) /\ Backed(s)
      /\ \A h \in D \ Waiting : /\ s.fetching[h] = None
                                /\ s.announced[h] = {} /\ s.alternates[h] = {}
      /\ \A h \in Hashes, o \in Peers : s.fetching[h] = o => h \in Owed(s, o)
      /\ \A h \in Hashes, o \in Peers : h \in Owed(s, o) =>
            /\ q.fetching[h] = o
            /\ s.fetching[h] = o \/ (h \in D \ Waiting /\ o = p)
      /\ NothingNew(q, s, {})
      /\ \A X : Origins(q, X) => Origins(s, X)
      /\ Asking(q) => Asking(s)
  BY DEF AfterDelivery
<1>2. /\ t.timer = s.timer
      /\ t.announced = [h \in Hashes |->
            IF h \in Owed(s, p) /\ origins[h] # {} THEN origins[h] ELSE s.announced[h]]
      /\ t.alternates = [h \in Hashes |-> IF h \in Owed(s, p) THEN {} ELSE s.alternates[h]]
      /\ t.fetching = [h \in Hashes |-> IF h \in Owed(s, p) THEN None ELSE s.fetching[h]]
      /\ t.announces = [s.announces EXCEPT ![p] = @ \ Refused(s, p, D)]
      /\ t.requests = [s.requests EXCEPT ![p] = None]
      /\ t.panic = (s.panic \/ \E h \in Owed(s, p) \ D : origins[h] # {} /\ s.announced[h] # {})
  BY <1>1 DEF Answered, PutBack, Stages
<1>3. Owed(s, p) \subseteq Hashes /\ Refused(s, p, D) \subseteq Owed(s, p) \ D
  BY <1>1, OwedFacts DEF Refused
<1>4. \A h \in Owed(s, p) : h \in D => h \in D \ Waiting
  <2> SUFFICES ASSUME NEW h \in Owed(s, p), h \in Waiting
               PROVE  FALSE
    OBVIOUS
  <2>1. q.fetching[h] = p /\ p # None /\ h \in Hashes
    BY <1>1, <1>3, NoneAssumption
  <2>2. q.alternates[h] # {}
    BY <2>1 DEF Sound, Apart
  <2> QED
    BY <2>1, <2>2 DEF Exclusive, Waiting
<1>5. \A h \in Owed(s, p) : s.announced[h] = {}
  <2> SUFFICES ASSUME NEW h \in Owed(s, p)
               PROVE  s.announced[h] = {}
    OBVIOUS
  <2>1. CASE h \in D
    BY <1>1, <1>4, <2>1
  <2>2. CASE h \notin D
    <3>1. s.fetching[h] = p /\ p # None
      BY <1>1, <1>3, <2>2, NoneAssumption
    <3> QED
      BY <1>1, <1>3, <3>1 DEF Apart
  <2> QED
    BY <2>1, <2>2
<1>6. \A h \in Hashes : h \in Owed(s, p) =>
            t.fetching[h] = None /\ t.alternates[h] = {} /\ t.announced[h] = origins[h]
  BY <1>2, <1>5
<1>7. \A h \in Hashes : h \notin Owed(s, p) =>
            /\ t.fetching[h] = s.fetching[h] /\ t.alternates[h] = s.alternates[h]
            /\ t.announced[h] = s.announced[h]
  BY <1>2
<1>8. t \in Stages
  <2>1. t.announced \in [Hashes -> SUBSET Peers] /\ t.alternates \in [Hashes -> SUBSET Peers]
    BY <1>1, <1>2 DEF Stages
  <2>2. t.fetching \in [Hashes -> Peers \cup {None}]
    BY <1>1, <1>2 DEF Stages
  <2>3. t.announces \in [Peers -> SUBSET Hashes]
    BY <1>1, <1>2 DEF Stages
  <2>4. t.requests \in [Peers -> Requests \cup {None}]
    BY <1>1, <1>2 DEF Stages
  <2>5. t.panic \in BOOLEAN /\ t.timer \in BOOLEAN
    BY <1>1, <1>2 DEF Stages
  <2> QED
    BY <1>1, <2>1, <2>2, <2>3, <2>4, <2>5 DEF Answered, PutBack, Stages
<1>9. ~t.panic
  BY <1>1, <1>2, <1>5
<1>a. /\ t.requests[p] = None
      /\ \A o \in Peers : o # p => t.requests[o] = s.requests[o]
  <2>1. s.requests \in [Peers -> Requests \cup {None}] /\ t.requests = [s.requests EXCEPT ![p] = None]
    BY <1>1, <1>2 DEF Stages
  <2> QED
    BY <2>1
<1>b. /\ t.announces[p] = s.announces[p] \ Refused(s, p, D)
      /\ \A o \in Peers : o # p => t.announces[o] = s.announces[o]
  <2>1. s.announces \in [Peers -> SUBSET Hashes]
    BY <1>1 DEF Stages
  <2> QED
    BY <1>2, <2>1
<1>10. Apart(t)
  <2> SUFFICES ASSUME NEW h \in Hashes
               PROVE  /\ (t.fetching[h] # None) <=> (t.alternates[h] # {})
                      /\ t.alternates[h] # {} => t.announced[h] = {}
    BY DEF Apart
  <2> HIDE DEF t
  <2>1. CASE h \in Owed(s, p)
    BY <1>6, <2>1
  <2>2. CASE h \notin Owed(s, p)
    BY <1>1, <1>7, <2>2 DEF Apart
  <2> QED
    BY <2>1, <2>2
<1>11. Debts(t)
  <2> SUFFICES ASSUME NEW h \in Hashes, NEW o \in Peers
               PROVE  t.fetching[h] = o <=> h \in Owed(t, o)
    BY DEF Debts
  <2>1. CASE o = p
    <3>1. Owed(t, p) = {}
      BY <1>a DEF Owed
    <3>2. t.fetching[h] # p
      BY <1>1, <1>6, <1>7, NoneAssumption
    <3> QED
      BY <2>1, <3>1, <3>2
  <2>2. CASE o # p
    <3>1. t.requests[o] = s.requests[o]
      BY <1>a, <2>2
    <3>2. Owed(t, o) = Owed(s, o)
      BY <3>1 DEF Owed
    <3>3. s.fetching[h] = o <=> h \in Owed(s, o)
      BY <1>1, <2>2
    <3>4. h \in Owed(s, p) => h \notin Owed(s, o)
      BY <1>1, <2>2
    <3> QED
      BY <1>6, <1>7, <3>2, <3>3, <3>4, NoneAssumption
  <2> QED
    BY <2>1, <2>2
<1>12. Backed(t)
  <2> SUFFICES ASSUME NEW h \in Hashes, NEW o \in Peers, h \in t.announces[o]
               PROVE  o \in t.announced[h] \cup t.alternates[h]
    BY DEF Backed
  <2>1. h \in s.announces[o] /\ ~(o = p /\ h \in Refused(s, p, D))
    BY <1>b
  <2>2. o \in s.announced[h] \cup s.alternates[h]
    BY <1>1, <2>1 DEF Backed
  <2>3. CASE h \in Owed(s, p)
    <3>1. o \in s.alternates[h]
      BY <1>5, <2>2, <2>3
    <3>2. h \notin D
      BY <1>1, <1>4, <2>3, <3>1
    <3>3. o \in origins[h]
      BY <2>1, <3>1, <3>2
    <3> QED
      BY <1>6, <2>3, <3>3
  <2>4. CASE h \notin Owed(s, p)
    BY <1>7, <2>2, <2>4
  <2> QED
    BY <2>3, <2>4
<1>13. NothingNew(q, t, {})
  <2> SUFFICES ASSUME NEW h \in Hashes, q.announced[h] = {}, q.alternates[h] = {}
               PROVE  t.announced[h] = {} /\ t.alternates[h] = {}
    BY DEF NothingNew
  <2>1. s.announced[h] = {} /\ s.alternates[h] = {}
    BY <1>1 DEF NothingNew
  <2>2. origins[h] = {}
    BY <2>1
  <2> QED
    BY <1>6, <1>7, <2>1, <2>2
<1>14. ASSUME NEW X, Origins(q, X)
       PROVE  Origins(t, X)
  <2> SUFFICES ASSUME NEW h \in Hashes, NEW o \in Peers, o \in t.announced[h] \cup t.alternates[h]
               PROVE  h \in t.announces[o] \/ o \in X
    BY DEF Origins
  <2>1. Origins(s, X)
    BY <1>1, <1>14
  <2>2. CASE h \in Owed(s, p)
    <3>1. o \in s.alternates[h] /\ ~(o = p /\ h \in Refused(s, p, D))
      BY <1>6, <2>2
    <3>2. h \in s.announces[o] \/ o \in X
      BY <2>1, <3>1 DEF Origins
    <3> QED
      BY <1>b, <3>1, <3>2
  <2>3. CASE h \notin Owed(s, p)
    <3>1. h \in s.announces[o] \/ o \in X
      BY <1>7, <2>1, <2>3 DEF Origins
    <3>2. h \notin Refused(s, p, D)
      BY <1>3, <2>3
    <3> QED
      BY <1>b, <3>1, <3>2
  <2> QED
    BY <2>2, <2>3
<1>15. Asking(q) => Asking(t)
  <2>1. Busy(t) \subseteq Busy(s)
    BY <1>a DEF Busy
  <2> QED
    BY <1>1, <1>2, <2>1 DEF Asking
<1> QED
  BY <1>8, <1>9, <1>10, <1>11, <1>12, <1>13, <1>14, <1>15 DEF Sound, s

LEMMA DropSound ==
    ASSUME Sound(q), NEW p \in Peers
    PROVE  LET t == Forgotten(Cancelled(p), p)
           IN  /\ Sound(t)
               /\ NothingNew(q, t, {})
               /\ \A D : Origins(q, D) => Origins(t, D \cup {p})
               /\ Busy(t) = Busy(q) \ {p}
               /\ t.timer = q.timer
               /\ p \notin Busy(q) => \A o \in Peers : Unfetched(t, o) \subseteq Unfetched(q, o)
<1> DEFINE c == Cancelled(p)
           t == Forgotten(c, p)
           rest == [h \in Hashes |-> q.alternates[h] \ {p}]
<1>1. q \in Stages
  BY DEF Sound
<1>2. /\ c.timer = q.timer /\ c.panic = q.panic /\ c.announces = q.announces
      /\ c.announced = [h \in Hashes |->
            IF h \in Owed(q, p) /\ rest[h] # {} THEN rest[h] ELSE q.announced[h]]
      /\ c.alternates = [h \in Hashes |-> IF h \in Owed(q, p) THEN {} ELSE q.alternates[h]]
      /\ c.fetching = [h \in Hashes |-> IF h \in Owed(q, p) THEN None ELSE q.fetching[h]]
      /\ c.requests = [q.requests EXCEPT ![p] = None]
  BY <1>1 DEF Cancelled, PutBack, Stages
<1>3. c \in Stages
  <2>1. c.announced \in [Hashes -> SUBSET Peers] /\ c.alternates \in [Hashes -> SUBSET Peers]
    BY <1>1, <1>2 DEF Stages
  <2>2. c.fetching \in [Hashes -> Peers \cup {None}]
    BY <1>1, <1>2 DEF Stages
  <2>3. c.requests \in [Peers -> Requests \cup {None}]
    BY <1>1, <1>2 DEF Stages
  <2> QED
    BY <1>1, <1>2, <2>1, <2>2, <2>3 DEF Cancelled, PutBack, Stages
<1> HIDE DEF c
<1>4. /\ t.timer = c.timer /\ t.panic = c.panic /\ t.alternates = c.alternates
      /\ t.fetching = c.fetching /\ t.requests = c.requests
      /\ t.announced = [h \in Hashes |->
            IF h \in c.announces[p] THEN c.announced[h] \ {p} ELSE c.announced[h]]
      /\ t.announces = [c.announces EXCEPT ![p] = {}]
  BY <1>3 DEF Forgotten, Stages
<1>5. t \in Stages
  <2>1. t.announced \in [Hashes -> SUBSET Peers]
    BY <1>3, <1>4 DEF Stages
  <2>2. t.announces \in [Peers -> SUBSET Hashes]
    BY <1>3, <1>4 DEF Stages
  <2> QED
    BY <1>3, <1>4, <2>1, <2>2 DEF Forgotten, Stages
<1> HIDE DEF t
<1>a. /\ t.requests[p] = None
      /\ \A o \in Peers : o # p => t.requests[o] = q.requests[o]
  <2>1. q.requests \in [Peers -> Requests \cup {None}] /\ t.requests = [q.requests EXCEPT ![p] = None]
    BY <1>1, <1>2, <1>4 DEF Stages
  <2> QED
    BY <2>1
<1>b. /\ t.announces[p] = {}
      /\ \A o \in Peers : o # p => t.announces[o] = q.announces[o]
  <2>1. q.announces \in [Peers -> SUBSET Hashes] /\ t.announces = [q.announces EXCEPT ![p] = {}]
    BY <1>1, <1>2, <1>4 DEF Stages
  <2> QED
    BY <2>1
<1>6. Owed(q, p) \subseteq Hashes
  BY <1>1, OwedFacts
<1>7. \A h \in Owed(q, p) : /\ q.announced[h] = {} /\ q.alternates[h] # {}
                            /\ q.fetching[h] = p
  <2>1. \A h \in Owed(q, p) : q.fetching[h] = p /\ p # None
    BY <1>6, NoneAssumption DEF Sound, Debts
  <2> QED
    BY <1>6, <2>1 DEF Sound, Apart
<1>8. \A h \in Hashes : h \in Owed(q, p) =>
            /\ t.fetching[h] = None /\ t.alternates[h] = {}
            /\ \A o \in Peers \ {p} : o \in t.announced[h] <=> o \in q.alternates[h]
  <2> SUFFICES ASSUME NEW h \in Hashes, h \in Owed(q, p)
               PROVE  /\ t.fetching[h] = None /\ t.alternates[h] = {}
                      /\ \A o \in Peers \ {p} : o \in t.announced[h] <=> o \in q.alternates[h]
    OBVIOUS
  <2>1. t.fetching[h] = None /\ t.alternates[h] = {}
    BY <1>2, <1>4
  <2>2. c.announced[h] = rest[h]
    BY <1>2, <1>7
  <2> QED
    BY <1>4, <2>1, <2>2
<1>9. \A h \in Hashes : h \notin Owed(q, p) =>
            /\ t.fetching[h] = q.fetching[h] /\ t.alternates[h] = q.alternates[h]
            /\ t.announced[h] \subseteq q.announced[h]
            /\ \A o \in Peers \ {p} : o \in t.announced[h] <=> o \in q.announced[h]
  <2> SUFFICES ASSUME NEW h \in Hashes, h \notin Owed(q, p)
               PROVE  /\ t.fetching[h] = q.fetching[h] /\ t.alternates[h] = q.alternates[h]
                      /\ t.announced[h] \subseteq q.announced[h]
                      /\ \A o \in Peers \ {p} : o \in t.announced[h] <=> o \in q.announced[h]
    OBVIOUS
  <2>1. t.fetching[h] = q.fetching[h] /\ t.alternates[h] = q.alternates[h]
    BY <1>2, <1>4
  <2>2. c.announced[h] = q.announced[h]
    BY <1>2
  <2>3. t.announced[h] \in {c.announced[h], c.announced[h] \ {p}}
    BY <1>4
  <2> QED
    BY <2>1, <2>2, <2>3
<1>10. Apart(t)
  <2> SUFFICES ASSUME NEW h \in Hashes
               PROVE  /\ (t.fetching[h] # None) <=> (t.alternates[h] # {})
                      /\ t.alternates[h] # {} => t.announced[h] = {}
    BY DEF Apart
  <2>1. CASE h \in Owed(q, p)
    BY <1>8, <2>1
  <2>2. CASE h \notin Owed(q, p)
    <3>1. /\ (q.fetching[h] # None) <=> (q.alternates[h] # {})
          /\ q.alternates[h] # {} => q.announced[h] = {}
      BY DEF Sound, Apart
    <3> QED
      BY <1>9, <2>2, <3>1
  <2> QED
    BY <2>1, <2>2
<1>11. Debts(t)
  <2> SUFFICES ASSUME NEW h \in Hashes, NEW o \in Peers
               PROVE  t.fetching[h] = o <=> h \in Owed(t, o)
    BY DEF Debts
  <2>1. q.fetching[h] = o <=> h \in Owed(q, o)
    BY DEF Sound, Debts
  <2>2. CASE o = p
    <3>1. Owed(t, p) = {}
      BY <1>a DEF Owed
    <3>2. t.fetching[h] # p
      BY <1>8, <1>9, <2>1, <2>2, NoneAssumption
    <3> QED
      BY <2>2, <3>1, <3>2
  <2>3. CASE o # p
    <3>1. t.requests[o] = q.requests[o]
      BY <1>a, <2>3
    <3>2. Owed(t, o) = Owed(q, o)
      BY <3>1 DEF Owed
    <3> QED
      BY <1>7, <1>8, <1>9, <2>1, <2>3, <3>2, NoneAssumption
  <2> QED
    BY <2>2, <2>3
<1>12. Backed(t)
  <2> SUFFICES ASSUME NEW h \in Hashes, NEW o \in Peers, h \in t.announces[o]
               PROVE  o \in t.announced[h] \cup t.alternates[h]
    BY DEF Backed
  <2>1. o # p /\ h \in q.announces[o]
    BY <1>b
  <2>2. o \in q.announced[h] \cup q.alternates[h]
    BY <2>1 DEF Sound, Backed
  <2>3. CASE h \in Owed(q, p)
    BY <1>7, <1>8, <2>1, <2>2, <2>3
  <2>4. CASE h \notin Owed(q, p)
    BY <1>9, <2>1, <2>2, <2>4
  <2> QED
    BY <2>3, <2>4
<1>13. NothingNew(q, t, {})
  BY <1>7, <1>9 DEF NothingNew
<1>14. ASSUME NEW D, Origins(q, D)
       PROVE  Origins(t, D \cup {p})
  <2> SUFFICES ASSUME NEW h \in Hashes, NEW o \in Peers, o # p,
                      o \in t.announced[h] \cup t.alternates[h]
               PROVE  h \in t.announces[o] \/ o \in D
    BY DEF Origins
  <2>1. o \in q.announced[h] \cup q.alternates[h]
    BY <1>8, <1>9
  <2>2. h \in q.announces[o] \/ o \in D
    BY <1>14, <2>1 DEF Origins
  <2> QED
    BY <1>b, <2>2
<1>15. Busy(t) = Busy(q) \ {p}
  BY <1>a DEF Busy
<1>16. ASSUME p \notin Busy(q), NEW o \in Peers
       PROVE  Unfetched(t, o) \subseteq Unfetched(q, o)
  <2>1. Owed(q, p) = {}
    BY <1>1, <1>16, OwedFacts
  <2>2. t.announces[o] \subseteq q.announces[o]
    BY <1>b
  <2>3. \A h \in Hashes : t.fetching[h] = q.fetching[h]
    BY <1>9, <2>1
  <2>4. q.announces[o] \subseteq Hashes
    BY <1>1 DEF Stages
  <2> QED
    BY <2>2, <2>3, <2>4 DEF Unfetched
<1>17. ~t.panic /\ t.timer = q.timer
  BY <1>2, <1>4 DEF Sound
<1>18. /\ Sound(t)
       /\ NothingNew(q, t, {})
       /\ \A D : Origins(q, D) => Origins(t, D \cup {p})
       /\ Busy(t) = Busy(q) \ {p}
       /\ t.timer = q.timer
       /\ p \notin Busy(q) => \A o \in Peers : Unfetched(t, o) \subseteq Unfetched(q, o)
  BY <1>5, <1>10, <1>11, <1>12, <1>13, <1>14, <1>15, <1>16, <1>17 DEF Sound
<1> QED
  BY <1>18 DEF t, c

-----------------------------------------------------------------------------
(***************************************************************************)
(* The inductive invariant                                                 *)
(***************************************************************************)
WaitTypeOK ==
    /\ waitlist \in [Hashes -> SUBSET Peers]
    /\ waitslots \in [Peers -> SUBSET Hashes]
    /\ waitTimer \in BOOLEAN
    /\ dropped \subseteq Peers

WaitArmed == Waiting # {} => waitTimer

IInv ==
    /\ WaitTypeOK /\ Agree /\ WaitArmed
    /\ Exclusive
    /\ Sound(q) /\ Origins(q, dropped) /\ Asking(q) /\ Active(q)

LEMMA InitIInv == Init => IInv
<1> SUFFICES ASSUME Init
             PROVE  IInv
  OBVIOUS
<1>1. WaitTypeOK /\ Agree /\ WaitArmed
  BY DEF Init, WaitTypeOK, Agree, WaitArmed, Waiting
<1>2. /\ q.announces = [p \in Peers |-> {}] /\ q.announced = [h \in Hashes |-> {}]
      /\ q.alternates = [h \in Hashes |-> {}] /\ q.fetching = [h \in Hashes |-> None]
      /\ q.requests = [p \in Peers |-> None] /\ q.timer = FALSE /\ q.panic = FALSE
  BY DEF Init
<1>3. q \in Stages
  BY DEF Init, Stages
<1>4. \A p \in Peers : Owed(q, p) = {} /\ Unfetched(q, p) = {} /\ p \notin Busy(q)
  BY <1>2 DEF Owed, Unfetched, Busy
<1>5. Apart(q) /\ Backed(q) /\ Origins(q, dropped) /\ Exclusive
  BY <1>2 DEF Apart, Backed, Origins, Exclusive
<1>6. Debts(q)
  BY <1>2, <1>4, NoneAssumption DEF Debts
<1>7. Asking(q) /\ Active(q)
  BY <1>4 DEF Asking, Active, Busy
<1> QED
  BY <1>1, <1>2, <1>3, <1>5, <1>6, <1>7 DEF IInv, Sound

\* What is not tracked by q stays so through t and a scheduling from t.
LEMMA StillExclusive ==
    ASSUME NEW t, NEW u, NEW H, NothingNew(q, t, H), NothingNew(t, u, {})
    PROVE  NothingNew(q, u, H)
BY DEF NothingNew

\* While nobody is asked nothing is being fetched.
LEMMA NobodyAsked ==
    ASSUME Sound(q), Busy(q) = {}
    PROVE  \A p \in Peers : Unfetched(q, p) = q.announces[p]
<1>1. \A p \in Peers : Owed(q, p) = {}
  BY OwedFacts DEF Sound
<1>2. \A h \in Hashes : q.fetching[h] = None
  BY <1>1 DEF Sound, Debts, Stages
<1> QED
  BY <1>2 DEF Sound, Stages, Unfetched

LEMMA NotifyStep ==
    ASSUME IInv, NEW p \in Peers, NEW H \in SUBSET Hashes, notify(p, H)
    PROVE  IInv'
<1> DEFINE fresh == {h \in H : q.alternates[h] = {} /\ q.announced[h] = {}}
           s == AddOrigin(p, H)
<1>1. /\ waitlist' = [h \in Hashes |-> IF h \in fresh THEN waitlist[h] \cup {p} ELSE waitlist[h]]
      /\ waitslots' = [waitslots EXCEPT ![p] = @ \cup fresh]
      /\ waitTimer' = (waitTimer \/ (Waiting = {} /\ fresh # {}))
      /\ q' \in IF q.announces[p] = {} THEN scheduleFetches(s, {p}) ELSE {s}
      /\ dropped' = dropped
  BY DEF notify
<1>2. /\ Sound(s)
      /\ NothingNew(q, s, {})
      /\ \A D : Origins(q, D) => Origins(s, D)
      /\ Asking(q) => Asking(s)
      /\ Busy(s) = Busy(q)
      /\ \A o \in Peers \ {p} : Unfetched(s, o) = Unfetched(q, o)
  BY AddOriginSound DEF IInv
<1> HIDE DEF s
<1>3. \A o \in Peers \ {p} : Unfetched(s, o) # {} => Busy(s) # {}
  BY <1>2 DEF IInv, Active
<1>4. Sound(q') /\ NothingNew(q, q', {}) /\ Origins(q', dropped) /\ Asking(q') /\ Active(q')
  <2>1. CASE q.announces[p] = {}
    <3>1. q' \in scheduleFetches(s, {p})
      BY <1>1, <2>1
    <3>2. /\ Sound(q') /\ NothingNew(s, q', {})
          /\ \A D : Origins(s, D) => Origins(q', D)
          /\ Asking(s) => Asking(q')
          /\ Active(q')
      BY <1>2, <1>3, <3>1, ScheduleSound
    <3> QED
      BY <1>2, <3>2, StillExclusive DEF IInv
  <2>2. CASE q.announces[p] # {}
    <3>1. q' = s
      BY <1>1, <2>2
    <3>2. Busy(q) # {}
      BY <2>2, NobodyAsked DEF IInv, Active
    <3>3. Active(s)
      BY <1>2, <3>2 DEF Active
    <3> QED
      BY <1>2, <3>1, <3>3 DEF IInv
  <2> QED
    BY <2>1, <2>2
<1>5. WaitTypeOK'
  BY <1>1 DEF IInv, WaitTypeOK
<1>6. Agree'
  <2> SUFFICES ASSUME NEW h \in Hashes, NEW o \in Peers
               PROVE  h \in waitslots'[o] <=> o \in waitlist'[h]
    BY DEF Agree
  <2>1. h \in waitslots[o] <=> o \in waitlist[h]
    BY DEF IInv, Agree
  <2>2. h \in waitslots'[o] <=> (h \in waitslots[o] \/ (o = p /\ h \in fresh))
    BY <1>1 DEF IInv, WaitTypeOK
  <2>3. o \in waitlist'[h] <=> (o \in waitlist[h] \/ (o = p /\ h \in fresh))
    BY <1>1
  <2> QED
    BY <2>1, <2>2, <2>3
<1>7. WaitArmed'
  <2>1. Waiting' # {} => Waiting # {} \/ fresh # {}
    BY <1>1 DEF Waiting
  <2> QED
    BY <1>1, <2>1 DEF IInv, WaitArmed
<1>8. Exclusive'
  <2> SUFFICES ASSUME NEW h \in Hashes, waitlist'[h] # {}
               PROVE  q'.announced[h] = {} /\ q'.alternates[h] = {}
    BY DEF Exclusive
  <2>1. q.announced[h] = {} /\ q.alternates[h] = {}
    BY <1>1 DEF IInv, Exclusive
  <2> QED
    BY <1>4, <2>1 DEF NothingNew
<1> QED
  BY <1>1, <1>4, <1>5, <1>6, <1>7, <1>8 DEF IInv, Sound, Origins, Asking, Active, Apart, Debts, Backed

LEMMA WaitStep ==
    ASSUME IInv, NEW E \in SUBSET Waiting, waitTrigger(E)
    PROVE  IInv'
<1> DEFINE s == Queued(E)
           A == UNION {waitlist[h] : h \in E}
<1>1. /\ waitlist' = [h \in Hashes |-> IF h \in E THEN {} ELSE waitlist[h]]
      /\ waitslots' = [p \in Peers |-> waitslots[p] \ {h \in E : p \in waitlist[h]}]
      /\ waitTimer' = (Waiting # E)
      /\ q' \in scheduleFetches(s, A)
      /\ dropped' = dropped
  BY DEF waitTrigger
<1>2. /\ Sound(s)
      /\ NothingNew(q, s, E)
      /\ \A D : Origins(q, D) => Origins(s, D)
      /\ Asking(q) => Asking(s)
      /\ Busy(s) = Busy(q)
      /\ \A o \in Peers \ A : Unfetched(s, o) = Unfetched(q, o)
  BY QueuedSound DEF IInv, WaitTypeOK
<1>3. A \in SUBSET Peers
  BY DEF IInv, WaitTypeOK, Waiting
<1> HIDE DEF s, A
<1>4. \A o \in Peers \ A : Unfetched(s, o) # {} => Busy(s) # {}
  BY <1>2 DEF IInv, Active
<1>5. /\ Sound(q') /\ NothingNew(s, q', {})
      /\ \A D : Origins(s, D) => Origins(q', D)
      /\ Asking(s) => Asking(q')
      /\ Active(q')
  BY <1>1, <1>2, <1>3, <1>4, ScheduleSound
<1>6. NothingNew(q, q', E) /\ Origins(q', dropped) /\ Asking(q')
  BY <1>2, <1>5, StillExclusive DEF IInv
<1>7. WaitTypeOK'
  BY <1>1 DEF IInv, WaitTypeOK
<1>8. Agree'
  BY <1>1 DEF IInv, Agree
<1>9. WaitArmed'
  <2>1. Waiting' = Waiting \ E
    BY <1>1 DEF Waiting
  <2> QED
    BY <1>1, <2>1 DEF WaitArmed
<1>10. Exclusive'
  <2> SUFFICES ASSUME NEW h \in Hashes, waitlist'[h] # {}
               PROVE  q'.announced[h] = {} /\ q'.alternates[h] = {}
    BY DEF Exclusive
  <2>1. h \notin E /\ q.announced[h] = {} /\ q.alternates[h] = {}
    BY <1>1 DEF IInv, Exclusive
  <2> QED
    BY <1>6, <2>1 DEF NothingNew
<1> QED
  BY <1>1, <1>5, <1>6, <1>7, <1>8, <1>9, <1>10 DEF IInv, Sound, Origins, Asking, Active, Apart, Debts, Backed

\* Where the wait list stays or shrinks, what is still waiting is still untracked.
LEMMA WaitersKept ==
    ASSUME Exclusive, \A h \in Hashes : waitlist'[h] \subseteq waitlist[h],
           NothingNew(q, q', {})
    PROVE  Exclusive'
<1> SUFFICES ASSUME NEW h \in Hashes, waitlist'[h] # {}
             PROVE  q'.announced[h] = {} /\ q'.alternates[h] = {}
  BY DEF Exclusive
<1>1. q.announced[h] = {} /\ q.alternates[h] = {}
  BY DEF Exclusive
<1> QED
  BY <1>1 DEF NothingNew

LEMMA TimeoutStep ==
    ASSUME IInv, NEW L \in SUBSET Pending, timeoutTrigger(L)
    PROVE  IInv'
<1> DEFINE s == Expired(L)
<1>1. /\ waitlist' = waitlist /\ waitslots' = waitslots /\ waitTimer' = waitTimer
      /\ dropped' = dropped
      /\ q' \in scheduleFetches(s, Peers)
  BY DEF timeoutTrigger
<1>2. /\ Sound(s)
      /\ NothingNew(q, s, {})
      /\ \A D : Origins(q, D) => Origins(s, D)
      /\ Asking(q) => Asking(s)
  BY ExpiredSound DEF IInv
<1> HIDE DEF s
<1>3. Peers \in SUBSET Peers /\ Peers \ Peers = {}
  OBVIOUS
<1>4. /\ Sound(q') /\ NothingNew(s, q', {})
      /\ \A D : Origins(s, D) => Origins(q', D)
      /\ Asking(s) => Asking(q')
      /\ Active(q')
  BY <1>1, <1>2, <1>3, ScheduleSound
<1>5. NothingNew(q, q', {}) /\ Origins(q', dropped) /\ Asking(q')
  BY <1>2, <1>4, StillExclusive DEF IInv
<1>6. WaitTypeOK' /\ Agree' /\ WaitArmed'
  BY <1>1 DEF IInv, WaitTypeOK, Agree, WaitArmed, Waiting
<1>7. Exclusive'
  BY <1>1, <1>5, WaitersKept DEF IInv
<1> QED
  BY <1>1, <1>4, <1>5, <1>6, <1>7 DEF IInv, Sound, Origins, Asking, Active, Apart, Debts, Backed

LEMMA CleanupStep ==
    ASSUME IInv, NEW p \in Peers, NEW D \in SUBSET Hashes, NEW direct \in BOOLEAN,
           cleanup(p, D, direct)
    PROVE  IInv'
<1> DEFINE s == Delivered(p, D \ Waiting, direct)
           t == Answered(s, p, D)
<1>1. /\ waitlist' = [h \in Hashes |-> IF h \in D THEN {} ELSE waitlist[h]]
      /\ waitslots' = [o \in Peers |-> waitslots[o] \ (D \cap Waiting)]
      /\ q' \in IF direct /\ s.requests[p] # None THEN scheduleFetches(t, Peers) ELSE {s}
      /\ waitTimer' = waitTimer /\ dropped' = dropped
  BY DEF cleanup
<1>2. D \ Waiting \in SUBSET Hashes /\ Peers \in SUBSET Peers /\ Peers \ Peers = {}
  OBVIOUS
<1>3. Sound(q') /\ NothingNew(q, q', {}) /\ Origins(q', dropped) /\ Asking(q') /\ Active(q')
  <2>1. CASE direct /\ s.requests[p] # None
    <3>1. q' \in scheduleFetches(t, Peers)
      BY <1>1, <2>1
    <3>2. direct = TRUE
      BY <2>1
    <3>3. /\ Sound(t)
          /\ NothingNew(q, t, {})
          /\ \A X : Origins(q, X) => Origins(t, X)
          /\ Asking(q) => Asking(t)
      BY <3>2, AnsweredSound DEF IInv
    <3> HIDE DEF t
    <3>4. /\ Sound(q') /\ NothingNew(t, q', {})
          /\ \A X : Origins(t, X) => Origins(q', X)
          /\ Asking(t) => Asking(q')
          /\ Active(q')
      BY <1>2, <3>1, <3>3, ScheduleSound
    <3> QED
      BY <3>3, <3>4, StillExclusive DEF IInv
  <2>2. CASE ~(direct /\ s.requests[p] # None)
    <3>1. q' = s
      BY <1>1, <2>2
    <3>2. Sound(s)
      BY <1>2, <2>2, DeliveredSound DEF IInv
    <3>3. AfterDelivery(s, p, D \ Waiting, direct)
      BY <1>2, DeliveredFacts DEF IInv
    <3> HIDE DEF s
    <3>4. /\ NothingNew(q, s, {})
          /\ \A X : Origins(q, X) => Origins(s, X)
          /\ Asking(q) => Asking(s)
          /\ Busy(s) = Busy(q)
          /\ \A o \in Peers : Unfetched(s, o) \subseteq Unfetched(q, o)
      BY <3>3 DEF AfterDelivery
    <3>5. Active(s)
      BY <3>4 DEF IInv, Active
    <3> QED
      BY <3>1, <3>2, <3>4, <3>5 DEF IInv
  <2> QED
    BY <2>1, <2>2
<1>4. WaitTypeOK'
  BY <1>1 DEF IInv, WaitTypeOK
<1>5. Agree'
  <2> SUFFICES ASSUME NEW h \in Hashes, NEW o \in Peers
               PROVE  h \in waitslots'[o] <=> o \in waitlist'[h]
    BY DEF Agree
  <2>1. h \in waitslots[o] <=> o \in waitlist[h]
    BY DEF IInv, Agree
  <2>2. h \in waitslots'[o] <=> h \in waitslots[o] /\ ~(h \in D /\ waitlist[h] # {})
    BY <1>1 DEF Waiting
  <2>3. o \in waitlist'[h] <=> o \in waitlist[h] /\ h \notin D
    BY <1>1
  <2> QED
    BY <2>1, <2>2, <2>3
<1>6. WaitArmed'
  <2>1. Waiting' \subseteq Waiting
    BY <1>1 DEF Waiting
  <2> QED
    BY <1>1, <2>1 DEF IInv, WaitArmed
<1>7. Exclusive'
  <2>1. \A h \in Hashes : waitlist'[h] \subseteq waitlist[h]
    BY <1>1
  <2> QED
    BY <1>3, <2>1, WaitersKept DEF IInv
<1> QED
  BY <1>1, <1>3, <1>4, <1>5, <1>6, <1>7 DEF IInv, Sound, Origins, Asking, Active, Apart, Debts, Backed

LEMMA DropStep ==
    ASSUME IInv, NEW p \in Peers, drop(p)
    PROVE  IInv'
<1> DEFINE s == Forgotten(Cancelled(p), p)
<1>1. /\ waitlist' = [h \in Hashes |->
            IF h \in waitslots[p] THEN waitlist[h] \ {p} ELSE waitlist[h]]
      /\ waitslots' = [waitslots EXCEPT ![p] = {}]
      /\ waitTimer' = (waitTimer \/ (waitslots[p] # {} /\ Waiting' # {}))
      /\ IF p \in Busy(q)
         THEN q' \in {[n EXCEPT !.timer = TRUE] : n \in scheduleFetches(s, Peers)}
         ELSE q' = s
      /\ dropped' = dropped \cup {p}
  BY DEF drop
<1>2. /\ Sound(s)
      /\ NothingNew(q, s, {})
      /\ \A D : Origins(q, D) => Origins(s, D \cup {p})
      /\ Busy(s) = Busy(q) \ {p}
      /\ s.timer = q.timer
      /\ p \notin Busy(q) => \A o \in Peers : Unfetched(s, o) \subseteq Unfetched(q, o)
  BY DropSound DEF IInv
<1> HIDE DEF s
<1>3. Sound(q') /\ NothingNew(q, q', {}) /\ Origins(q', dropped') /\ Asking(q') /\ Active(q')
  <2>1. CASE p \in Busy(q)
    <3>1. PICK n \in scheduleFetches(s, Peers) : q' = [n EXCEPT !.timer = TRUE]
      BY <1>1, <2>1
    <3>2. Peers \in SUBSET Peers /\ Peers \ Peers = {}
      OBVIOUS
    <3>3. /\ Sound(n) /\ NothingNew(s, n, {})
          /\ \A D : Origins(s, D) => Origins(n, D)
          /\ Active(n)
      BY <1>2, <3>1, <3>2, ScheduleSound
    <3>4. /\ q' \in Stages /\ q'.timer = TRUE /\ q'.panic = n.panic
          /\ q'.announces = n.announces /\ q'.announced = n.announced
          /\ q'.alternates = n.alternates /\ q'.fetching = n.fetching
          /\ q'.requests = n.requests
      <4>1. n \in Stages
        BY <3>3 DEF Sound
      <4> QED
        BY <3>1, <4>1 DEF Stages
    <3>5. Busy(q') = Busy(n) /\ \A o \in Peers : /\ Owed(q', o) = Owed(n, o)
                                                 /\ Unfetched(q', o) = Unfetched(n, o)
      BY <3>4 DEF Busy, Owed, Unfetched
    <3>6. Apart(q') /\ Debts(q') /\ Backed(q')
      <4>1. Apart(n) /\ Debts(n) /\ Backed(n)
        BY <3>3 DEF Sound
      <4>2. Apart(q')
        BY <3>4, <4>1 DEF Apart
      <4>3. Debts(q')
        BY <3>4, <3>5, <4>1 DEF Debts
      <4>4. Backed(q')
        BY <3>4, <4>1 DEF Backed
      <4> QED
        BY <4>2, <4>3, <4>4
    <3>7. Sound(q')
      BY <3>3, <3>4, <3>6 DEF Sound
    <3>8. NothingNew(q, n, {})
      BY <1>2, <3>3, StillExclusive
    <3>9. NothingNew(q, q', {})
      BY <3>4, <3>8 DEF NothingNew
    <3>10. Origins(n, dropped')
      BY <1>1, <1>2, <3>3 DEF IInv
    <3>11. Origins(q', dropped')
      BY <3>4, <3>10 DEF Origins
    <3>12. Asking(q') /\ Active(q')
      BY <3>3, <3>4, <3>5 DEF Asking, Active
    <3> QED
      BY <3>7, <3>9, <3>11, <3>12
  <2>2. CASE p \notin Busy(q)
    <3>1. q' = s /\ Busy(s) = Busy(q)
      BY <1>1, <1>2, <2>2
    <3>2. Asking(s) /\ Active(s)
      BY <1>2, <2>2, <3>1 DEF IInv, Asking, Active
    <3> QED
      BY <1>1, <1>2, <3>1, <3>2 DEF IInv
  <2> QED
    BY <2>1, <2>2
<1>4. WaitTypeOK'
  BY <1>1 DEF IInv, WaitTypeOK
<1>5. Agree'
  <2> SUFFICES ASSUME NEW h \in Hashes, NEW o \in Peers
               PROVE  h \in waitslots'[o] <=> o \in waitlist'[h]
    BY DEF Agree
  <2>1. /\ h \in waitslots[o] <=> o \in waitlist[h]
        /\ h \in waitslots[p] <=> p \in waitlist[h]
    BY DEF IInv, Agree
  <2>2. h \in waitslots'[o] <=> h \in waitslots[o] /\ o # p
    BY <1>1 DEF IInv, WaitTypeOK
  <2>3. o \in waitlist'[h] <=> o \in waitlist[h] /\ ~(h \in waitslots[p] /\ o = p)
    BY <1>1
  <2> QED
    BY <2>1, <2>2, <2>3
<1>6. \A h \in Hashes : waitlist'[h] \subseteq waitlist[h]
  BY <1>1
<1>7. WaitArmed'
  <2>1. Waiting' \subseteq Waiting
    BY <1>6 DEF Waiting
  <2> QED
    BY <1>1, <2>1 DEF IInv, WaitArmed
<1>8. Exclusive'
  BY <1>3, <1>6, WaitersKept DEF IInv
<1> QED
  BY <1>1, <1>3, <1>4, <1>5, <1>7, <1>8 DEF IInv, Sound, Origins, Asking, Active, Apart, Debts, Backed

LEMMA Invariance == IInv /\ [Next]_vars => IInv'
<1> SUFFICES ASSUME IInv, [Next]_vars
             PROVE  IInv'
  OBVIOUS
<1>1. ASSUME NEW p \in Peers, NEW A \in SUBSET Hashes, NEW H \in Kept(p, A), notify(p, H)
      PROVE  IInv'
  <2>1. H \in SUBSET Hashes
    BY DEF Kept
  <2> QED
    BY <1>1, <2>1, NotifyStep
<1>2. ASSUME NEW E \in SUBSET Waiting, waitTrigger(E)
      PROVE  IInv'
  BY <1>2, WaitStep
<1>3. ASSUME NEW L \in SUBSET Pending, timeoutTrigger(L)
      PROVE  IInv'
  BY <1>3, TimeoutStep
<1>4. ASSUME NEW p \in Peers, NEW D \in SUBSET Hashes, NEW direct \in BOOLEAN,
             cleanup(p, D, direct)
      PROVE  IInv'
  BY <1>4, CleanupStep
<1>5. ASSUME NEW p \in Peers, drop(p)
      PROVE  IInv'
  BY <1>5, DropStep
<1>6. CASE UNCHANGED vars
  BY <1>6 DEF vars, IInv, WaitTypeOK, Agree, WaitArmed, Waiting, Exclusive, Sound, Origins, Asking,
     Active, Apart, Debts, Backed
<1> QED
  BY <1>1, <1>2, <1>3, <1>4, <1>5, <1>6 DEF Next

LEMMA IInvHolds == Spec => []IInv
<1> QED
  BY InitIInv, Invariance, PTL DEF Spec

-----------------------------------------------------------------------------
\* The variables keep their types.
THEOREM TypeCorrect == Spec => []TypeOK
<1>1. IInv => TypeOK
  BY DEF IInv, WaitTypeOK, Sound, TypeOK
<1> QED
  BY <1>1, IInvHolds, PTL

\* However many peers and hashes there are, and in whatever order announcements,
\* deliveries, drops and timers reach the loop, a hash is in one of the three stages.
THEOREM StagesAreDisjoint == Spec => []OneStage
<1>1. IInv => OneStage
  BY DEF IInv, Sound, Apart, Exclusive, OneStage
<1> QED
  BY <1>1, IInvHolds, PTL

\* None of the panics in the loop is ever reached.
THEOREM NeverPanics == Spec => []NoPanic
<1>1. IInv => NoPanic
  BY DEF IInv, Sound, NoPanic
<1> QED
  BY <1>1, IInvHolds, PTL

\* A hash is being fetched from a peer exactly when the peer's one request owes it.
THEOREM OneDebtor == Spec => []FetchedFromDebtor
<1>1. IInv => FetchedFromDebtor
  BY DEF IInv, Sound, Debts, FetchedFromDebtor
<1> QED
  BY <1>1, IInvHolds, PTL

\* The maps by peer and the maps by hash agree, but for peers that were dropped.
THEOREM IndexesAgree == Spec => []MapsAgree
<1>1. IInv => MapsAgree
  BY DEF IInv, Agree, Sound, Backed, Origins, MapsAgree
<1> QED
  BY <1>1, IInvHolds, PTL

\* The loop is never left without a timer while a hash waits or a peer is asked, and
\* somebody is asked whenever there is something to ask for.
THEOREM LoopIsWoken == Spec => []TimersArmed
<1>1. IInv => TimersArmed
  BY DEF IInv, WaitArmed, Asking, Active, TimersArmed
<1> QED
  BY <1>1, IInvHolds, PTL
=============================================================================
