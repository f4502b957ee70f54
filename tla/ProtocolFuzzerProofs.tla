------------------------ MODULE ProtocolFuzzerProofs ------------------------
(***************************************************************************)
(* Proofs about the seed lists and broadcasts of the Fabric orderer, for   *)
(* any number of channels, messages, requests and orderers.                *)
(***************************************************************************)
EXTENDS ProtocolFuzzer, TLAPS

Others == Nat \ {Self}

Goroutine ==
    [pc : {"idle", "append", "send", "store"}, msg : Msgs \cup {None},
     todo : Seq(Others), loaded : SUBSET Msgs, sent : SUBSET (Nat \X Others)]

(***************************************************************************)
(* What a goroutine holds between the load and the store of an append: an  *)
(* allocated message, and a list in which everything has its type.         *)
(***************************************************************************)
Holding(g) ==
    /\ thread[g].pc # "idle" => thread[g].msg \in Msgs /\ kind[thread[g].msg] # None
    /\ thread[g].pc = "idle" => thread[g].loaded = {} /\ thread[g].sent = {}
    /\ thread[g].pc = "append" => Self \in {1, 3, 5}
    /\ thread[g].pc = "store" => thread[g].todo # <<>>
    /\ \A m \in thread[g].loaded : kind[m] = kind[thread[g].msg]

(***************************************************************************)
(* The inductive invariant.  SeedsKeepTheirType is not inductive alone: a  *)
(* store writes back a list loaded any number of steps before.             *)
(***************************************************************************)
IInv ==
    /\ TypeOK
    /\ thread \in [Threads -> Goroutine]
    /\ SeedsKeepTheirType
    /\ \A g \in Threads : Holding(g)

(***************************************************************************)
(* Ids ascend, so from the seventh entry on they exceed 5, the last id     *)
(* that runs the fuzzer.                                                   *)
(***************************************************************************)
LEMMA HighIds ==
    ASSUME NEW i \in DOMAIN NodesList, i >= 7
    PROVE  NodesList[i] >= 6
<1>1. \A j, k \in DOMAIN NodesList :
          NodesList[j] \in Nat /\ (j < k => NodesList[j] < NodesList[k])
  BY NodesAssumption
<1>2. DOMAIN NodesList = 1..Len(NodesList) /\ Len(NodesList) \in Nat
  BY NodesAssumption
<1>3. /\ 1 \in DOMAIN NodesList /\ 2 \in DOMAIN NodesList /\ 3 \in DOMAIN NodesList
      /\ 4 \in DOMAIN NodesList /\ 5 \in DOMAIN NodesList /\ 6 \in DOMAIN NodesList
      /\ 7 \in DOMAIN NodesList /\ i \in Nat
  BY <1>2
<1>4. /\ NodesList[1] < NodesList[2] /\ NodesList[2] < NodesList[3]
      /\ NodesList[3] < NodesList[4] /\ NodesList[4] < NodesList[5]
      /\ NodesList[5] < NodesList[6] /\ NodesList[6] < NodesList[7]
  BY <1>1, <1>3
<1>5. NodesList[7] >= 6
  BY <1>1, <1>3, <1>4
<1>6. CASE i = 7
  BY <1>5, <1>6
<1>7. CASE i > 7
  BY <1>1, <1>3, <1>5, <1>7
<1> QED  BY <1>3, <1>6, <1>7

LEMMA AllOthersFacts == AllOthers \in Seq(Others)
<1> DEFINE own == CHOOSE i \in DOMAIN NodesList : NodesList[i] = Self
<1>1. own \in DOMAIN NodesList /\ NodesList[own] = Self
  BY NodesAssumption
<1>2. \A i \in DOMAIN NodesList : i # own => NodesList[i] \in Others
  BY <1>1, NodesAssumption DEF Others
<1> HIDE DEF own
<1>3. SubSeq(NodesList, 1, own - 1) \in Seq(Others)
  BY <1>1, <1>2, NodesAssumption
<1>4. SubSeq(NodesList, own + 1, Len(NodesList)) \in Seq(Others)
  BY <1>1, <1>2, NodesAssumption
<1> QED  BY <1>3, <1>4 DEF AllOthers, From, own

LEMMA FromFacts ==
    ASSUME Self \in {1, 3, 5}, NEW n \in {6, 8}
    PROVE  From(n) \in Seq(Others)
<1>1. ASSUME NEW i \in DOMAIN NodesList, i > n
      PROVE  NodesList[i] \in Others
  <2>1. i \in Nat /\ NodesList[i] \in Nat
    BY NodesAssumption
  <2>2. i >= 7
    BY <1>1, <2>1
  <2>3. NodesList[i] >= 6
    BY <2>2, HighIds
  <2>4. NodesList[i] # Self
    BY <2>1, <2>3
  <2> QED
    BY <2>1, <2>4 DEF Others
<1> QED  BY <1>1, NodesAssumption DEF From

LEMMA StrategiesFacts ==
    ASSUME Self \in {1, 3, 5}
    PROVE  Strategies \subseteq Seq(Others)
BY AllOthersFacts, FromFacts DEF Strategies

LEMMA InitIInv == Init => IInv
BY NamesAssumption, BoundsAssumption
   DEF Init, IInv, TypeOK, Goroutine, Idle, SeedsKeepTheirType, Holding

LEMMA ThreadStep ==
    ASSUME thread \in [Threads -> Goroutine], NEW g \in Threads, NEW r \in Goroutine,
           thread' = [thread EXCEPT ![g] = r]
    PROVE  /\ thread' \in [Threads -> Goroutine]
           /\ thread'[g] = r
           /\ \A f \in Threads \ {g} : thread'[f] = thread[f]
OBVIOUS

(***************************************************************************)
(* A broadcast starts with an allocated message and nothing loaded.        *)
(***************************************************************************)
LEMMA StartFacts ==
    ASSUME IInv, NEW g \in Threads, NEW m \in Msgs, NEW r \in Seq(Others),
           StartBroadcast(g, m, r)
    PROVE  /\ thread' \in [Threads -> Goroutine]
           /\ thread'[g].pc = "send" /\ thread'[g].msg = m
           /\ thread'[g].loaded = {} /\ thread'[g].sent = {}
           /\ \A f \in Threads \ {g} : thread'[f] = thread[f]
BY DEF IInv, StartBroadcast, Idle, Goroutine

LEMMA Invariance == IInv /\ [Next]_vars => IInv'
<1> SUFFICES ASSUME IInv, [Next]_vars PROVE IInv'
  OBVIOUS
<1>1. Controller \in Threads /\ Chains \subseteq Threads
  BY DEF Threads
<1>2. ASSUME NEW g \in Threads, GetTypeLoad(g) PROVE IInv'
  <2>1. thread[g].msg \in Msgs /\ kind[thread[g].msg] \in MessageTypes
    BY <1>2 DEF IInv, GetTypeLoad, Holding, TypeOK
  <2>2. seeds[kind[thread[g].msg]] \subseteq Msgs
    BY <2>1 DEF IInv, TypeOK
  <2> DEFINE r == [thread[g] EXCEPT !.pc = "store", !.loaded = seeds[kind[thread[g].msg]]]
  <2>t. thread \in [Threads -> Goroutine] /\ thread[g] \in Goroutine
    BY DEF IInv
  <2>r. r \in Goroutine
    BY <2>t, <2>2 DEF Goroutine
  <2>u. thread' = [thread EXCEPT ![g] = r]
    BY <1>2, <2>t DEF GetTypeLoad, ListOf
  <2> HIDE DEF r
  <2>3. /\ thread' \in [Threads -> Goroutine] /\ thread'[g] = r
        /\ \A f \in Threads \ {g} : thread'[f] = thread[f]
    BY <2>t, <2>r, <2>u, ThreadStep
  <2>4. /\ thread'[g].pc = "store" /\ thread'[g].msg = thread[g].msg
        /\ thread'[g].todo = thread[g].todo /\ thread'[g].todo # <<>>
        /\ thread'[g].loaded = seeds[kind[thread[g].msg]]
        /\ \A f \in Threads \ {g} : thread'[f] = thread[f]
    BY <1>2, <2>t, <2>3 DEF GetTypeLoad, r, Goroutine
  <2>5. \A f \in Threads : Holding(f)'
    BY <1>2, <2>1, <2>4 DEF IInv, GetTypeLoad, Holding, SeedsKeepTheirType
  <2>6. TypeOK' /\ SeedsKeepTheirType'
    BY <1>2, <2>2, <2>4, <2>5 DEF IInv, GetTypeLoad, TypeOK, SeedsKeepTheirType, Holding
  <2> QED  BY <2>3, <2>5, <2>6 DEF IInv
<1>3. ASSUME NEW g \in Threads, GetTypeStoreAndSend(g) PROVE IInv'
  <2> DEFINE m == thread[g].msg
             s == <<content[m], Head(thread[g].todo)>>
  <2>1. m \in Msgs /\ kind[m] \in MessageTypes /\ content[m] \in Nat
    BY <1>3, BoundsAssumption DEF IInv, GetTypeStoreAndSend, Holding, TypeOK
  <2>2. /\ thread[g].todo \in Seq(Others) /\ thread[g].todo # <<>>
        /\ thread[g].loaded \subseteq Msgs
    BY <1>3 DEF GetTypeStoreAndSend, IInv, Holding, Goroutine
  <2>3. s \in Nat \X Others /\ Tail(thread[g].todo) \in Seq(Others)
    BY <2>1, <2>2
  <2> DEFINE r == [thread[g] EXCEPT !.pc = "send", !.todo = Tail(thread[g].todo),
                                    !.loaded = {}, !.sent = thread[g].sent \cup {s}]
  <2>t. thread \in [Threads -> Goroutine] /\ thread[g] \in Goroutine
    BY DEF IInv
  <2>4. thread' = [thread EXCEPT ![g] = r]
    BY <1>3, <2>t DEF GetTypeStoreAndSend
  <2> HIDE DEF s
  <2>r. r \in Goroutine
    BY <2>t, <2>1, <2>3 DEF Goroutine
  <2> HIDE DEF r
  <2>5. /\ thread' \in [Threads -> Goroutine] /\ thread'[g] = r
        /\ \A f \in Threads \ {g} : thread'[f] = thread[f]
    BY <2>t, <2>r, <2>4, ThreadStep
  <2>6. /\ thread'[g].pc = "send" /\ thread'[g].msg = m /\ thread'[g].loaded = {}
        /\ \A f \in Threads \ {g} : thread'[f] = thread[f]
    BY <2>5, <2>t DEF r, Goroutine
  <2>7. seeds' = [seeds EXCEPT ![kind[m]] = thread[g].loaded \cup {m}] /\ kind' = kind
    BY <1>3 DEF GetTypeStoreAndSend, ListOf
  <2>8. \A x \in thread[g].loaded : kind[x] = kind[m]
    BY DEF IInv, Holding
  <2>9. SeedsKeepTheirType' /\ seeds' \in [MessageTypes -> SUBSET Msgs]
    BY <2>1, <2>2, <2>7, <2>8 DEF IInv, SeedsKeepTheirType, TypeOK
  <2>10. \A f \in Threads : Holding(f)'
    <3>1. Holding(g)'
      BY <2>1, <2>6, <2>7, NamesAssumption DEF Holding
    <3>2. \A f \in Threads \ {g} : Holding(f)'
      BY <2>6, <2>7 DEF IInv, Holding
    <3> QED  BY <3>1, <3>2
  <2>11. TypeOK'
    <3>1. /\ kind' \in [Msgs -> MessageTypes \cup {None}] /\ content' \in [Msgs -> 0..MaxMutations]
          /\ resent' \in 0..MaxResends /\ txSeeds' \subseteq Txs
      BY <1>3 DEF IInv, TypeOK, GetTypeStoreAndSend
    <3>2. \A f \in Threads : /\ thread'[f].pc \in {"idle", "append", "send", "store"}
                             /\ thread'[f].loaded \subseteq Msgs
      BY <2>5 DEF Goroutine
    <3>3. \A f \in Threads : thread'[f].pc # "idle" => kind'[thread'[f].msg] # None
      BY <2>10 DEF Holding
    <3> QED  BY <2>9, <3>1, <3>2, <3>3 DEF TypeOK
  <2> QED  BY <2>5, <2>9, <2>10, <2>11 DEF IInv
<1>4. ASSUME NEW g \in Threads, BroadcastDone(g) PROVE IInv'
  <2>1. /\ thread'[g] = Idle /\ thread' \in [Threads -> Goroutine]
        /\ \A f \in Threads \ {g} : thread'[f] = thread[f]
    BY <1>4 DEF IInv, BroadcastDone, Idle, Goroutine
  <2>2. \A f \in Threads : Holding(f)'
    BY <1>4, <2>1 DEF IInv, BroadcastDone, Holding, Idle
  <2> QED  BY <1>4, <2>1, <2>2 DEF IInv, BroadcastDone, TypeOK, SeedsKeepTheirType, Idle
<1>5. ASSUME NEW t \in MessageTypes, BroadcastConsensus(t) PROVE IInv'
  <2>1. PICK m \in Msgs : /\ kind[m] = None
                          /\ kind' = [kind EXCEPT ![m] = t]
                          /\ StartBroadcast(Controller, m, AllOthers)
    BY <1>5 DEF BroadcastConsensus
  <2>2. kind' \in [Msgs -> MessageTypes \cup {None}] /\ kind'[m] = t /\ t # None
    BY <2>1, NamesAssumption DEF IInv, TypeOK
  <2>3. \A x \in Msgs : kind[x] # None => kind'[x] = kind[x]
    BY <2>1 DEF IInv, TypeOK
  <2>4. SeedsKeepTheirType'
    BY <1>5, <2>3, NamesAssumption DEF IInv, SeedsKeepTheirType, TypeOK, BroadcastConsensus
  <2>5. /\ thread' \in [Threads -> Goroutine]
        /\ thread'[Controller].pc = "send" /\ thread'[Controller].msg = m
        /\ thread'[Controller].loaded = {} /\ thread'[Controller].sent = {}
        /\ \A f \in Threads \ {Controller} : thread'[f] = thread[f]
    BY <1>1, <2>1, StartFacts, AllOthersFacts
  <2>6. ASSUME NEW f \in Threads \ {Controller} PROVE Holding(f)'
    <3>1. Holding(f) /\ thread'[f] = thread[f] /\ thread[f].loaded \subseteq Msgs
      BY <2>5 DEF IInv, TypeOK
    <3>2. CASE thread[f].pc = "idle"
      BY <3>1, <3>2 DEF Holding
    <3>3. CASE thread[f].pc # "idle"
      <4>1. thread[f].msg \in Msgs /\ kind[thread[f].msg] # None
        BY <3>1, <3>3 DEF Holding
      <4>2. \A x \in thread[f].loaded : kind'[x] = kind'[thread[f].msg]
        BY <2>3, <3>1, <4>1 DEF Holding
      <4> QED  BY <2>3, <3>1, <3>3, <4>1, <4>2 DEF Holding
    <3> QED  BY <3>2, <3>3
  <2>7. Holding(Controller)'
    BY <2>2, <2>5 DEF Holding
  <2>8. TypeOK'
    BY <1>5, <2>2, <2>5, <2>6, <2>7 DEF IInv, TypeOK, Holding, BroadcastConsensus
  <2> QED  BY <2>4, <2>5, <2>6, <2>7, <2>8 DEF IInv
<1>6. ASSUME NEW g \in Threads, NEW m \in Msgs, NEW r \in Seq(Others), kind[m] # None,
             StartBroadcast(g, m, r), UNCHANGED kind
      PROVE  /\ thread' \in [Threads -> Goroutine] /\ \A f \in Threads : Holding(f)'
             /\ \A f \in Threads :
                   /\ thread'[f].pc \in {"idle", "append", "send", "store"}
                   /\ thread'[f].loaded \subseteq Msgs
                   /\ thread'[f].pc # "idle" => kind'[thread'[f].msg] # None
  <2>1. /\ thread' \in [Threads -> Goroutine]
        /\ thread'[g].pc = "send" /\ thread'[g].msg = m
        /\ thread'[g].loaded = {} /\ thread'[g].sent = {}
        /\ \A f \in Threads \ {g} : thread'[f] = thread[f]
    BY <1>6, StartFacts
  <2>2. Holding(g)'
    BY <1>6, <2>1 DEF Holding
  <2>3. \A f \in Threads \ {g} : Holding(f)'
    BY <1>6, <2>1 DEF IInv, Holding
  <2>4. \A f \in Threads : thread'[f] \in Goroutine
    BY <2>1
  <2> QED  BY <2>1, <2>2, <2>3, <2>4 DEF Holding, Goroutine
<1>7. CASE ResendKept
  <2>1. PICK m \in Msgs : kind[m] # None /\ StartBroadcast(Controller, m, AllOthers)
    BY <1>7 DEF ResendKept
  <2> QED  BY <1>1, <1>6, <1>7, <2>1, AllOthersFacts, BoundsAssumption
            DEF IInv, ResendKept, TypeOK, SeedsKeepTheirType
<1>8. ASSUME NEW c \in Chains, NEW t \in MessageTypes, protocolFuzz(c, t) PROVE IInv'
  <2>1. PICK m \in seeds[t] :
          /\ content[m] < MaxMutations
          /\ content' = IF t \in Untouched THEN content ELSE [content EXCEPT ![m] = @ + 1]
          /\ thread' = [thread EXCEPT ![c] =
                [Idle EXCEPT !.pc = "append", !.msg = m, !.loaded = seeds[t]]]
    BY <1>8 DEF protocolFuzz
  <2>2. seeds[t] \subseteq Msgs /\ \A x \in seeds[t] : kind[x] = t /\ kind[x] # None
    BY NamesAssumption DEF IInv, TypeOK, SeedsKeepTheirType
  <2> DEFINE r == [Idle EXCEPT !.pc = "append", !.msg = m, !.loaded = seeds[t]]
  <2>t. thread \in [Threads -> Goroutine] /\ c \in Threads
    BY <1>1 DEF IInv
  <2>i. Idle \in Goroutine
    BY DEF Goroutine, Idle
  <2>r. r \in Goroutine
    BY <2>2, <2>i DEF Goroutine
  <2>u. thread' = [thread EXCEPT ![c] = r]
    BY <2>1
  <2> HIDE DEF r
  <2>3. /\ thread' \in [Threads -> Goroutine] /\ thread'[c] = r
        /\ \A f \in Threads \ {c} : thread'[f] = thread[f]
    BY <2>t, <2>r, <2>u, ThreadStep
  <2>4. /\ thread'[c].pc = "append" /\ thread'[c].msg = m /\ thread'[c].loaded = seeds[t]
        /\ \A f \in Threads \ {c} : thread'[f] = thread[f]
    BY <2>3 DEF r, Idle
  <2>5. \A f \in Threads : Holding(f)'
    BY <1>8, <2>2, <2>4 DEF IInv, Holding, protocolFuzz
  <2>6. content' \in [Msgs -> 0..MaxMutations]
    BY <2>1, <2>2, BoundsAssumption DEF IInv, TypeOK
  <2> QED  BY <1>8, <2>2, <2>3, <2>4, <2>5, <2>6
            DEF IInv, TypeOK, SeedsKeepTheirType, protocolFuzz
<1>9. ASSUME NEW c \in Chains, BroadcastConsensusFuzz(c) PROVE IInv'
  <2> DEFINE m == thread[c].msg
  <2>1. m \in Msgs /\ kind[m] \in MessageTypes /\ thread[c].loaded \subseteq Msgs
    BY <1>1, <1>9 DEF IInv, BroadcastConsensusFuzz, Holding, TypeOK
  <2>2. \A x \in thread[c].loaded : kind[x] = kind[m]
    BY <1>1 DEF IInv, Holding
  <2>3. SeedsKeepTheirType' /\ seeds' \in [MessageTypes -> SUBSET Msgs]
    BY <1>9, <2>1, <2>2 DEF IInv, SeedsKeepTheirType, TypeOK, BroadcastConsensusFuzz
  <2>4. PICK receivers \in Strategies : StartBroadcast(c, m, receivers)
    BY <1>9 DEF BroadcastConsensusFuzz
  <2>5. receivers \in Seq(Others)
    BY <1>1, <1>9, StrategiesFacts DEF IInv, Holding, BroadcastConsensusFuzz
  <2>6. kind[m] # None /\ UNCHANGED kind /\ c \in Threads
    BY <1>1, <1>9, <2>1, NamesAssumption DEF BroadcastConsensusFuzz
  <2>7. /\ thread' \in [Threads -> Goroutine] /\ \A f \in Threads : Holding(f)'
        /\ \A f \in Threads :
              /\ thread'[f].pc \in {"idle", "append", "send", "store"}
              /\ thread'[f].loaded \subseteq Msgs
              /\ thread'[f].pc # "idle" => kind'[thread'[f].msg] # None
    BY <1>6, <2>1, <2>4, <2>5, <2>6
  <2> QED  BY <1>9, <2>3, <2>7 DEF IInv, BroadcastConsensusFuzz, TypeOK
<1>10. ASSUME NEW c \in Chains, BroadcastTransactionsFuzz(c) \/ BroadcastTransactions(c)
       PROVE  IInv'
  BY <1>10 DEF IInv, BroadcastTransactionsFuzz, BroadcastTransactions, TypeOK,
               SeedsKeepTheirType, Holding
<1>11. ASSUME NEW tx \in Txs, submit(tx) PROVE IInv'
  BY <1>11 DEF IInv, submit, TypeOK, SeedsKeepTheirType, Holding
<1>12. CASE UNCHANGED vars
  BY <1>12 DEF vars, IInv, TypeOK, SeedsKeepTheirType, Holding
<1> QED
  BY <1>2, <1>3, <1>4, <1>5, <1>7, <1>8, <1>9, <1>10, <1>11, <1>12 DEF Next

LEMMA IInvHolds == Spec => []IInv
BY InitIInv, Invariance, PTL DEF Spec

(***************************************************************************)
(* The seed lists and the goroutines keep the types of their variables.    *)
(***************************************************************************)
THEOREM TypeCorrect == Spec => []TypeOK
<1>1. IInv => TypeOK  BY DEF IInv
<1> QED  BY <1>1, IInvHolds, PTL

(***************************************************************************)
(* However many goroutines race in getType and protocolFuzz, and however   *)
(* stale the list an append writes back, a list holds only its own type.   *)
(***************************************************************************)
THEOREM ListsKeepTheirType == Spec => []SeedsKeepTheirType
<1>1. IInv => SeedsKeepTheirType  BY DEF IInv
<1> QED  BY <1>1, IInvHolds, PTL

(***************************************************************************)
(* No node sends itself a consensus message, for every ascending list of   *)
(* ids: those after the sixth exceed the ids that run the fuzzer.          *)
(***************************************************************************)
THEOREM NothingToSelf == Spec => []NeverToSelf
<1>1. IInv => NeverToSelf
  BY DEF IInv, NeverToSelf, Goroutine, Others
<1> QED  BY <1>1, IInvHolds, PTL

(***************************************************************************)
(* With one channel nobody overwrites the message of a fuzzed broadcast    *)
(* between two receivers: what was sent is what the object still holds.    *)
(***************************************************************************)
SentAsHeld(c) == \A s \in thread[c].sent : s[1] = content[thread[c].msg]

LEMMA SentAsHeldStep ==
    ASSUME NEW c, Chains = {c}, IInv, SentAsHeld(c), [Next]_vars
    PROVE  SentAsHeld(c)'
<1>0. c \in Threads /\ c # Controller /\ Threads = {c, Controller}
  BY NamesAssumption DEF Threads, Controller
<1>t. thread \in [Threads -> Goroutine] /\ thread[c] \in Goroutine
  BY <1>0 DEF IInv
<1>1. ASSUME thread'[c].sent = {} PROVE SentAsHeld(c)'
  BY <1>1 DEF SentAsHeld
<1>2. ASSUME UNCHANGED content, thread'[c].sent = thread[c].sent,
             thread'[c].msg = thread[c].msg
      PROVE  SentAsHeld(c)'
  BY <1>2 DEF SentAsHeld
<1>3. ASSUME NEW g \in Threads, GetTypeLoad(g) PROVE SentAsHeld(c)'
  BY <1>0, <1>t, <1>2, <1>3 DEF GetTypeLoad, Goroutine
<1>4. ASSUME GetTypeStoreAndSend(c) PROVE SentAsHeld(c)'
  <2>1. /\ thread'[c].msg = thread[c].msg /\ content' = content
        /\ thread'[c].sent = thread[c].sent
              \cup {<<content[thread[c].msg], Head(thread[c].todo)>>}
    BY <1>0, <1>t, <1>4 DEF GetTypeStoreAndSend, Goroutine
  <2> QED  BY <2>1 DEF SentAsHeld
<1>5. ASSUME GetTypeStoreAndSend(Controller) PROVE SentAsHeld(c)'
  BY <1>0, <1>t, <1>2, <1>5 DEF GetTypeStoreAndSend
<1>6. ASSUME NEW g \in Threads, BroadcastDone(g) PROVE SentAsHeld(c)'
  BY <1>0, <1>t, <1>1, <1>2, <1>6 DEF BroadcastDone, Idle
<1>7. ASSUME NEW t \in MessageTypes, BroadcastConsensus(t) PROVE SentAsHeld(c)'
  BY <1>0, <1>t, <1>2, <1>7 DEF BroadcastConsensus, StartBroadcast
<1>8. CASE ResendKept
  BY <1>0, <1>t, <1>2, <1>8 DEF ResendKept, StartBroadcast
<1>9. ASSUME NEW t \in MessageTypes, protocolFuzz(c, t) PROVE SentAsHeld(c)'
  BY <1>0, <1>t, <1>1, <1>9 DEF protocolFuzz, Idle
<1>10. CASE BroadcastConsensusFuzz(c)
  BY <1>0, <1>t, <1>1, <1>10 DEF BroadcastConsensusFuzz, StartBroadcast, Idle
<1>11. CASE BroadcastTransactionsFuzz(c) \/ BroadcastTransactions(c)
  BY <1>2, <1>11 DEF BroadcastTransactionsFuzz, BroadcastTransactions
<1>12. ASSUME NEW tx \in Txs, submit(tx) PROVE SentAsHeld(c)'
  BY <1>2, <1>12 DEF submit
<1>13. CASE UNCHANGED vars
  BY <1>2, <1>13 DEF vars
<1> QED
  BY <1>0, <1>3, <1>4, <1>5, <1>6, <1>7, <1>8, <1>9, <1>10, <1>11, <1>12, <1>13 DEF Next

(***************************************************************************)
(* Every receiver of one fuzzed broadcast gets the same content, in a      *)
(* process with one channel (comment above BroadcastConsensusFuzz).        *)
(***************************************************************************)
THEOREM UniformWithOneChannel ==
    ASSUME NEW c, Chains = {c}
    PROVE  Spec => []FuzzBroadcastUniform
<1>1. Init => SentAsHeld(c)
  BY DEF Init, SentAsHeld, Idle, Threads
<1>2. IInv /\ SentAsHeld(c) /\ [Next]_vars => SentAsHeld(c)'
  BY SentAsHeldStep
<1>3. SentAsHeld(c) => FuzzBroadcastUniform
  BY DEF SentAsHeld, FuzzBroadcastUniform
<1> QED  BY <1>1, <1>2, <1>3, IInvHolds, PTL DEF Spec
=============================================================================
