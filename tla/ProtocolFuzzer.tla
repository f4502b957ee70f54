--------------------------- MODULE ProtocolFuzzer ---------------------------
(***************************************************************************)
(* LOKI inside the Fabric orderer that runs SmartBFT.  Every orderer keeps *)
(* one list of seeds per consensus message type.  Egress.SendConsensus     *)
(* appends a POINTER to each message the node sends; the RunFuzz goroutine *)
(* of an orderer with id 1, 3 or 5 picks one, overwrites its fields in     *)
(* place, appends the pointer again and broadcasts it through the same     *)
(* SendConsensus.  The lists are package variables: the consensus          *)
(* goroutine and the RunFuzz goroutine of every channel of the process     *)
(* read and write them with no lock, so an append is a load of the slice   *)
(* followed by a store of the longer one.                                  *)
(***************************************************************************)
EXTENDS Naturals, Sequences, FiniteSets

CONSTANTS
    Msgs,          \* message objects the node may allocate
    Txs,           \* client requests the node may accept
    Chains,        \* channels of the process: one BFTChain, one RunFuzz each
    NodesList,     \* Controller.NodesList: the orderer ids, ascending
    Self,          \* Controller.ID
    MessageTypes,  \* the message types of the instance, a subset of 0..9
    MaxMutations,  \* bound: how often one object is overwritten
    MaxResends,    \* bound: how often the view sends an object it kept
    None

ASSUME NodesAssumption ==
    /\ NodesList \in Seq(Nat)
    /\ \A i, j \in DOMAIN NodesList : i < j => NodesList[i] < NodesList[j]
    /\ Self \in {NodesList[i] : i \in DOMAIN NodesList}
ASSUME NamesAssumption == None \notin MessageTypes \cup Msgs /\ "controller" \notin Chains
ASSUME BoundsAssumption == MaxMutations \in Nat /\ MaxResends \in Nat

VARIABLES
    kind,      \* [Msgs -> the message type, None before it is allocated]
    content,   \* [Msgs -> times overwritten; 0 is what the node composed]
    seeds,     \* [MessageTypes -> the objects on the list of that type]
    thread,    \* the consensus goroutine and one goroutine per channel
    resent,    \* how often a kept object was sent again
    txSeeds,   \* transactionSeeds
    txSent     \* [Chains -> the last request a RunTxFuzz goroutine sent]

vars == <<kind, content, seeds, thread, resent, txSeeds, txSent>>

Controller == "controller"
Threads == Chains \cup {Controller}

(***************************************************************************)
(* The three mutators that return their argument as it was.                *)
(***************************************************************************)
Untouched == {4 (* ViewData *), 5 (* NewView *), 8 (* StateTransferRequest *)}

Idle == [pc |-> "idle", msg |-> None, todo |-> <<>>, loaded |-> {}, sent |-> {}]

Init ==
    /\ kind = [m \in Msgs |-> None]
    /\ content = [m \in Msgs |-> 0]
    /\ seeds = [t \in MessageTypes |-> {}]
    /\ thread = [g \in Threads |-> Idle]
    /\ resent = 0
    /\ txSeeds = {}
    /\ txSent = [c \in Chains |-> None]

(***************************************************************************)
(* The receivers of one broadcast.  Controller.BroadcastConsensus and the  *)
(* first strategy skip the node itself; the second and the third drop the  *)
(* first six or eight entries of the list instead.                         *)
(***************************************************************************)
From(i) == SubSeq(NodesList, i + 1, Len(NodesList))

AllOthers ==
    LET own == CHOOSE i \in DOMAIN NodesList : NodesList[i] = Self IN
    SubSeq(NodesList, 1, own - 1) \o From(own)

Strategies_selfIncluded == {NodesList, From(6), From(8)}
Strategies == {AllOthers, From(6), From(8)}

(***************************************************************************)
(* getType files the message under its own type.                           *)
(***************************************************************************)
ListOf_misfiled(m) == IF kind[m] = 5 THEN 4 ELSE kind[m]
ListOf(m) == kind[m]

(***************************************************************************)
(* SendConsensus, once per receiver: the load of the append in getType,    *)
(* then its store and the marshalling of what the object holds by then.    *)
(***************************************************************************)
GetTypeLoad(g) ==
    /\ thread[g].pc = "send"
    /\ thread[g].todo # <<>>
    /\ thread' = [thread EXCEPT ![g].pc = "store",
                                ![g].loaded = seeds[ListOf(thread[g].msg)]]
    /\ UNCHANGED <<kind, content, seeds, resent, txSeeds, txSent>>

GetTypeStoreAndSend_mutateEach(g) ==
    LET m == thread[g].msg IN
    /\ thread[g].pc = "store"
    /\ seeds' = [seeds EXCEPT ![ListOf(m)] = thread[g].loaded \cup {m}]
    /\ content' = IF g # Controller /\ content[m] < MaxMutations
                  THEN [content EXCEPT ![m] = @ + 1] ELSE content
    /\ thread' = [thread EXCEPT
          ![g].pc = "send", ![g].todo = Tail(@), ![g].loaded = {},
          ![g].sent = @ \cup {<<content'[m], Head(thread[g].todo)>>}]
    /\ UNCHANGED <<kind, resent, txSeeds, txSent>>

GetTypeStoreAndSend(g) ==
    LET m == thread[g].msg IN
    /\ thread[g].pc = "store"
    /\ seeds' = [seeds EXCEPT ![ListOf(m)] = thread[g].loaded \cup {m}]
    /\ thread' = [thread EXCEPT
          ![g].pc = "send", ![g].todo = Tail(@), ![g].loaded = {},
          ![g].sent = @ \cup {<<content[m], Head(thread[g].todo)>>}]
    /\ UNCHANGED <<kind, content, resent, txSeeds, txSent>>

BroadcastDone(g) ==
    /\ thread[g].pc = "send"
    /\ thread[g].todo = <<>>
    /\ thread' = [thread EXCEPT ![g] = Idle]
    /\ UNCHANGED <<kind, content, seeds, resent, txSeeds, txSent>>

StartBroadcast(g, m, receivers) ==
    thread' = [thread EXCEPT ![g] = [Idle EXCEPT !.pc = "send", !.msg = m,
                                                 !.todo = receivers]]

(***************************************************************************)
(* The consensus library composes a message and broadcasts it, or sends an *)
(* object it kept (lastBroadcastSent, prevPrepareSent) a second time.      *)
(***************************************************************************)
BroadcastConsensus(t) ==
    /\ thread[Controller].pc = "idle"
    /\ \E m \in Msgs :
          /\ kind[m] = None
          /\ kind' = [kind EXCEPT ![m] = t]
          /\ StartBroadcast(Controller, m, AllOthers)
    /\ UNCHANGED <<content, seeds, resent, txSeeds, txSent>>

ResendKept ==
    /\ thread[Controller].pc = "idle"
    /\ resent < MaxResends
    /\ resent' = resent + 1
    /\ \E m \in Msgs : kind[m] # None /\ StartBroadcast(Controller, m, AllOthers)
    /\ UNCHANGED <<kind, content, seeds, txSeeds, txSent>>

(***************************************************************************)
(* protocolFuzz: getNextType draws 0..10; an empty list, and type 10, give *)
(* nil and the goroutine sleeps.  The seed is overwritten in place.        *)
(***************************************************************************)
protocolFuzz(c, t) ==
    /\ Self \in {1, 3, 5}
    /\ thread[c].pc = "idle"
    /\ \E m \in seeds[t] :
          /\ content[m] < MaxMutations
          /\ content' = IF t \in Untouched THEN content
                                           ELSE [content EXCEPT ![m] = @ + 1]
          /\ thread' = [thread EXCEPT ![c] =
                [Idle EXCEPT !.pc = "append", !.msg = m, !.loaded = seeds[t]]]
    /\ UNCHANGED <<kind, seeds, resent, txSeeds, txSent>>

(***************************************************************************)
(* The store of protocolFuzz's own append, then BroadcastConsensusFuzz.    *)
(***************************************************************************)
BroadcastConsensusFuzz(c) ==
    LET m == thread[c].msg IN
    /\ thread[c].pc = "append"
    /\ seeds' = [seeds EXCEPT ![kind[m]] = thread[c].loaded \cup {m}]
    /\ \E receivers \in Strategies : StartBroadcast(c, m, receivers)
    /\ UNCHANGED <<kind, content, resent, txSeeds, txSent>>

(***************************************************************************)
(* BFTChain.submit records the request bytes; appends that race may drop   *)
(* what was stored since their load.  RunTxFuzz picks a recorded request.  *)
(* SendTransactionFuzz unmarshals it and calls TransactionMessageFuzzed,   *)
(* which overwrites its own copy of the slice header; the result is        *)
(* dropped and the envelope leaves as it was.                              *)
(***************************************************************************)
submit(tx) ==
    /\ txSeeds' \in SUBSET (txSeeds \cup {tx})
    /\ UNCHANGED <<kind, content, seeds, thread, resent, txSent>>

BroadcastTransactionsFuzz(c) ==
    /\ Self \in {1, 3, 5}
    /\ \E tx \in txSeeds, receivers \in {AllOthers, From(6)} :
          /\ receivers # <<>>
          /\ txSent' = [txSent EXCEPT ![c] = tx]
    /\ UNCHANGED <<kind, content, seeds, thread, resent, txSeeds>>

BroadcastTransactions(c) ==
    /\ Self \in {1, 3, 5}
    /\ txSeeds # {}
    /\ txSent' = [txSent EXCEPT ![c] = None]
    /\ UNCHANGED <<kind, content, seeds, thread, resent, txSeeds>>

Next ==
    \/ \E g \in Threads : GetTypeLoad(g) \/ GetTypeStoreAndSend(g) \/ BroadcastDone(g)
    \/ \E t \in MessageTypes : BroadcastConsensus(t)
    \/ ResendKept
    \/ \E c \in Chains : \/ \E t \in MessageTypes : protocolFuzz(c, t)
                        \/ BroadcastConsensusFuzz(c)
                        \/ BroadcastTransactionsFuzz(c)
                        \/ BroadcastTransactions(c)
    \/ \E tx \in Txs : submit(tx)

Spec == Init /\ [][Next]_vars
-----------------------------------------------------------------------------
(***************************************************************************)
(* The state the Go variables of the seed lists and goroutines can hold.   *)
(***************************************************************************)
TypeOK ==
    /\ kind \in [Msgs -> MessageTypes \cup {None}]
    /\ content \in [Msgs -> 0..MaxMutations]
    /\ seeds \in [MessageTypes -> SUBSET Msgs]
    /\ \A g \in Threads :
          /\ thread[g].pc \in {"idle", "append", "send", "store"}
          /\ thread[g].loaded \subseteq Msgs
          /\ thread[g].pc # "idle" => kind[thread[g].msg] # None
    /\ resent \in 0..MaxResends
    /\ txSeeds \subseteq Txs

(***************************************************************************)
(* protocolFuzz calls the mutator of the list it drew from, and a mutator  *)
(* reads the content of its own type through a getter that returns nil for *)
(* any other: whatever appends race, a list only ever holds its own type.  *)
(***************************************************************************)
SeedsKeepTheirType == \A t \in MessageTypes : \A m \in seeds[t] : kind[m] = t

(***************************************************************************)
(* No goroutine sends a consensus message to its own node, although two of *)
(* the strategies do not compare ids (comment "Do not send to yourself").  *)
(***************************************************************************)
NeverToSelf ==
    \A g \in Threads : \A s \in thread[g].sent : s[2] # Self

(***************************************************************************)
(* All receivers of one fuzzed broadcast get the same content (comment     *)
(* above BroadcastConsensusFuzz: every receiver always gets the same       *)
(* message).                                                               *)
(***************************************************************************)
FuzzBroadcastUniform ==
    \A c \in Chains : \A r, s \in thread[c].sent : r[1] = s[1]
=============================================================================
