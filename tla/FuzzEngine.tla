----------------------------- MODULE FuzzEngine -----------------------------
(***************************************************************************)
(* LOKI inside a FISCO-BCOS node: the Fuzzer that PBFTEngine calls before  *)
(* each message handler, and the detached thread that runs a copy of it    *)
(* (libloki/FuzzEngine.cpp, StateModel.cpp, Strategy.cpp and the hooks in  *)
(* PBFTEngine.cpp).                                                        *)
(*                                                                         *)
(* Messages are shared pointers: the Fuzzer, the engine's queue and the    *)
(* PBFT cache refer to the same object, and mutatePbftMsg changes it in    *)
(* place.  An object keeps its view, whether its hash was emptied, and     *)
(* whether the signature on it is the one of its generatedFrom.  What the  *)
(* PBFT handlers decide besides that is left open.                         *)
(***************************************************************************)
EXTENDS Integers, Sequences, FiniteSets

CONSTANTS
    Objs,       \* message objects that can be created
    Nodes,      \* consensusNodeIDList
    Types,      \* the message types that arrive, a subset of AllTypes
    ViewMod,    \* 2^64: ViewType is an unsigned integer
    Far,        \* the 100 of view() - 100 and view() + 100
    None

\* The values of cur_state that the handlers set: 0 PrePrepare, 1 Prepare, 2 Commit,
\* 3 ViewChange, 4 NewView, 5 CheckPoint, 6 RecoverRequest, 7 RecoverResponse.
AllTypes == 0 .. 7
PackageType == 0 .. 3
Views == 0 .. ViewMod - 1
MaxView == (ViewMod - 1) \div 2

ASSUME FuzzEngineAssumption ==
    /\ Types \subseteq AllTypes
    /\ ViewMod \in Nat \ {0}
    /\ Far \in Nat
    /\ None \notin Objs
    /\ IsFiniteSet(Nodes)

Content == [view : Views, empty : BOOLEAN, valid : BOOLEAN]
FuzzerState == [cur_state : AllTypes \cup {-1}, msgs : [PackageType -> Objs \cup {None}]]

VARIABLES
    heap,      \* contents of every object
    free,      \* objects not created yet
    m_msgQueue,\* messages that wait for the worker: [type, msg]
    engine,    \* initiative_fuzzer_engine
    copy,      \* the Fuzzer the detached thread works on
    worker,    \* the worker inside handleMsg: [pc, type, msg, todo, seed]
    thread,    \* the detached thread: [pc, todo, seed]
    verifying, \* pre-prepares that wait for verifyProposal
    prePrepare,\* m_prePrepare of the PBFT cache, and what it said when it was added
    handled    \* messages that reached their PBFT handler

shared == <<m_msgQueue, verifying, prePrepare, handled>>
vars == <<heap, free, m_msgQueue, engine, copy, worker, thread, verifying, prePrepare, handled>>

Idle == [pc |-> "idle", type |-> 0, msg |-> None, todo |-> <<>>, seed |-> None]
Asleep == [pc |-> "sleep", todo |-> <<>>, seed |-> None]
NoMessage == [cur_state |-> -1, msgs |-> [k \in PackageType |-> None]]

TypeOK ==
    /\ heap \in [Objs -> Content]
    /\ free \subseteq Objs
    /\ m_msgQueue \subseteq [type : Types, msg : Objs]
    /\ engine \in FuzzerState
    /\ copy \in FuzzerState
    /\ worker \in [pc : {"idle", "loop", "send"}, type : AllTypes, msg : Objs \cup {None},
                   todo : Seq(AllTypes), seed : Objs \cup {None}]
    /\ thread \in [pc : {"sleep", "loop", "send"}, todo : Seq(AllTypes), seed : Objs \cup {None}]
    /\ verifying \subseteq Objs
    /\ prePrepare \in [msg : Objs \cup {None}, said : Content]
    /\ handled \subseteq Objs

\* m_mutex is held by the worker while it is inside handleMsg.
Unlocked == worker.pc = "idle"

-----------------------------------------------------------------------------
(***************************************************************************)
(* State, Strategy and the mutators                                        *)
(***************************************************************************)

\* Faulty variant of handleFuzz: the commit handler files its message as a prepare.
handleFuzz_misfiled(f, type, msg) ==
    [cur_state |-> type,
     msgs |-> IF type \in PackageType
                THEN [f.msgs EXCEPT ![IF type = 2 THEN 1 ELSE type] = msg]
                ELSE f.msgs]

\* Fuzzer::handlePrePrepareMsg .. handleRecoverResponse: the vector of the type
\* is cleared and gets the new message; types above 3 only set the state.
handleFuzz(f, type, msg) ==
    [cur_state |-> type,
     msgs |-> IF type \in PackageType THEN [f.msgs EXCEPT ![type] = msg] ELSE f.msgs]

\* random_send_protocol, for one node.
random_packet(cur_state) ==
    IF cur_state = -1 THEN PackageType
    ELSE {cur_state} \cup {(cur_state + d) % 4 : d \in 1 .. 3}

\* Faulty variant of ChosenPackets: no packet for the first of the chosen nodes.
ChosenPackets_one_short(cur_state, sending_nodes) ==
    [1 .. Cardinality(sending_nodes) - 1 -> random_packet(cur_state)]

\* random_send_protocol: one packet for each of the chosen nodes.
ChosenPackets(cur_state, sending_nodes) ==
    [1 .. Cardinality(sending_nodes) -> random_packet(cur_state)]

\* Faulty variant of mutated_view: signed arithmetic.
mutated_view_signed(v) == {v, v - Far, v + Far, v - 1, v + 1}

\* What mutatePbftMsg or mutateViewChange can make of a view.
mutated_view(v) == {v, (v - Far) % ViewMod, (v + Far) % ViewMod, (v - 1) % ViewMod, (v + 1) % ViewMod}

\* mutatePbftMsg may also empty the hash; mutateViewChange touches neither the
\* hash nor the author.
mutated(package, c) ==
    {[view |-> v, empty |-> c.empty \/ (e /\ package # 3), valid |-> c.valid] :
        v \in mutated_view(c.view), e \in BOOLEAN}

\* sendToNodes encodes the message.  PBFTMessage::encode signs it anew with the key
\* of this node, right only if generatedFrom has become this node; a view change
\* that carries a signature keeps it, and the hash it was decoded with.
signed(package, c) ==
    IF package = 3 THEN {c} ELSE {[c EXCEPT !.valid = b] : b \in BOOLEAN}

-----------------------------------------------------------------------------
(***************************************************************************)
(* One turn of the loop in protocol_mutate, on behalf of f                 *)
(***************************************************************************)

\* A recorded message is mutated in place, otherwise an empty one is created.
PickSeed(f, package) == f.msgs[package]

MutateSeed(seed, package) ==
    IF seed = None THEN heap' = heap
    ELSE \E c \in mutated(package, heap[seed]) : heap' = [heap EXCEPT ![seed] = c]

SendSeed(seed, package) ==
    IF seed = None THEN heap' = heap
    ELSE \E c \in signed(package, heap[seed]) : heap' = [heap EXCEPT ![seed] = c]

-----------------------------------------------------------------------------
(***************************************************************************)
(* The worker thread: onReceivePBFTMessage, executeWorker, handleMsg       *)
(***************************************************************************)

onReceivePBFTMessage(type, view) ==
    \E o \in free :
        /\ free' = free \ {o}
        /\ heap' = [heap EXCEPT ![o] = [view |-> view, empty |-> FALSE, valid |-> TRUE]]
        /\ m_msgQueue' = m_msgQueue \cup {[type |-> type, msg |-> o]}
        /\ UNCHANGED <<engine, copy, worker, thread, verifying, prePrepare, handled>>

\* handleMsg up to the first turn of the loop.  A message of an invalid view is
\* dropped before the mutex is taken; a runtime_error of protocol_mutate leaves
\* handleMsg, and the message never reaches its handler.
handleMsg(m) ==
    /\ Unlocked
    /\ m_msgQueue' = m_msgQueue \ {m}
    /\ IF heap[m.msg].view > MaxView
         THEN UNCHANGED <<engine, worker, handled>>
         ELSE /\ engine' = handleFuzz(engine, m.type, m.msg)
              /\ \E nodes \in SUBSET Nodes : \E packets \in ChosenPackets(m.type, nodes) :
                    worker' = IF Len(packets) = Cardinality(nodes)
                                THEN [pc |-> "loop", type |-> m.type, msg |-> m.msg,
                                      todo |-> packets, seed |-> None]
                                ELSE Idle
              /\ UNCHANGED handled
    /\ UNCHANGED <<heap, free, copy, thread, verifying, prePrepare>>

WorkerMutate ==
    /\ worker.pc = "loop" /\ worker.todo # <<>>
    /\ IF Head(worker.todo) \in PackageType
         THEN LET seed == PickSeed(engine, Head(worker.todo)) IN
              /\ MutateSeed(seed, Head(worker.todo))
              /\ worker' = [worker EXCEPT !.pc = "send", !.seed = seed]
         ELSE /\ worker' = [worker EXCEPT !.todo = Tail(worker.todo)]
              /\ UNCHANGED heap
    /\ UNCHANGED <<free, shared, engine, copy, thread>>

WorkerSend ==
    /\ worker.pc = "send"
    /\ SendSeed(worker.seed, Head(worker.todo))
    /\ worker' = [worker EXCEPT !.pc = "loop", !.todo = Tail(worker.todo), !.seed = None]
    /\ UNCHANGED <<free, shared, engine, copy, thread>>

\* The PBFT handler gets the message last.  A pre-prepare that passes the checks,
\* its signature among them, goes to verifyProposal; the mutex is released.
PBFTHandler ==
    /\ worker.pc = "loop" /\ worker.todo = <<>>
    /\ handled' = handled \cup {worker.msg}
    /\ verifying' \in {verifying} \cup
         (IF worker.type = 0 /\ heap[worker.msg].valid THEN {verifying \cup {worker.msg}} ELSE {})
    /\ worker' = Idle
    /\ UNCHANGED <<heap, free, m_msgQueue, engine, copy, thread, prePrepare>>

-----------------------------------------------------------------------------
(***************************************************************************)
(* Other users of the engine, which wait for m_mutex                       *)
(***************************************************************************)

\* The callback of verifyProposal: the message goes into the cache, or not.
onVerifyFinished ==
    /\ Unlocked
    /\ \E o \in verifying :
          /\ verifying' = verifying \ {o}
          /\ prePrepare' \in {prePrepare, [msg |-> o, said |-> heap[o]]}
    /\ UNCHANGED <<heap, free, m_msgQueue, engine, copy, worker, thread, handled>>

\* onRecvProposal of the leader: its pre-prepare goes into the cache first, is then
\* mutated and broadcast.
onRecvProposal(view) ==
    /\ Unlocked
    /\ \E o \in free : LET c == [view |-> view, empty |-> FALSE, valid |-> TRUE] IN
          /\ free' = free \ {o}
          /\ prePrepare' = [msg |-> o, said |-> c]
          /\ \E d \in mutated(0, c) : \E e \in signed(0, d) : heap' = [heap EXCEPT ![o] = e]
    /\ UNCHANGED <<m_msgQueue, engine, copy, worker, thread, verifying, handled>>

-----------------------------------------------------------------------------
(***************************************************************************)
(* The detached thread: start_fuzzer gets its Fuzzer by value              *)
(***************************************************************************)

\* Faulty variant of ThreadFuzzer: start_fuzzer takes its argument by reference.
ThreadFuzzer_reference == engine

ThreadFuzzer == copy

ThreadWake ==
    /\ thread.pc = "sleep"
    /\ \E nodes \in SUBSET Nodes : \E packets \in ChosenPackets(ThreadFuzzer.cur_state, nodes) :
          thread' = [pc |-> "loop", todo |-> packets, seed |-> None]
    /\ UNCHANGED <<heap, free, shared, engine, copy, worker>>

ThreadMutate ==
    /\ thread.pc = "loop" /\ thread.todo # <<>>
    /\ IF Head(thread.todo) \in PackageType
         THEN LET seed == PickSeed(ThreadFuzzer, Head(thread.todo)) IN
              /\ MutateSeed(seed, Head(thread.todo))
              /\ thread' = [thread EXCEPT !.pc = "send", !.seed = seed]
         ELSE /\ thread' = [thread EXCEPT !.todo = Tail(thread.todo)]
              /\ UNCHANGED heap
    /\ UNCHANGED <<free, shared, engine, copy, worker>>

ThreadSend ==
    /\ thread.pc = "send"
    /\ SendSeed(thread.seed, Head(thread.todo))
    /\ thread' = [thread EXCEPT !.pc = "loop", !.todo = Tail(thread.todo), !.seed = None]
    /\ UNCHANGED <<free, shared, engine, copy, worker>>

ThreadSleep ==
    /\ thread.pc = "loop" /\ thread.todo = <<>>
    /\ thread' = Asleep
    /\ UNCHANGED <<heap, free, shared, engine, copy, worker>>

-----------------------------------------------------------------------------
Init ==
    /\ heap = [o \in Objs |-> [view |-> 0, empty |-> FALSE, valid |-> TRUE]]
    /\ free = Objs
    /\ m_msgQueue = {}
    /\ engine = NoMessage
    /\ copy = NoMessage
    /\ worker = Idle
    /\ thread = Asleep
    /\ verifying = {}
    /\ prePrepare = [msg |-> None, said |-> [view |-> 0, empty |-> FALSE, valid |-> TRUE]]
    /\ handled = {}

WorkerStep ==
    \/ \E m \in m_msgQueue : handleMsg(m)
    \/ WorkerMutate
    \/ WorkerSend
    \/ PBFTHandler

ThreadStep == ThreadWake \/ ThreadMutate \/ ThreadSend \/ ThreadSleep

Next ==
    \/ \E type \in Types, view \in Views : onReceivePBFTMessage(type, view)
    \/ WorkerStep
    \/ onVerifyFinished
    \/ \E view \in 0 .. MaxView : onRecvProposal(view)
    \/ ThreadStep

\* The worker is a thread that loops on the queue.
Spec == Init /\ [][Next]_vars /\ WF_vars(WorkerStep)

-----------------------------------------------------------------------------
(***************************************************************************)
(* Properties                                                              *)
(***************************************************************************)

\* The detached thread runs protocol_mutate without m_mutex.  It never works on a
\* message that the engine, its Fuzzer or the PBFT cache can reach, so no message
\* is changed by two threads at once.
NoConcurrentMutation ==
    thread.seed # None => /\ thread.seed # worker.msg
                          /\ thread.seed \notin handled
                          /\ thread.seed # prePrepare.msg
                          /\ thread.seed \notin {engine.msgs[k] : k \in PackageType}

\* Whenever the engine's Fuzzer is in one of the states 0 .. 3 it has a message of
\* that type, so "the original packet" of random_send_protocol is a real one.
CurrentStateHasSeed ==
    engine.cur_state \in PackageType => engine.msgs[engine.cur_state] # None

\* Fuzzing never keeps a message from its PBFT handler: what was queued with a valid
\* view is handled, whatever protocol_mutate chose to send before.
EveryMessageHandled ==
    \A o \in Objs : (\E m \in m_msgQueue : m.msg = o /\ heap[o].view <= MaxView) ~> o \in handled

\* "please ensure the passed in _prePrepareMsg not be modified after
\* addPrePrepareCache": the cached pre-prepare says what it said when it was added.
CachedPrePrepareUnmodified ==
    prePrepare.msg # None => heap[prePrepare.msg] = prePrepare.said
=============================================================================
