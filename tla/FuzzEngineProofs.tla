-------------------------- MODULE FuzzEngineProofs --------------------------
(***************************************************************************)
(* Proofs about LOKI in FISCO-BCOS, for any number of messages, nodes and  *)
(* any width of the view.                                                  *)
(***************************************************************************)
EXTENDS FuzzEngine, FiniteSetTheorems, TLAPS

\* The thread's Fuzzer stays as it was copied, so the thread never holds a message.
ThreadInv ==
    /\ thread = [pc |-> thread.pc, todo |-> thread.todo, seed |-> None]
    /\ copy = NoMessage

\* Queued messages are objects, so what the engine files is never None.
EngineInv ==
    /\ free \subseteq Objs
    /\ m_msgQueue \subseteq [type : Types, msg : Objs]
    /\ engine \in FuzzerState
    /\ CurrentStateHasSeed

IInv == ThreadInv /\ EngineInv

\* Filing a message: the state handleFuzz reaches has a message of its type.
LEMMA FilingKeeps ==
    ASSUME FuzzEngineAssumption, NEW f \in FuzzerState, NEW type \in Types, NEW msg \in Objs
    PROVE  /\ handleFuzz(f, type, msg) \in FuzzerState
           /\ handleFuzz(f, type, msg).cur_state \in PackageType =>
                handleFuzz(f, type, msg).msgs[handleFuzz(f, type, msg).cur_state] # None
<1>1. type \in AllTypes /\ msg # None
  BY DEF FuzzEngineAssumption
<1>2. f.msgs \in [PackageType -> Objs \cup {None}]
  BY DEF FuzzerState
<1>3. CASE type \in PackageType
  <2>1. handleFuzz(f, type, msg) = [cur_state |-> type, msgs |-> [f.msgs EXCEPT ![type] = msg]]
    BY <1>3 DEF handleFuzz
  <2>2. [f.msgs EXCEPT ![type] = msg] \in [PackageType -> Objs \cup {None}]
    BY <1>2, <1>3
  <2>. QED
    BY <1>1, <1>2, <1>3, <2>1, <2>2 DEF FuzzerState
<1>4. CASE type \notin PackageType
  <2>1. handleFuzz(f, type, msg) = [cur_state |-> type, msgs |-> f.msgs]
    BY <1>4 DEF handleFuzz
  <2>. QED
    BY <1>1, <1>2, <1>4, <2>1 DEF FuzzerState
<1>. QED
  BY <1>3, <1>4

LEMMA InitStep == FuzzEngineAssumption /\ Init => IInv
<1>. SUFFICES ASSUME FuzzEngineAssumption, Init PROVE IInv
  OBVIOUS
<1>1. ThreadInv
  BY DEF Init, ThreadInv, Asleep
<1>2. free \subseteq Objs /\ m_msgQueue \subseteq [type : Types, msg : Objs]
  BY DEF Init
<1>3. engine \in FuzzerState /\ engine.cur_state = -1
  BY DEF Init, NoMessage, FuzzerState
<1>4. CurrentStateHasSeed
  BY <1>3 DEF CurrentStateHasSeed, PackageType
<1>. QED
  BY <1>1, <1>2, <1>3, <1>4 DEF IInv, EngineInv

\* No step but the handling of a message touches the queue's messages or the engine.
LEMMA EngineKeeps ==
    ASSUME FuzzEngineAssumption, IInv, [Next]_vars
    PROVE  EngineInv'
<1>. USE DEF IInv, EngineInv
<1>1. ASSUME NEW type \in Types, NEW view \in Views, onReceivePBFTMessage(type, view)
      PROVE  EngineInv'
  <2>1. PICK o \in Objs : m_msgQueue' = m_msgQueue \cup {[type |-> type, msg |-> o]}
    BY <1>1 DEF onReceivePBFTMessage
  <2>2. engine' = engine /\ free' \subseteq Objs
    BY <1>1 DEF onReceivePBFTMessage
  <2>. QED
    BY <2>1, <2>2 DEF CurrentStateHasSeed
<1>2. ASSUME NEW m \in m_msgQueue, handleMsg(m)
      PROVE  EngineInv'
  <2>1. /\ m.type \in Types /\ m.msg \in Objs
        /\ free' = free /\ m_msgQueue' \subseteq [type : Types, msg : Objs]
    BY <1>2 DEF handleMsg
  <2>2. engine' = engine \/ engine' = handleFuzz(engine, m.type, m.msg)
    BY <1>2 DEF handleMsg
  <2>. QED
    BY <2>1, <2>2, FilingKeeps DEF CurrentStateHasSeed
<1>3. ASSUME free' \subseteq free, UNCHANGED <<m_msgQueue, engine>>
      PROVE  EngineInv'
  BY <1>3 DEF CurrentStateHasSeed
<1>4. ASSUME WorkerMutate \/ WorkerSend \/ PBFTHandler \/ ThreadStep \/ onVerifyFinished \/ UNCHANGED vars
      PROVE  EngineInv'
  BY <1>3, <1>4 DEF WorkerMutate, WorkerSend, PBFTHandler, ThreadStep, ThreadWake, ThreadMutate,
     ThreadSend, ThreadSleep, onVerifyFinished, shared, vars
<1>5. ASSUME NEW view \in 0 .. MaxView, onRecvProposal(view)
      PROVE  EngineInv'
  BY <1>3, <1>5 DEF onRecvProposal
<1>. QED
  BY <1>1, <1>2, <1>4, <1>5 DEF Next, WorkerStep

\* The copy is never written, and its seeds are all None.
LEMMA ThreadKeeps ==
    ASSUME IInv, [Next]_vars
    PROVE  ThreadInv'
<1>. USE DEF IInv, ThreadInv
<1>1. copy' = copy
  BY DEF Next, vars, WorkerStep, ThreadStep, onReceivePBFTMessage, handleMsg, WorkerMutate, WorkerSend,
     PBFTHandler, onVerifyFinished, onRecvProposal, ThreadWake, ThreadMutate, ThreadSend, ThreadSleep
<1>2. thread' = thread \/ ThreadStep
  BY DEF Next, vars, WorkerStep, onReceivePBFTMessage, handleMsg, WorkerMutate, WorkerSend,
     PBFTHandler, onVerifyFinished, onRecvProposal
<1>3. CASE ThreadWake
  BY <1>1, <1>3 DEF ThreadWake
<1>4. CASE ThreadMutate
  <2>1. CASE Head(thread.todo) \in PackageType
    <3>1. PickSeed(ThreadFuzzer, Head(thread.todo)) = None
      BY <2>1 DEF PickSeed, ThreadFuzzer, NoMessage
    <3>2. thread' = [thread EXCEPT !.pc = "send", !.seed = None]
      BY <1>4, <2>1, <3>1 DEF ThreadMutate
    <3>. QED
      BY <1>1, <3>2
  <2>2. CASE Head(thread.todo) \notin PackageType
    <3>1. thread' = [thread EXCEPT !.todo = Tail(thread.todo)]
      BY <1>4, <2>2 DEF ThreadMutate
    <3>2. ASSUME NEW t PROVE [thread EXCEPT !.todo = t] = [pc |-> thread.pc, todo |-> t, seed |-> None]
      OBVIOUS
    <3>3. thread' = [pc |-> thread.pc, todo |-> Tail(thread.todo), seed |-> None]
      BY <3>1, <3>2
    <3>. QED
      BY <1>1, <3>3
  <2>. QED
    BY <2>1, <2>2
<1>5. CASE ThreadSend
  BY <1>1, <1>5 DEF ThreadSend
<1>6. CASE ThreadSleep
  BY <1>1, <1>6 DEF ThreadSleep, Asleep
<1>. QED
  BY <1>1, <1>2, <1>3, <1>4, <1>5, <1>6 DEF ThreadStep

\* The invariant is inductive.
THEOREM Inductive == Spec => []IInv
<1>1. IInv /\ [Next]_vars => IInv'
  BY FuzzEngineAssumption, EngineKeeps, ThreadKeeps DEF IInv
<1>. QED
  BY <1>1, FuzzEngineAssumption, InitStep, PTL DEF Spec

\* The detached thread never works on a message the engine can reach: start_fuzzer
\* copies the Fuzzer before it has recorded anything.
THEOREM ThreadsShareNoMessage == Spec => []NoConcurrentMutation
<1>1. IInv => NoConcurrentMutation
  BY DEF IInv, ThreadInv, NoConcurrentMutation
<1>. QED
  BY <1>1, Inductive, PTL

\* In the states 0 .. 3 the engine's Fuzzer has a recorded message of that type.
THEOREM OriginalPacketExists == Spec => []CurrentStateHasSeed
<1>1. IInv => CurrentStateHasSeed
  BY DEF IInv, EngineInv
<1>. QED
  BY <1>1, Inductive, PTL
-----------------------------------------------------------------------------
(***************************************************************************)
(* Types                                                                   *)
(***************************************************************************)

\* What a thread relies on between two of its steps: the packet it is about to send
\* is still on its list, and the worker has a message to hand to the PBFT handler.
Steps ==
    /\ worker.pc # "idle" => worker.msg \in Objs
    /\ worker.pc = "send" => worker.todo # <<>>
    /\ thread.pc = "send" => thread.todo # <<>>

\* A view stays inside the unsigned type, whatever is added or taken away.
LEMMA ViewsWrap ==
    ASSUME NEW v \in Views
    PROVE  mutated_view(v) \subseteq Views
<1>1. \A x \in Int : x % ViewMod \in Views
  BY FuzzEngineAssumption DEF FuzzEngineAssumption, Views
<1>2. v \in Int /\ v - Far \in Int /\ v + Far \in Int /\ v - 1 \in Int /\ v + 1 \in Int
  BY FuzzEngineAssumption DEF FuzzEngineAssumption, Views
<1>. QED
  BY <1>1, <1>2 DEF mutated_view

\* mutatePbftMsg, mutateViewChange and the encoding leave a message well formed.
LEMMA ContentKept ==
    ASSUME NEW c \in Content, NEW package
    PROVE  mutated(package, c) \subseteq Content /\ signed(package, c) \subseteq Content
<1>1. c.view \in Views /\ c.empty \in BOOLEAN /\ c.valid \in BOOLEAN
  BY DEF Content
<1>2. ASSUME NEW v \in mutated_view(c.view), NEW e \in BOOLEAN
      PROVE  [view |-> v, empty |-> c.empty \/ (e /\ package # 3), valid |-> c.valid] \in Content
  BY <1>1, ViewsWrap DEF Content
<1>3. ASSUME NEW b \in BOOLEAN PROVE [c EXCEPT !.valid = b] \in Content
  BY DEF Content
<1>. QED
  BY <1>2, <1>3 DEF mutated, signed

\* protocol_mutate changes the heap only to well formed messages.
LEMMA HeapKept ==
    ASSUME heap \in [Objs -> Content], NEW seed \in Objs \cup {None}, NEW package,
           MutateSeed(seed, package) \/ SendSeed(seed, package)
    PROVE  heap' \in [Objs -> Content]
<1>1. CASE seed = None
  BY <1>1 DEF MutateSeed, SendSeed
<1>2. CASE seed # None
  <2>1. seed \in Objs /\ heap[seed] \in Content
    BY <1>2
  <2>2. PICK c \in mutated(package, heap[seed]) \cup signed(package, heap[seed]) :
          heap' = [heap EXCEPT ![seed] = c]
    BY <1>2 DEF MutateSeed, SendSeed
  <2>3. c \in Content
    BY <2>1, <2>2, ContentKept
  <2>. QED
    BY <2>1, <2>2, <2>3
<1>. QED
  BY <1>1, <1>2

\* random_send_protocol gives one packet type to each of the chosen nodes.
LEMMA PacketsType ==
    ASSUME NEW cur_state \in AllTypes \cup {-1}, NEW nodes \in SUBSET Nodes
    PROVE  ChosenPackets(cur_state, nodes) \subseteq Seq(AllTypes)
<1>1. Cardinality(nodes) \in Nat
  BY FuzzEngineAssumption, FS_Subset, FS_CardinalityType DEF FuzzEngineAssumption
<1>2. random_packet(cur_state) \subseteq AllTypes
  <2>1. \A d \in 1 .. 3 : cur_state # -1 => (cur_state + d) % 4 \in AllTypes
    BY DEF AllTypes
  <2>. QED
    BY <2>1 DEF random_packet, PackageType, AllTypes
<1>. QED
  BY <1>1, <1>2 DEF ChosenPackets

\* The initial state has the types.
LEMMA InitTypes == Init => TypeOK /\ Steps
<1>. SUFFICES ASSUME Init PROVE TypeOK /\ Steps
  OBVIOUS
<1>1. [view |-> 0, empty |-> FALSE, valid |-> TRUE] \in Content
  BY FuzzEngineAssumption DEF FuzzEngineAssumption, Content, Views
<1>2. NoMessage \in FuzzerState
  BY DEF NoMessage, FuzzerState
<1>3. <<>> \in Seq(AllTypes) /\ 0 \in AllTypes
  BY DEF AllTypes
<1>4. /\ Idle \in [pc : {"idle", "loop", "send"}, type : AllTypes, msg : Objs \cup {None},
                   todo : Seq(AllTypes), seed : Objs \cup {None}]
      /\ Idle.pc = "idle"
  BY <1>3 DEF Idle
<1>5. /\ Asleep \in [pc : {"sleep", "loop", "send"}, todo : Seq(AllTypes), seed : Objs \cup {None}]
      /\ Asleep.pc = "sleep"
  BY <1>3 DEF Asleep
<1>. QED
  BY <1>1, <1>2, <1>4, <1>5 DEF Init, TypeOK, Steps

\* One step per action: the heap, the worker, the thread and what the PBFT side holds.
LEMMA TypesKept ==
    ASSUME TypeOK, Steps, IInv, [Next]_vars
    PROVE  TypeOK' /\ Steps'
<1>. DEFINE WorkerType == [pc : {"idle", "loop", "send"}, type : AllTypes,
                           msg : Objs \cup {None}, todo : Seq(AllTypes),
                           seed : Objs \cup {None}]
            ThreadType == [pc : {"sleep", "loop", "send"}, todo : Seq(AllTypes),
                           seed : Objs \cup {None}]
            Types0 == /\ heap' \in [Objs -> Content]
                      /\ worker' \in WorkerType /\ thread' \in ThreadType
                      /\ verifying' \subseteq Objs /\ handled' \subseteq Objs
                      /\ prePrepare' \in [msg : Objs \cup {None}, said : Content]
                      /\ Steps'
<1>0. /\ heap \in [Objs -> Content] /\ worker \in WorkerType /\ thread \in ThreadType
      /\ verifying \subseteq Objs /\ handled \subseteq Objs
      /\ prePrepare \in [msg : Objs \cup {None}, said : Content]
      /\ free \subseteq Objs /\ m_msgQueue \subseteq [type : Types, msg : Objs]
      /\ engine \in FuzzerState /\ copy \in FuzzerState
  BY DEF TypeOK
<1>1. /\ free' \subseteq Objs /\ m_msgQueue' \subseteq [type : Types, msg : Objs]
      /\ engine' \in FuzzerState
  BY FuzzEngineAssumption, EngineKeeps DEF EngineInv
<1>2. copy' \in FuzzerState
  BY <1>0, ThreadKeeps DEF ThreadInv, IInv
<1>3. SUFFICES Types0
  BY <1>1, <1>2 DEF TypeOK
<1>4. /\ worker.todo \in Seq(AllTypes) /\ worker.msg \in Objs \cup {None}
      /\ worker.seed \in Objs \cup {None} /\ thread.todo \in Seq(AllTypes)
      /\ thread.seed \in Objs \cup {None}
  BY <1>0
<1>5. <<>> \in Seq(AllTypes) /\ 0 \in AllTypes
  BY DEF AllTypes
<1>6. \A t \in Seq(AllTypes) : t # <<>> => Tail(t) \in Seq(AllTypes)
  OBVIOUS
<1>7. Idle \in WorkerType /\ Idle.pc = "idle"
  BY <1>5 DEF Idle
<1>8. Asleep \in ThreadType /\ Asleep.pc = "sleep"
  BY <1>5 DEF Asleep
<1>10. ASSUME NEW type \in Types, NEW view \in Views, onReceivePBFTMessage(type, view)
       PROVE  Types0
  <2>1. [view |-> view, empty |-> FALSE, valid |-> TRUE] \in Content
    BY DEF Content
  <2>2. heap' \in [Objs -> Content]
    BY <1>0, <1>10, <2>1 DEF onReceivePBFTMessage
  <2>. QED
    BY <1>0, <1>10, <2>2 DEF onReceivePBFTMessage, Steps
<1>11. ASSUME NEW m \in m_msgQueue, handleMsg(m) PROVE Types0
  <2>1. m.type \in AllTypes /\ m.msg \in Objs
    BY <1>0, FuzzEngineAssumption DEF FuzzEngineAssumption
  <2>2. CASE worker' = worker \/ worker' = Idle
    BY <1>0, <1>7, <1>11, <2>2 DEF handleMsg, Steps
  <2>3. CASE worker' # worker /\ worker' # Idle
    <3>1. PICK nodes \in SUBSET Nodes : \E packets \in ChosenPackets(m.type, nodes) :
            worker' = [pc |-> "loop", type |-> m.type, msg |-> m.msg, todo |-> packets,
                       seed |-> None]
      BY <1>11, <2>3 DEF handleMsg
    <3>2. PICK packets \in ChosenPackets(m.type, nodes) :
            worker' = [pc |-> "loop", type |-> m.type, msg |-> m.msg, todo |-> packets,
                       seed |-> None]
      BY <3>1
    <3>3. packets \in Seq(AllTypes)
      BY <2>1, PacketsType
    <3>4. worker' \in WorkerType /\ worker'.pc = "loop" /\ worker'.msg \in Objs
      BY <2>1, <3>2, <3>3
    <3>. QED
      BY <1>0, <1>11, <3>4 DEF handleMsg, Steps
  <2>. QED
    BY <2>2, <2>3
<1>12. CASE WorkerMutate
  <2>1. Head(worker.todo) \in AllTypes /\ worker.todo # <<>> /\ worker.msg \in Objs
    BY <1>4, <1>12 DEF WorkerMutate, Steps
  <2>2. CASE Head(worker.todo) \in PackageType
    <3>. DEFINE s == PickSeed(engine, Head(worker.todo))
    <3>1. s \in Objs \cup {None}
      BY <1>0, <2>2 DEF FuzzerState, PickSeed
    <3>2. /\ MutateSeed(s, Head(worker.todo))
          /\ worker' = [worker EXCEPT !.pc = "send", !.seed = s]
      BY <1>12, <2>2 DEF WorkerMutate
    <3>. HIDE DEF s
    <3>3. heap' \in [Objs -> Content]
      BY <1>0, <3>1, <3>2, HeapKept
    <3>4. /\ worker' \in WorkerType /\ worker'.todo = worker.todo /\ worker'.msg = worker.msg
      BY <1>0, <3>1, <3>2
    <3>. QED
      BY <1>0, <1>12, <2>1, <3>3, <3>4 DEF WorkerMutate, Steps, shared
  <2>3. CASE Head(worker.todo) \notin PackageType
    <3>1. worker' = [worker EXCEPT !.todo = Tail(worker.todo)] /\ heap' = heap
      BY <1>12, <2>3 DEF WorkerMutate
    <3>2. Tail(worker.todo) \in Seq(AllTypes)
      BY <1>4, <1>6, <2>1
    <3>3. worker' \in WorkerType /\ worker'.pc = worker.pc /\ worker'.msg = worker.msg
      BY <1>0, <3>1, <3>2
    <3>. QED
      BY <1>0, <1>12, <2>1, <3>1, <3>3 DEF WorkerMutate, Steps, shared
  <2>. QED
    BY <2>2, <2>3
<1>13. CASE WorkerSend
  <2>1. worker.todo # <<>> /\ worker.msg \in Objs
    BY <1>13 DEF WorkerSend, Steps
  <2>2. Tail(worker.todo) \in Seq(AllTypes)
    BY <1>4, <1>6, <2>1
  <2>3. heap' \in [Objs -> Content]
    BY <1>0, <1>4, <1>13, HeapKept DEF WorkerSend
  <2>4. worker' \in WorkerType /\ worker'.pc = "loop" /\ worker'.msg = worker.msg
    BY <1>0, <1>13, <2>2 DEF WorkerSend
  <2>. QED
    BY <1>0, <1>13, <2>1, <2>3, <2>4 DEF WorkerSend, Steps, shared
<1>14. CASE PBFTHandler
  <2>1. worker.msg \in Objs
    BY <1>14 DEF PBFTHandler, Steps
  <2>2. handled' \subseteq Objs /\ verifying' \subseteq Objs
    BY <1>0, <1>14, <2>1 DEF PBFTHandler
  <2>. QED
    BY <1>0, <1>7, <1>14, <2>2 DEF PBFTHandler, Steps
<1>15. CASE onVerifyFinished
  <2>1. PICK o \in verifying : /\ verifying' = verifying \ {o}
                               /\ prePrepare' \in {prePrepare, [msg |-> o, said |-> heap[o]]}
    BY <1>15 DEF onVerifyFinished
  <2>2. prePrepare' \in [msg : Objs \cup {None}, said : Content]
    BY <1>0, <2>1
  <2>. QED
    BY <1>0, <1>15, <2>1, <2>2 DEF onVerifyFinished, Steps
<1>16. ASSUME NEW view \in 0 .. MaxView, onRecvProposal(view) PROVE Types0
  <2>. DEFINE c == [view |-> view, empty |-> FALSE, valid |-> TRUE]
  <2>1. view \in Views
    BY FuzzEngineAssumption DEF FuzzEngineAssumption, MaxView, Views
  <2>2. c \in Content
    BY <2>1 DEF Content
  <2>3. PICK o \in free :
          /\ prePrepare' = [msg |-> o, said |-> c]
          /\ \E d \in mutated(0, c) : \E e \in signed(0, d) : heap' = [heap EXCEPT ![o] = e]
    BY <1>16 DEF onRecvProposal
  <2>. HIDE DEF c
  <2>4. \E e \in Content : heap' = [heap EXCEPT ![o] = e]
    BY <2>2, <2>3, ContentKept
  <2>5. /\ prePrepare' \in [msg : Objs \cup {None}, said : Content]
        /\ heap' \in [Objs -> Content]
    BY <1>0, <2>2, <2>3, <2>4
  <2>. QED
    BY <1>0, <1>16, <2>5 DEF onRecvProposal, Steps
<1>17. CASE ThreadWake
  <2>1. ThreadFuzzer.cur_state \in AllTypes \cup {-1}
    BY <1>0 DEF ThreadFuzzer, FuzzerState
  <2>2. PICK nodes \in SUBSET Nodes : \E packets \in ChosenPackets(ThreadFuzzer.cur_state, nodes) :
          thread' = [pc |-> "loop", todo |-> packets, seed |-> None]
    BY <1>17 DEF ThreadWake
  <2>3. \E packets \in Seq(AllTypes) : thread' = [pc |-> "loop", todo |-> packets, seed |-> None]
    BY <2>1, <2>2, PacketsType
  <2>4. thread' \in ThreadType /\ thread'.pc = "loop"
    BY <2>3
  <2>. QED
    BY <1>0, <1>17, <2>4 DEF ThreadWake, Steps, shared
<1>18. CASE ThreadMutate
  <2>1. Head(thread.todo) \in AllTypes /\ thread.todo # <<>>
    BY <1>4, <1>18 DEF ThreadMutate
  <2>2. CASE Head(thread.todo) \in PackageType
    <3>. DEFINE s == PickSeed(ThreadFuzzer, Head(thread.todo))
    <3>1. s \in Objs \cup {None}
      BY <1>0, <2>2 DEF FuzzerState, PickSeed, ThreadFuzzer
    <3>2. /\ MutateSeed(s, Head(thread.todo))
          /\ thread' = [thread EXCEPT !.pc = "send", !.seed = s]
      BY <1>18, <2>2 DEF ThreadMutate
    <3>. HIDE DEF s
    <3>3. heap' \in [Objs -> Content]
      BY <1>0, <3>1, <3>2, HeapKept
    <3>4. thread' \in ThreadType /\ thread'.todo = thread.todo
      BY <1>0, <3>1, <3>2
    <3>. QED
      BY <1>0, <1>18, <2>1, <3>3, <3>4 DEF ThreadMutate, Steps, shared
  <2>3. CASE Head(thread.todo) \notin PackageType
    <3>1. thread' = [thread EXCEPT !.todo = Tail(thread.todo)] /\ heap' = heap
      BY <1>18, <2>3 DEF ThreadMutate
    <3>2. Tail(thread.todo) \in Seq(AllTypes)
      BY <1>4, <1>6, <2>1
    <3>3. thread' \in ThreadType /\ thread'.pc = "loop"
      BY <1>0, <1>18, <3>1, <3>2 DEF ThreadMutate
    <3>. QED
      BY <1>0, <1>18, <3>1, <3>3 DEF ThreadMutate, Steps, shared
  <2>. QED
    BY <2>2, <2>3
<1>19. CASE ThreadSend
  <2>1. Tail(thread.todo) \in Seq(AllTypes)
    BY <1>4, <1>6, <1>19 DEF ThreadSend, Steps
  <2>2. heap' \in [Objs -> Content]
    BY <1>0, <1>4, <1>19, HeapKept DEF ThreadSend
  <2>3. thread' \in ThreadType /\ thread'.pc = "loop"
    BY <1>0, <1>19, <2>1 DEF ThreadSend
  <2>. QED
    BY <1>0, <1>19, <2>2, <2>3 DEF ThreadSend, Steps, shared
<1>20. CASE ThreadSleep
  BY <1>0, <1>8, <1>20 DEF ThreadSleep, Steps, shared
<1>21. CASE UNCHANGED vars
  BY <1>0, <1>21 DEF vars, Steps
<1>. HIDE DEF Types0
<1>. QED
  BY <1>10, <1>11, <1>12, <1>13, <1>14, <1>15, <1>16, <1>17, <1>18, <1>19, <1>20, <1>21
     DEF Next, WorkerStep, ThreadStep

\* Every view stays an unsigned integer under the fuzzer's arithmetic, every message
\* referred to is an object that was created, and no thread sends a packet that is
\* no longer on its list.
THEOREM TypesHold == Spec => []TypeOK
<1>1. Spec => [](TypeOK /\ Steps)
  BY InitTypes, TypesKept, Inductive, PTL DEF Spec
<1>. QED
  BY <1>1, PTL
=============================================================================
