--------------------------- MODULE CrusaderFuzzer ---------------------------
(***************************************************************************)
(* LOKI inside a Diem validator: the consensus task (EpochManager) and the *)
(* fuzzer thread it spawns share LAST_MSG, a `static mut' Vec with no lock,*)
(* and the SafetyRules object of the node (crusader_fuzzer.rs,             *)
(* epoch_manager.rs, network.rs, metrics_safety_rules.rs).                 *)
(*                                                                         *)
(* A Vec operation is split where the other thread can get in between: an  *)
(* operation loads the length, and stores it with the moved elements in a  *)
(* later step.  A slot whose message has been dropped holds Freed.  Using  *)
(* such a slot, or one that changed under a reference, is undefined; the   *)
(* outcomes kept are that the process dies, or that some message is read.  *)
(* A panic of either thread ends the process (crash-handler/src/lib.rs).   *)
(***************************************************************************)
EXTENDS Integers

CONSTANTS
    MaxEpoch,   \* bound on the epochs that are explored
    PoolLimit,  \* the 10 of `LAST_MSG.len() > 10'
    FirstCap,   \* capacity of the first allocation of the Vec
    Kinds,      \* variants of ConsensusMsg; "proposal" is signed again
    Freed

Epochs == 1 .. MaxEpoch
Slots == 1 .. PoolLimit + 1
Msg == [kind : Kinds, epoch : Epochs]

ASSUME CrusaderAssumption ==
    /\ MaxEpoch \in Nat \ {0}
    /\ PoolLimit \in Nat \ {0}
    /\ FirstCap \in Nat \ {0}
    /\ Freed \notin Msg

VARIABLES
    alive,     \* the process runs
    epoch,     \* epoch of the EpochManager's processor, 0 before the first
    db_epoch,  \* epoch of the ledger in storage
    sr_epoch,  \* epoch of the SafetyRules object all clients share
    len,       \* length of LAST_MSG
    mem,       \* its slots
    cap,       \* its capacity
    em,        \* the EpochManager inside process_epoch: [pc, msg, len]
    fz         \* the fuzzer thread: [pc, slot, msg, len, moved]

pool == <<len, mem, cap>>
epochs == <<epoch, db_epoch, sr_epoch>>
vars == <<alive, epoch, db_epoch, sr_epoch, len, mem, cap, em, fz>>

EmPCs == {"idle", "load_remove", "store_remove", "load_push", "store_push"}
FzPCs == {"none", "wake", "choose", "clone", "sign", "reinit", "resign", "send",
          "trim", "clear", "drop"}

TypeOK ==
    /\ alive \in BOOLEAN
    /\ epoch \in {0} \cup Epochs
    /\ db_epoch \in Epochs
    /\ sr_epoch \in {0} \cup Epochs
    /\ len \in Nat
    /\ mem \in [Slots -> Msg \cup {Freed}]
    /\ cap \in Nat
    /\ em \in [pc : EmPCs, msg : Msg \cup {Freed}, len : Nat]
    /\ fz \in [pc : FzPCs, slot : {0} \cup Slots, msg : Msg \cup {Freed},
               len : Nat, moved : BOOLEAN]

\* panic!: the panic hook flushes the log and calls process::exit(12).
Panic == alive' = FALSE

\* Undefined behaviour that may pass unnoticed.
MayDie == alive' \in BOOLEAN

-----------------------------------------------------------------------------
(***************************************************************************)
(* The EpochManager task                                                   *)
(***************************************************************************)

\* Faulty variant of process_epoch: the length is not looked at.
process_epoch_unbounded(m) ==
    /\ epoch # 0 /\ em.pc = "idle"
    /\ em' = [pc |-> "load_push", msg |-> m, len |-> 0]
    /\ UNCHANGED <<alive, epochs, pool, fz>>

\* process_epoch looks at the length and decides between remove-and-push and push.
process_epoch(m) ==
    /\ epoch # 0 /\ em.pc = "idle"
    /\ em' = [pc |-> IF len > PoolLimit THEN "load_remove" ELSE "load_push",
              msg |-> m, len |-> 0]
    /\ UNCHANGED <<alive, epochs, pool, fz>>

\* Vec::remove(0) panics on an empty Vec.
LoadRemove ==
    /\ em.pc = "load_remove"
    /\ em' = [em EXCEPT !.pc = "store_remove", !.len = len]
    /\ IF len = 0 THEN Panic ELSE UNCHANGED alive
    /\ UNCHANGED <<epochs, pool, fz>>

\* Faulty variant of StoreRemove: the EpochManager clears, as the fuzzer does.
StoreRemove_all ==
    /\ em.pc = "store_remove"
    /\ mem' = [i \in Slots |-> Freed]
    /\ len' = 0
    /\ em' = [em EXCEPT !.pc = "load_push", !.len = 0]
    /\ UNCHANGED <<alive, epochs, cap, fz>>

\* The first message is dropped and the others move down; the slot behind the
\* new end keeps its old bytes.
StoreRemove ==
    /\ em.pc = "store_remove"
    /\ mem' = [i \in Slots |-> IF i < em.len THEN mem[i + 1] ELSE mem[i]]
    /\ len' = em.len - 1
    /\ IF mem[1] = Freed THEN MayDie ELSE UNCHANGED alive
    /\ em' = [em EXCEPT !.pc = "load_push", !.len = 0]
    /\ UNCHANGED <<epochs, cap, fz>>

LoadPush ==
    /\ em.pc = "load_push"
    /\ em' = [em EXCEPT !.pc = "store_push", !.len = len]
    /\ UNCHANGED <<alive, epochs, pool, fz>>

\* Vec::push allocates anew when the Vec is full, which moves every slot.
StorePush ==
    /\ em.pc = "store_push"
    /\ mem' = [mem EXCEPT ![em.len + 1] = em.msg]
    /\ len' = em.len + 1
    /\ IF em.len = cap
         THEN /\ cap' = IF cap = 0 THEN FirstCap ELSE 2 * cap
              /\ fz' = [fz EXCEPT !.moved = TRUE]
         ELSE UNCHANGED <<cap, fz>>
    /\ em' = [pc |-> "idle", msg |-> Freed, len |-> 0]
    /\ UNCHANGED <<alive, epochs>>

\* Storage reaches the end of an epoch, by execution or by state sync.
Reconfigure ==
    /\ db_epoch < MaxEpoch
    /\ db_epoch' = db_epoch + 1
    /\ UNCHANGED <<alive, epoch, sr_epoch, pool, em, fz>>

\* perform_initialize: the shared SafetyRules object moves to the epoch of the
\* ledger, or stays where it is when a storage access fails.
perform_initialize == sr_epoch' \in {sr_epoch, db_epoch}

\* start_round_manager: the previous processor is dropped; INIT.call_once spawns
\* the fuzzer with clones of the first epoch's SafetyRules client and sender.
start_round_manager ==
    /\ em.pc = "idle"
    /\ epoch < db_epoch
    /\ epoch' = db_epoch
    /\ perform_initialize
    /\ fz' = IF fz.pc = "none" THEN [fz EXCEPT !.pc = "wake"] ELSE fz
    /\ UNCHANGED <<alive, db_epoch, pool, em>>

-----------------------------------------------------------------------------
(***************************************************************************)
(* The fuzzer thread                                                       *)
(***************************************************************************)

Asleep == [pc |-> "wake", slot |-> 0, msg |-> Freed, len |-> 0, moved |-> FALSE]

\* Top of the loop: an empty pool sends the thread back to sleep.
Wake ==
    /\ fz.pc = "wake"
    /\ len > 0
    /\ fz' = [Asleep EXCEPT !.pc = "choose"]
    /\ UNCHANGED <<alive, epochs, pool, em>>

\* LAST_MSG.choose(..).unwrap() takes a reference to a slot and matches on the
\* variant found there; choose gives None, and unwrap panics, when len is 0.
Choose ==
    /\ fz.pc = "choose"
    /\ IF len = 0
         THEN Panic /\ UNCHANGED fz
         ELSE \E i \in 1 .. len :
                 /\ fz' = [fz EXCEPT !.pc = "clone", !.slot = i, !.msg = mem[i], !.moved = FALSE]
                 /\ IF mem[i] = Freed THEN MayDie ELSE UNCHANGED alive
    /\ UNCHANGED <<epochs, pool, em>>

\* Faulty variant of Clone: only proposals are handled, all else is skipped.
Clone_proposals_only ==
    /\ fz.pc = "clone"
    /\ fz' = IF fz.msg # Freed /\ fz.msg.kind = "proposal" THEN [fz EXCEPT !.pc = "sign"] ELSE Asleep
    /\ UNCHANGED <<alive, epochs, pool, em>>

\* The message is cloned through the reference, after the variant was matched.
Clone ==
    /\ fz.pc = "clone"
    /\ IF mem[fz.slot] = fz.msg /\ fz.msg # Freed /\ ~fz.moved
         THEN UNCHANGED alive /\ fz' = [fz EXCEPT !.pc = IF fz.msg.kind = "proposal" THEN "sign" ELSE "send"]
         ELSE /\ MayDie
              /\ \E m \in Msg : fz' = [fz EXCEPT !.pc = IF m.kind = "proposal" THEN "sign" ELSE "send",
                                                !.msg = m]
    /\ UNCHANGED <<epochs, pool, em>>

\* mutate_proposal: sign_proposal through MetricsSafetyRules::retry.  The epoch
\* of the new block is the one of the certificate it copies; on IncorrectEpoch
\* or NotInitialized the client initializes once and tries again, and the
\* unwrap of the second error panics.
Sign ==
    /\ fz.pc = "sign"
    /\ fz' = [fz EXCEPT !.pc = IF fz.msg.epoch = sr_epoch THEN "send" ELSE "reinit"]
    /\ UNCHANGED <<alive, epochs, pool, em>>

Reinit ==
    /\ fz.pc = "reinit"
    /\ perform_initialize
    /\ fz' = [fz EXCEPT !.pc = "resign"]
    /\ UNCHANGED <<alive, epoch, db_epoch, pool, em>>

Resign ==
    /\ fz.pc = "resign"
    /\ IF fz.msg.epoch = sr_epoch
         THEN UNCHANGED alive /\ fz' = [fz EXCEPT !.pc = "send"]
         ELSE Panic /\ UNCHANGED fz
    /\ UNCHANGED <<epochs, pool, em>>

\* send_to_others, to two of the validators drawn; the network takes the message.
Send ==
    /\ fz.pc = "send"
    /\ fz' = [fz EXCEPT !.pc = "trim", !.slot = 0, !.msg = Freed]
    /\ UNCHANGED <<alive, epochs, pool, em>>

\* `if LAST_MSG.len() > 10 { LAST_MSG.clear() }', then sleep.
Trim ==
    /\ fz.pc = "trim"
    /\ fz' = IF len > PoolLimit THEN [fz EXCEPT !.pc = "clear"] ELSE Asleep
    /\ UNCHANGED <<alive, epochs, pool, em>>

\* Vec::clear sets the length first and drops the elements afterwards.
Clear ==
    /\ fz.pc = "clear"
    /\ len' = 0
    /\ fz' = [fz EXCEPT !.pc = "drop", !.len = len, !.moved = FALSE]
    /\ UNCHANGED <<alive, epochs, mem, cap, em>>

Drop ==
    /\ fz.pc = "drop"
    /\ mem' = [i \in Slots |-> IF i <= fz.len THEN Freed ELSE mem[i]]
    /\ IF fz.moved \/ \E i \in 1 .. fz.len : mem[i] = Freed THEN MayDie ELSE UNCHANGED alive
    /\ fz' = Asleep
    /\ UNCHANGED <<epochs, len, cap, em>>

-----------------------------------------------------------------------------
Init ==
    /\ alive = TRUE
    /\ epoch = 0 /\ db_epoch = 1 /\ sr_epoch = 0
    /\ len = 0 /\ mem = [i \in Slots |-> Freed] /\ cap = 0
    /\ em = [pc |-> "idle", msg |-> Freed, len |-> 0]
    /\ fz = [Asleep EXCEPT !.pc = "none"]

EpochManagerStep == LoadRemove \/ StoreRemove \/ LoadPush \/ StorePush
FuzzerStep == Wake \/ Choose \/ Clone \/ Sign \/ Reinit \/ Resign \/ Send \/ Trim \/ Clear \/ Drop

Next ==
    /\ alive
    /\ \/ \E m \in Msg : process_epoch(m)
       \/ EpochManagerStep
       \/ Reconfigure
       \/ start_round_manager
       \/ FuzzerStep

\* The fuzzer is a thread of its own and is scheduled again after each sleep.
Spec == Init /\ [][Next]_vars /\ WF_vars(alive /\ FuzzerStep)

-----------------------------------------------------------------------------
(***************************************************************************)
(* Properties                                                              *)
(***************************************************************************)

\* LAST_MSG never outgrows its limit by more than one message, although the
\* check, the remove, the push and the fuzzer's clear interleave freely and a
\* length that was read may be outdated when it is stored back.
PoolBounded == len <= PoolLimit + 1

\* The unwrap of LAST_MSG.choose cannot fail: between the fuzzer's is_empty check
\* and its choose the other thread may remove messages, never the last one.
ChooseFindsMessage == fz.pc = "choose" => len > 0

\* A node whose pool is not empty sends another fuzzed message, unless it dies
\* (each turn of the loop in start_fuzzer ends in a send).
FuzzerKeepsSending == (alive /\ fz.pc = "wake" /\ len > 0) ~> (~alive \/ fz.pc = "trim")
=============================================================================
