------------------------ MODULE CrusaderFuzzerProofs ------------------------
(***************************************************************************)
(* The message pool of LOKI for Diem, for every limit (the code has 10),   *)
(* every number of epochs and every interleaving of the two threads.       *)
(***************************************************************************)
EXTENDS CrusaderFuzzer, TLAPS

\* Only the EpochManager makes the Vec longer, and the fuzzer only empties it.
\* So a length the EpochManager has read is outdated only because the Vec is
\* empty by now, and what it stores is at least 1 and at most the limit plus 1.
LengthInv ==
    /\ len <= PoolLimit + 1
    /\ em.pc = "load_remove" => len \in {0, PoolLimit + 1}
    /\ em.pc = "store_remove" /\ alive => em.len = PoolLimit + 1
    /\ em.pc = "load_push" => len <= PoolLimit
    /\ em.pc = "store_push" => em.len <= PoolLimit
    /\ fz.pc = "choose" => len > 0

\* The inductive invariant.
IInv == TypeOK /\ LengthInv

-----------------------------------------------------------------------------
LEMMA InitStep == Init => IInv
  <1> USE CrusaderAssumption
  <1>1. ASSUME Init PROVE fz = [pc |-> "none", slot |-> 0, msg |-> Freed, len |-> 0, moved |-> FALSE]
    BY <1>1 DEF Init, Asleep
  <1>2. ASSUME Init PROVE TypeOK
    <2>1. fz \in [pc : FzPCs, slot : {0} \cup Slots, msg : Msg \cup {Freed},
                  len : Nat, moved : BOOLEAN]
      <3>1. fz = [pc |-> "none", slot |-> 0, msg |-> Freed, len |-> 0, moved |-> FALSE]
        BY <1>1, <1>2
      <3>2. QED
        BY <3>1 DEF FzPCs
    <2>2. em \in [pc : EmPCs, msg : Msg \cup {Freed}, len : Nat]
      BY <1>2 DEF Init, EmPCs
    <2>3. mem \in [Slots -> Msg \cup {Freed}] /\ alive \in BOOLEAN
      BY <1>2 DEF Init
    <2>4. QED
      BY <1>2, <2>1, <2>2, <2>3 DEF Init, TypeOK, Epochs
  <1>3. ASSUME Init PROVE LengthInv
    BY <1>1, <1>3 DEF Init, LengthInv
  <1>4. QED
    BY <1>2, <1>3 DEF IInv

\* The steps of the EpochManager.
LEMMA EpochManagerKeeps ==
    ASSUME IInv, alive, \/ \E m \in Msg : process_epoch(m)
                        \/ EpochManagerStep \/ Reconfigure \/ start_round_manager
    PROVE  IInv'
  <1> USE CrusaderAssumption DEF IInv, LengthInv, TypeOK
  <1>1. ASSUME NEW m \in Msg, process_epoch(m) PROVE IInv'
    BY <1>1 DEF process_epoch, epochs, pool, EmPCs
  <1>2. CASE LoadRemove
    BY <1>2 DEF LoadRemove, Panic, epochs, pool, EmPCs
  <1>3. CASE StoreRemove
    <2>1. em.len = PoolLimit + 1 /\ len' = PoolLimit
      BY <1>3 DEF StoreRemove
    <2>2. mem' \in [Slots -> Msg \cup {Freed}]
      BY <1>3, <2>1 DEF StoreRemove, Slots
    <2>3. alive' \in BOOLEAN /\ em'.pc = "load_push" /\ fz' = fz
      BY <1>3 DEF StoreRemove, MayDie
    <2>4. TypeOK'
      BY <1>3, <2>1, <2>2, <2>3 DEF StoreRemove, epochs, EmPCs
    <2>5. LengthInv'
      BY <2>1, <2>3
    <2>6. QED
      BY <2>4, <2>5
  <1>4. CASE LoadPush
    BY <1>4 DEF LoadPush, epochs, pool, EmPCs
  <1>5. CASE StorePush
    <2>1. em.len \in Nat /\ em.len <= PoolLimit /\ len' = em.len + 1 /\ em'.pc = "idle"
      BY <1>5 DEF StorePush
    <2>2. em.msg \in Msg \cup {Freed} /\ mem' \in [Slots -> Msg \cup {Freed}]
      BY <1>5, <2>1 DEF StorePush, Slots
    <2>3. cap' \in Nat
      BY <1>5 DEF StorePush
    <2>4. fz' \in [pc : FzPCs, slot : {0} \cup Slots, msg : Msg \cup {Freed},
                   len : Nat, moved : BOOLEAN]
      <3>1. fz' = [fz EXCEPT !.moved = TRUE] \/ fz' = fz
        BY <1>5 DEF StorePush
      <3>2. QED
        BY <3>1
    <2>5. TypeOK'
      BY <1>5, <2>1, <2>2, <2>3, <2>4 DEF StorePush, epochs, EmPCs
    <2>6. LengthInv'
      BY <2>1
    <2>7. QED
      BY <2>5, <2>6
  <1>6. CASE Reconfigure
    BY <1>6 DEF Reconfigure, pool, Epochs
  <1>7. CASE start_round_manager
    BY <1>7 DEF start_round_manager, perform_initialize, pool, Epochs, FzPCs
  <1>8. QED
    BY <1>1, <1>2, <1>3, <1>4, <1>5, <1>6, <1>7 DEF EpochManagerStep

\* The steps of the fuzzer.
LEMMA FuzzerKeeps ==
    ASSUME IInv, alive, FuzzerStep
    PROVE  IInv'
  <1> USE CrusaderAssumption DEF IInv, LengthInv, TypeOK
  <1>1. CASE Wake
    BY <1>1 DEF Wake, Asleep, epochs, pool, FzPCs
  <1>2. CASE Choose
    <2>1. len > 0 /\ UNCHANGED <<epochs, pool, em>>
      BY <1>2 DEF Choose
    <2>2. PICK i \in 1 .. len :
              /\ fz' = [fz EXCEPT !.pc = "clone", !.slot = i, !.msg = mem[i], !.moved = FALSE]
              /\ IF mem[i] = Freed THEN MayDie ELSE UNCHANGED alive
      <3>1. len # 0
        BY <2>1
      <3>2. QED
        BY <1>2, <3>1, Zenon DEF Choose
    <2>3. i \in Slots /\ mem[i] \in Msg \cup {Freed}
      BY <2>2 DEF Slots
    <2>4. alive' \in BOOLEAN /\ fz'.pc = "clone"
      BY <2>2 DEF MayDie
    <2>5. fz' \in [pc : FzPCs, slot : {0} \cup Slots, msg : Msg \cup {Freed},
                   len : Nat, moved : BOOLEAN]
      BY <2>2, <2>3 DEF FzPCs
    <2>6. QED
      BY <2>1, <2>4, <2>5 DEF epochs, pool
  <1>3. CASE Clone
    <2>1. alive' \in BOOLEAN /\ UNCHANGED <<epochs, pool, em>>
      BY <1>3 DEF Clone, MayDie
    <2>2. /\ fz' \in [pc : FzPCs, slot : {0} \cup Slots, msg : Msg \cup {Freed},
                      len : Nat, moved : BOOLEAN]
          /\ fz'.pc \in {"sign", "send"}
      <3>1. CASE mem[fz.slot] = fz.msg /\ fz.msg # Freed /\ ~fz.moved
        <4>1. \/ fz' = [fz EXCEPT !.pc = "sign"]
              \/ fz' = [fz EXCEPT !.pc = "send"]
          BY <1>3, <3>1 DEF Clone
        <4>2. QED
          BY <4>1 DEF FzPCs
      <3>2. CASE ~(mem[fz.slot] = fz.msg /\ fz.msg # Freed /\ ~fz.moved)
        <4>1. PICK m \in Msg : fz' = [fz EXCEPT !.pc = IF m.kind = "proposal" THEN "sign" ELSE "send",
                                                !.msg = m]
          BY <1>3, <3>2, Zenon DEF Clone
        <4>2. QED
          BY <4>1 DEF FzPCs
      <3>3. QED
        BY <3>1, <3>2
    <2>3. QED
      BY <2>1, <2>2 DEF epochs, pool
  <1>4. CASE Sign
    BY <1>4 DEF Sign, epochs, pool, FzPCs
  <1>5. CASE Reinit
    BY <1>5 DEF Reinit, perform_initialize, pool, FzPCs
  <1>6. CASE Resign
    <2>1. alive' \in BOOLEAN /\ UNCHANGED <<epochs, pool, em>>
      BY <1>6 DEF Resign, Panic
    <2>2. fz' = fz \/ fz' = [fz EXCEPT !.pc = "send"]
      BY <1>6 DEF Resign
    <2>3. QED
      BY <2>1, <2>2 DEF epochs, pool, FzPCs
  <1>7. CASE Send
    BY <1>7 DEF Send, epochs, pool, FzPCs
  <1>8. CASE Trim
    BY <1>8 DEF Trim, Asleep, epochs, pool, FzPCs
  <1>9. CASE Clear
    <2>1. fz' \in [pc : FzPCs, slot : {0} \cup Slots, msg : Msg \cup {Freed},
                   len : Nat, moved : BOOLEAN]
      BY <1>9 DEF Clear, FzPCs
    <2>2. len' = 0 /\ fz'.pc = "drop" /\ UNCHANGED <<alive, epochs, mem, cap, em>>
      BY <1>9 DEF Clear
    <2>3. QED
      BY <2>1, <2>2 DEF epochs
  <1>10. CASE Drop
    BY <1>10 DEF Drop, MayDie, Asleep, epochs, FzPCs
  <1>11. QED
    BY <1>1, <1>2, <1>3, <1>4, <1>5, <1>6, <1>7, <1>8, <1>9, <1>10 DEF FuzzerStep

\* The invariant holds throughout.
THEOREM Inductive == Spec => []IInv
  <1>1. IInv /\ [Next]_vars => IInv'
    <2>1. CASE UNCHANGED vars
      BY <2>1 DEF vars, IInv, TypeOK, LengthInv
    <2>2. QED
      BY <2>1, EpochManagerKeeps, FuzzerKeeps DEF Next
  <1>2. QED
    BY <1>1, InitStep, PTL DEF Spec

\* LAST_MSG holds at most PoolLimit + 1 messages (11 in process_epoch), for every
\* interleaving of its unsynchronised users.
THEOREM PoolStaysBounded == Spec => []PoolBounded
  <1>1. IInv => PoolBounded
    BY DEF IInv, LengthInv, PoolBounded
  <1>2. QED
    BY <1>1, Inductive, PTL

\* start_fuzzer never unwraps the None of choosing from an empty pool.
THEOREM ChooseNeverFails == Spec => []ChooseFindsMessage
  <1>1. IInv => ChooseFindsMessage
    BY DEF IInv, LengthInv, ChooseFindsMessage
  <1>2. QED
    BY <1>1, Inductive, PTL

=============================================================================
