------------------------ MODULE CanopenLifecycle_proofs ------------------------
(***************************************************************************)
(* Proofs about the stack life cycle of part_000 (CanopenLifecycle), for   *)
(* every set of LSS node IDs, every bound on power cycles and either       *)
(* scheduling of the rx/timer thread.                                      *)
(***************************************************************************)
EXTENDS CanopenLifecycle, FiniteSetTheorems, TLAPS

(* A set of boot numbers up to b holds at most b of them, and at most b-1  *)
(* when b itself is missing.                                               *)
LEMMA BootCount ==
  ASSUME NEW b \in Nat \ {0}, NEW S \in SUBSET (1..b)
  PROVE  /\ IsFiniteSet(S)
         /\ Cardinality(S) <= b
         /\ b \notin S => Cardinality(S) <= b - 1
<1>1. IsFiniteSet(1..b) /\ Cardinality(1..b) = b
  BY FS_Interval
<1>2. IsFiniteSet(S) /\ Cardinality(S) <= b
  BY <1>1, FS_Subset
<1>3. ASSUME b \notin S PROVE Cardinality(S) <= b - 1
  <2>1. S \in SUBSET (1..(b - 1))
    BY <1>3
  <2>2. IsFiniteSet(1..(b - 1)) /\ Cardinality(1..(b - 1)) = IF 1 > b - 1 THEN 0 ELSE b - 1
    BY FS_Interval
  <2>3. Cardinality(S) <= Cardinality(1..(b - 1))
    BY <2>1, <2>2, FS_Subset
  <2> QED BY <2>2, <2>3, <1>2, FS_CardinalityType
<1> QED BY <1>2, <1>3

(* The invariant behind the life-cycle properties:                         *)
(*  - the node ID handed from lss_check to the LSS loop is never 0, and    *)
(*    the loop passes only a valid one to co_start;                        *)
(*  - OD_CANNodeID is what the storage holds whenever the stack is set up; *)
(*  - once records whether this power cycle started the stack, the saved   *)
(*    counter is the number of such power cycles, and after init's RUNTIME *)
(*    load RAM holds the saved counter.                                    *)
LifecycleInv ==
  /\ TypeOK
  /\ mpc = "lss" => pendingNid # 0
  /\ mpc = "start" => NidValid(pendingNid)
  /\ mpc = "running" => NidValid(activeNid) /\ once
  /\ mpc \in {"lss", "start", "running"} => odNid = nvmNid
  /\ started \subseteq 1..boots
  /\ once <=> boots \in started
  /\ nvmCounter = Cardinality(started)
  /\ mpc # "init" => powerOnCounter = nvmCounter

(* At power-on the invariant holds: nothing started, nothing stored.      *)
LEMMA InvInit == Init => LifecycleInv
<1> SUFFICES ASSUME Init PROVE LifecycleInv
  OBVIOUS
<1>1. TypeOK
  <2>1. mpc \in MainPcs /\ tpc \in {"none", "run", "suspending", "suspended"}
    BY DEF Init, MainPcs
  <2>2. timer_rx_suspend \in BOOLEAN /\ reboot \in BOOLEAN /\ once \in BOOLEAN
    BY Zenon DEF Init
  <2>3. /\ activeNid \in Nids /\ pendingNid \in Nids
        /\ odNid \in Nids /\ nvmNid \in Nids
    BY DEF Init, Nids
  <2>4. /\ powerOnCounter \in 0..MaxBoots /\ nvmCounter \in 0..MaxBoots
        /\ boots \in 1..MaxBoots /\ started \subseteq 1..MaxBoots
    BY LifecycleAssumption DEF Init
  <2> QED BY <2>1, <2>2, <2>3, <2>4 DEF TypeOK
<1>2. nvmCounter = Cardinality(started)
  BY FS_EmptySet DEF Init
<1> QED BY <1>1, <1>2 DEF Init, LifecycleInv

(* Every step of the main task, the thread and the environment keeps      *)
(* LifecycleInv.                                                           *)
LEMMA InvStep == LifecycleInv /\ [Next]_vars => LifecycleInv'
<1> SUFFICES ASSUME LifecycleInv, [Next]_vars PROVE LifecycleInv'
  OBVIOUS
<1> USE LifecycleAssumption DEF LifecycleInv, TypeOK, MainPcs, Nids, NidValid,
                                NODE_ID_ASSIGNMENT
<1>0. IsFiniteSet(started) /\ Cardinality(started) <= boots
      /\ (boots \notin started => Cardinality(started) <= boots - 1)
  BY BootCount
<1>1. CASE InitStart
  <2>1. LssCheck(pendingNid, nvmNid).pending \in Nids \ {0}
        /\ LssCheck(pendingNid, nvmNid).active \in Nids
    BY DEF LssCheck
  <2> QED BY <1>1, <2>1 DEF InitStart
<1>2. CASE LssNidAssignment
  BY <1>2 DEF LssNidAssignment
<1>3. CASE CoStart
  <2>1. CASE ~once
    <3>1. /\ started' = started \cup {boots}
          /\ Cardinality(started \cup {boots}) = Cardinality(started) + 1
      BY <1>3, <2>1, <1>0, FS_AddElement DEF CoStart
    <3>2. Cardinality(started) <= boots - 1
      BY <2>1, <1>0
    <3> QED BY <1>3, <2>1, <3>1, <3>2 DEF CoStart
  <2>2. CASE once
    <3>1. started \cup {boots} = started
      BY <2>2
    <3> QED BY <1>3, <2>2, <3>1 DEF CoStart
  <2> QED BY <2>1, <2>2
<1>4. ASSUME NEW n \in LssNids, LssAssign(n) PROVE LifecycleInv'
  BY <1>4 DEF LssAssign
<1>5. ASSUME NEW n \in LssNids, StoreLssConfig(n) PROVE LifecycleInv'
  BY <1>5 DEF StoreLssConfig
<1>6. ASSUME NEW n \in LssNids, CmdNodeId(n) PROVE LifecycleInv'
  BY <1>6 DEF CmdNodeId
<1>7. ASSUME NEW r \in {"COMM", "APP", "QUIT"}, Process(r) PROVE LifecycleInv'
  <2>1. pendingNid' \in Nids /\ mpc = "running"
    BY <1>7 DEF Process
  <2>2. CASE r = "COMM"
    BY <1>7, <2>1, <2>2 DEF Process
  <2>3. CASE r = "QUIT"
    BY <1>7, <2>1, <2>3 DEF Process
  <2>4. CASE r = "APP"
    BY <1>7, <2>1, <2>4 DEF Process
  <2> QED BY <2>2, <2>3, <2>4
<1>8. CASE ProgramControlReboot
  BY <1>8 DEF ProgramControlReboot
<1>9. CASE Deinit
  BY <1>9 DEF Deinit
<1>10. CASE TimerRxCheck
  <2>1. tpc' = "suspending" /\ timer_rx_suspend' = FALSE
    BY <1>10, Zenon DEF TimerRxCheck
  <2>2. UNCHANGED <<mpc, reboot, activeNid, pendingNid, odNid, nvmNid, once,
                    powerOnCounter, nvmCounter, boots, started>>
    BY <1>10, Zenon DEF TimerRxCheck
  <2>3. TypeOK'
    <3>1. timer_rx_suspend' \in BOOLEAN /\ reboot' \in BOOLEAN /\ once' \in BOOLEAN
      BY <2>1, <2>2, Zenon
    <3>2. /\ mpc' \in MainPcs /\ tpc' \in {"none", "run", "suspending", "suspended"}
          /\ activeNid' \in Nids /\ pendingNid' \in Nids
          /\ odNid' \in Nids /\ nvmNid' \in Nids
          /\ powerOnCounter' \in 0..MaxBoots /\ nvmCounter' \in 0..MaxBoots
          /\ boots' \in 1..MaxBoots /\ started' \subseteq 1..MaxBoots
      BY <2>1, <2>2
    <3> QED BY <3>1, <3>2 DEF TypeOK
  <2> QED BY <2>2, <2>3, Zenon
<1>11. CASE TimerRxSuspend
  BY <1>11 DEF TimerRxSuspend
<1>12. CASE Reboot
  <2>1. boots + 1 \notin started /\ started \subseteq 1..(boots + 1)
    OBVIOUS
  <2>2. /\ mpc' = "init" /\ tpc' = "none" /\ once' = FALSE
        /\ timer_rx_suspend' = FALSE /\ reboot' = FALSE
        /\ activeNid' = 0 /\ pendingNid' = 0 /\ odNid' = 0 /\ powerOnCounter' = 0
        /\ boots' = boots + 1 /\ boots < MaxBoots
        /\ UNCHANGED <<nvmNid, nvmCounter, started>>
    BY <1>12, Zenon DEF Reboot
  <2>3. /\ boots' \in 1..MaxBoots /\ started' \subseteq 1..boots'
        /\ started' \subseteq 1..MaxBoots /\ boots' \notin started'
        /\ powerOnCounter' \in 0..MaxBoots /\ pendingNid' \in Nids
        /\ activeNid' \in Nids /\ odNid' \in Nids
    BY <2>1, <2>2
  <2> QED BY <2>2, <2>3, Zenon
<1>13. CASE UNCHANGED vars
  BY <1>13 DEF vars
<1> QED
  BY <1>1, <1>2, <1>3, <1>4, <1>5, <1>6, <1>7, <1>8, <1>9, <1>10, <1>11,
     <1>12, <1>13 DEF Next, MainStep, ThreadStep

(* LifecycleInv holds in every reachable state.                           *)
LEMMA InvHolds == Spec => []LifecycleInv
BY InvInit, InvStep, PTL DEF Spec

(* The life cycle keeps every variable in its type, for every bound.      *)
THEOREM TypeCorrect == Spec => []TypeOK
<1>1. LifecycleInv => TypeOK
  BY DEF LifecycleInv
<1> QED BY InvHolds, <1>1, PTL

(* The stack only runs with a valid node ID (1..127): lss_check sends an  *)
(* invalid stored ID into LSS assignment, lss_nid_assignment returns only  *)
(* with an assigned one, and deinit's 0 is replaced by init before the     *)
(* stack runs again.                                                       *)
THEOREM ActiveNidValidHolds == Spec => []ActiveNidValid
<1>1. LifecycleInv => ActiveNidValid
  BY DEF LifecycleInv, ActiveNidValid
<1> QED BY InvHolds, <1>1, PTL

(* While the stack is set up, OD_CANNodeID is the node ID the storage      *)
(* holds: the start loads it, store_lss_config_callback and the CLI write *)
(* OD and storage together.                                                *)
THEOREM OdNidIsStoredHolds == Spec => []OdNidIsStored
<1>1. LifecycleInv => OdNidIsStored
  BY DEF LifecycleInv, OdNidIsStored
<1> QED BY InvHolds, <1>1, PTL

(* The saved power-on counter counts the power cycles that started the    *)
(* stack, never a communication reset, for every number of power cycles.  *)
THEOREM PowerOnCounterHolds == Spec => []PowerOnCounterCountsBoots
<1>1. LifecycleInv => PowerOnCounterCountsBoots
  BY DEF LifecycleInv, PowerOnCounterCountsBoots
<1> QED BY InvHolds, <1>1, PTL
=============================================================================
