--------------------------- MODULE CanopenLifecycle ---------------------------
(***************************************************************************)
(* The life cycle of the CANopen stack in the Canopen class                *)
(* (src/unnamed/part_000): the main task running Canopen::init (node-ID    *)
(* choice, LSS negotiation, stack start) and Canopen::process (NMT reset   *)
(* handling), and the rx/timer thread timer_rx_thread, which suspends      *)
(* itself when deinit or a reboot request asks it to and is resumed by     *)
(* co_start.                                                               *)
(*                                                                         *)
(* The LSS master, the NMT master and the reboot that globals performs on  *)
(* request are the environment; the storage of the COMMUNICATION and       *)
(* RUNTIME groups is taken as reliable here (CanopenStore covers faults).  *)
(* The constant Preemptible says whether the main task can run while the  *)
(* thread is between clearing timer_rx_suspend and vTaskSuspend(NULL):     *)
(* that depends on the task priorities, which are outside the repository. *)
(***************************************************************************)
EXTENDS Naturals, FiniteSets

CONSTANTS
  LssNids,      \* node IDs an LSS master assigns or configures
  MaxBoots,     \* power cycles explored
  Preemptible   \* the main task may run between lines 782 and 784

ASSUME LifecycleAssumption ==
  /\ LssNids \subseteq 1..127 /\ LssNids # {}
  /\ MaxBoots \in Nat \ {0}
  /\ Preemptible \in BOOLEAN

NODE_ID_ASSIGNMENT == 255      \* CO_LSS_NODE_ID_ASSIGNMENT
NidValid(n) == n \in 1..127    \* CO_LSS_NODE_ID_VALID
Nids == {0, NODE_ID_ASSIGNMENT} \cup LssNids

VARIABLES
  mpc,              \* where the main task is
  tpc,              \* the rx/timer thread: none (not created), run,
                    \* suspending (between line 782 and 784), suspended
  timer_rx_suspend, \* Canopen::timer_rx_suspend
  reboot,           \* globals.get_reboot()
  activeNid,        \* *p_active_nid
  pendingNid,       \* the pending node ID passed from lss_check to co_start
  odNid,            \* OD_CANNodeID (COMMUNICATION group in RAM)
  nvmNid,           \* the node ID the storage holds (0: none)
  once,             \* Canopen::once
  powerOnCounter,   \* OD_powerOnCounter (RUNTIME group in RAM)
  nvmCounter,       \* the power-on counter the storage holds
  boots,            \* history: power-ons so far
  started           \* history: the power-ons in which co_start ran

vars == <<mpc, tpc, timer_rx_suspend, reboot, activeNid, pendingNid, odNid,
          nvmNid, once, powerOnCounter, nvmCounter, boots, started>>

MainPcs == {"init", "lss", "start", "running", "deinit", "quitting", "quit"}

TypeOK ==
  /\ mpc \in MainPcs
  /\ tpc \in {"none", "run", "suspending", "suspended"}
  /\ timer_rx_suspend \in BOOLEAN /\ reboot \in BOOLEAN /\ once \in BOOLEAN
  /\ activeNid \in Nids /\ pendingNid \in Nids
  /\ odNid \in Nids /\ nvmNid \in Nids
  /\ powerOnCounter \in 0..MaxBoots /\ nvmCounter \in 0..MaxBoots
  /\ boots \in 1..MaxBoots /\ started \subseteq 1..MaxBoots

(* The main task runs unless the thread, at a higher priority, is between *)
(* clearing the flag and suspending itself.                                *)
MainMayRun == Preemptible \/ tpc # "suspending"

-----------------------------------------------------------------------------
(* Power-on: main calls Canopen::init(0, interval); storage is empty.      *)
Init ==
  /\ mpc = "init"
  /\ tpc = "none"
  /\ timer_rx_suspend = FALSE /\ reboot = FALSE /\ once = FALSE
  /\ activeNid = 0 /\ pendingNid = 0
  /\ odNid = 0 /\ nvmNid = 0
  /\ powerOnCounter = 0 /\ nvmCounter = 0
  /\ boots = 1 /\ started = {}

(* An lss_check that takes the OD node ID without checking it.           *)
LssCheckUnchecked(pending, od) ==
  IF pending = 0 THEN [pending |-> od, active |-> activeNid]
  ELSE [pending |-> pending, active |-> activeNid]

(* lss_check: with no node ID from the caller the one loaded into the OD  *)
(* is used; an invalid one means LSS assignment.                           *)
LssCheck(pending, od) ==
  IF pending = 0
    THEN IF NidValid(od) THEN [pending |-> od, active |-> activeNid]
         ELSE [pending |-> NODE_ID_ASSIGNMENT, active |-> NODE_ID_ASSIGNMENT]
    ELSE [pending |-> pending, active |-> activeNid]

(* Canopen::init up to lss_nid_assignment: od_set_defaults (OD_CANNodeID = *)
(* 0), od_load_start (COMMUNICATION and RUNTIME come back from storage),   *)
(* lss_check, co_init (CO_new, CO_CANinit, CO_LSSinit, normal mode).       *)
InitStart ==
  /\ mpc = "init" /\ MainMayRun
  /\ odNid' = nvmNid
  /\ powerOnCounter' = nvmCounter
  /\ LET c == LssCheck(pendingNid, nvmNid)
     IN /\ pendingNid' = c.pending
        /\ activeNid' = c.active
  /\ mpc' = "lss"
  /\ UNCHANGED <<tpc, timer_rx_suspend, reboot, nvmNid, once, nvmCounter, boots, started>>

(* A loop that leaves frame reception to the CANopen receive thread, which *)
(* co_start only creates after the loop returns.                          *)
LssNidAssignmentNeedsThread ==
  /\ mpc = "lss" /\ MainMayRun /\ tpc = "run"
  /\ pendingNid # NODE_ID_ASSIGNMENT
  /\ mpc' = "start"
  /\ UNCHANGED <<tpc, timer_rx_suspend, reboot, activeNid, pendingNid, odNid,
                 nvmNid, once, powerOnCounter, nvmCounter, boots, started>>

(* lss_nid_assignment: the loop returns once the LSS slave has a pending   *)
(* node ID (it keeps polling with CO_CANrxWait and housekeeping until      *)
(* then).                                                                  *)
LssNidAssignment ==
  /\ mpc = "lss" /\ MainMayRun
  /\ pendingNid # NODE_ID_ASSIGNMENT
  /\ mpc' = "start"
  /\ UNCHANGED <<tpc, timer_rx_suspend, reboot, activeNid, pendingNid, odNid,
                 nvmNid, once, powerOnCounter, nvmCounter, boots, started>>

(* A co_start that creates the thread the first time and never resumes it.*)
CoStartNoResume ==
  /\ mpc = "start" /\ MainMayRun
  /\ activeNid' = pendingNid
  /\ tpc' = IF tpc = "none" THEN "run" ELSE tpc
  /\ IF ~once
       THEN /\ once' = TRUE
            /\ powerOnCounter' = powerOnCounter + 1
            /\ nvmCounter' = powerOnCounter + 1
       ELSE UNCHANGED <<once, powerOnCounter, nvmCounter>>
  /\ mpc' = "running"
  /\ started' = started \cup {boots}
  /\ UNCHANGED <<timer_rx_suspend, reboot, pendingNid, odNid, nvmNid, boots>>

(* An init that counts every start, not only the first after power-on.    *)
CoStartCountsAll ==
  /\ mpc = "start" /\ MainMayRun
  /\ activeNid' = pendingNid
  /\ tpc' = CASE tpc = "none" -> "run"
              [] tpc = "suspended" -> "run"
              [] OTHER -> tpc
  /\ once' = TRUE
  /\ powerOnCounter' = powerOnCounter + 1
  /\ nvmCounter' = powerOnCounter + 1
  /\ mpc' = "running"
  /\ started' = started \cup {boots}
  /\ UNCHANGED <<timer_rx_suspend, reboot, pendingNid, odNid, nvmNid, boots>>

(* co_start and the end of Canopen::init: CO_CANopenInit, the active node  *)
(* ID becomes the pending one, the thread is resumed if it exists          *)
(* (vTaskResume has no effect on a task that is not suspended) or created; *)
(* on the first start after power-on powerOnCounter is incremented and     *)
(* RUNTIME saved.                                                          *)
CoStart ==
  /\ mpc = "start" /\ MainMayRun
  /\ activeNid' = pendingNid
  /\ tpc' = CASE tpc = "none" -> "run"
              [] tpc = "suspended" -> "run"
              [] OTHER -> tpc
  /\ IF ~once
       THEN /\ once' = TRUE
            /\ powerOnCounter' = powerOnCounter + 1
            /\ nvmCounter' = powerOnCounter + 1
       ELSE UNCHANGED <<once, powerOnCounter, nvmCounter>>
  /\ mpc' = "running"
  /\ started' = started \cup {boots}
  /\ UNCHANGED <<timer_rx_suspend, reboot, pendingNid, odNid, nvmNid, boots>>

(* The LSS master, while the node waits in lss_nid_assignment, assigns a   *)
(* node ID; CO_LSSslave_process hands it back as the pending one.          *)
LssAssign(n) ==
  /\ mpc = "lss" /\ MainMayRun
  /\ pendingNid = NODE_ID_ASSIGNMENT
  /\ pendingNid' = n
  /\ UNCHANGED <<mpc, tpc, timer_rx_suspend, reboot, activeNid, odNid, nvmNid,
                 once, powerOnCounter, nvmCounter, boots, started>>

(* store_lss_config_callback as the comment describes it: the active node  *)
(* ID is put back after the save whatever its result.                      *)
StoreLssConfigAlwaysRestore(nid) ==
  /\ mpc \in {"lss", "running"} /\ MainMayRun
  /\ nvmNid' = nid
  /\ UNCHANGED <<mpc, tpc, timer_rx_suspend, reboot, activeNid, pendingNid,
                 odNid, once, powerOnCounter, nvmCounter, boots, started>>

(* store_lss_config_callback, run by CO_LSSslave_process in the main task  *)
(* on the LSS "store configuration" command: OD_CANNodeID is swapped for   *)
(* the new node ID, COMMUNICATION saved, and the old value put back only   *)
(* if the save failed (storage is reliable here, so it never does).        *)
StoreLssConfig(nid) ==
  /\ mpc \in {"lss", "running"} /\ MainMayRun
  /\ odNid' = nid
  /\ nvmNid' = nid
  /\ UNCHANGED <<mpc, tpc, timer_rx_suspend, reboot, activeNid, pendingNid,
                 once, powerOnCounter, nvmCounter, boots, started>>

(* A process whose CO_LSSslave_process leaves pending_nid unwritten: the  *)
(* local u8 holds whatever the stack had there.                            *)
ProcessUninitPending(reset) ==
  /\ mpc = "running" /\ MainMayRun
  /\ \E p \in 0..255 : pendingNid' = p
  /\ CASE reset = "COMM" ->
            /\ timer_rx_suspend' = TRUE /\ mpc' = "deinit"
            /\ UNCHANGED reboot
       [] reset = "QUIT" ->
            /\ timer_rx_suspend' = TRUE /\ mpc' = "quitting"
            /\ UNCHANGED reboot
       [] reset = "APP" ->
            /\ reboot' = TRUE
            /\ UNCHANGED <<timer_rx_suspend, mpc>>
  /\ UNCHANGED <<tpc, activeNid, odNid, nvmNid, once, powerOnCounter,
                 nvmCounter, boots, started>>

(* Canopen::process with an NMT reset command from the network or the      *)
(* stack. CO_LSSslave_process first yields the pending node ID: the active *)
(* one, one an LSS master configured, or NODE_ID_ASSIGNMENT. A            *)
(* communication reset and a quit start deinit (timer_rx_suspend = true    *)
(* and wait); an application reset only requests a reboot.                 *)
Process(reset) ==
  /\ mpc = "running" /\ MainMayRun
  /\ \E p \in LssNids \cup {activeNid, NODE_ID_ASSIGNMENT} : pendingNid' = p
  /\ CASE reset = "COMM" ->
            /\ timer_rx_suspend' = TRUE /\ mpc' = "deinit"
            /\ UNCHANGED reboot
       [] reset = "QUIT" ->
            /\ timer_rx_suspend' = TRUE /\ mpc' = "quitting"
            /\ UNCHANGED reboot
       [] reset = "APP" ->
            /\ reboot' = TRUE
            /\ UNCHANGED <<timer_rx_suspend, mpc>>
  /\ UNCHANGED <<tpc, activeNid, odNid, nvmNid, once, powerOnCounter,
                 nvmCounter, boots, started>>

(* program_control_callback: a write of 0x1F51 the bootloader answers     *)
(* with BOOTLOADER_REBOOT requests a reboot.                               *)
ProgramControlReboot ==
  /\ mpc = "running" /\ MainMayRun
  /\ reboot' = TRUE
  /\ UNCHANGED <<mpc, tpc, timer_rx_suspend, activeNid, pendingNid, odNid,
                 nvmNid, once, powerOnCounter, nvmCounter, boots, started>>

(* cmd_terminal "-n <nid>" (CLI task, registered by the first init):       *)
(* OD_CANNodeID is written, COMMUNICATION saved and a reboot requested.   *)
CmdNodeId(nid) ==
  /\ mpc # "init"
  /\ odNid' = nid /\ nvmNid' = nid /\ reboot' = TRUE
  /\ UNCHANGED <<mpc, tpc, timer_rx_suspend, activeNid, pendingNid, once,
                 powerOnCounter, nvmCounter, boots, started>>

(* The end of deinit: the thread has cleared timer_rx_suspend; the stack  *)
(* is deleted and the active node ID set to 0. After a communication reset *)
(* process calls init(pending_nid) again; after a quit nothing follows.    *)
Deinit ==
  /\ mpc \in {"deinit", "quitting"} /\ MainMayRun
  /\ ~timer_rx_suspend
  /\ activeNid' = 0
  /\ mpc' = IF mpc = "deinit" THEN "init" ELSE "quit"
  /\ UNCHANGED <<tpc, timer_rx_suspend, reboot, pendingNid, odNid, nvmNid,
                 once, powerOnCounter, nvmCounter, boots, started>>

(* timer_rx_thread, after CANrx_threadTmr_process: on a deinit or reboot   *)
(* request it clears timer_rx_suspend (line 782) ...                       *)
TimerRxCheck ==
  /\ tpc = "run"
  /\ timer_rx_suspend \/ reboot
  /\ timer_rx_suspend' = FALSE
  /\ tpc' = "suspending"
  /\ UNCHANGED <<mpc, reboot, activeNid, pendingNid, odNid, nvmNid, once,
                 powerOnCounter, nvmCounter, boots, started>>

(* ... and then suspends itself (line 784) until co_start resumes it.     *)
TimerRxSuspend ==
  /\ tpc = "suspending"
  /\ tpc' = "suspended"
  /\ UNCHANGED <<mpc, timer_rx_suspend, reboot, activeNid, pendingNid, odNid,
                 nvmNid, once, powerOnCounter, nvmCounter, boots, started>>

(* The reboot globals performs on request: a power cycle. RAM, the task   *)
(* states and Canopen::once start afresh, storage keeps its content.       *)
Reboot ==
  /\ reboot /\ boots < MaxBoots
  /\ mpc' = "init" /\ tpc' = "none"
  /\ timer_rx_suspend' = FALSE /\ reboot' = FALSE /\ once' = FALSE
  /\ activeNid' = 0 /\ pendingNid' = 0 /\ odNid' = 0 /\ powerOnCounter' = 0
  /\ boots' = boots + 1
  /\ UNCHANGED <<nvmNid, nvmCounter, started>>

MainStep ==
  \/ InitStart \/ LssNidAssignment \/ CoStart \/ Deinit

ThreadStep == TimerRxCheck \/ TimerRxSuspend

Next ==
  \/ MainStep
  \/ ThreadStep
  \/ \E n \in LssNids : LssAssign(n) \/ StoreLssConfig(n) \/ CmdNodeId(n)
  \/ ProgramControlReboot
  \/ \E r \in {"COMM", "APP", "QUIT"} : Process(r)
  \/ Reboot

(* The main task's own steps and the thread are scheduled (the deinit     *)
(* loop polls with vTaskDelay(1)); the LSS master, the NMT master and the *)
(* reboot are the environment and may never act.                          *)
Fairness ==
  /\ WF_vars(InitStart) /\ WF_vars(LssNidAssignment)
  /\ WF_vars(CoStart) /\ WF_vars(Deinit)
  /\ WF_vars(TimerRxCheck) /\ WF_vars(TimerRxSuspend)

Spec == Init /\ [][Next]_vars /\ Fairness

-----------------------------------------------------------------------------
(* Once the stack runs, the active node ID is a valid one (1..127): the   *)
(* LSS loop never hands co_start the "unassigned" ID or the 0 left by      *)
(* deinit, whatever the stored ID and the LSS master do.                   *)
ActiveNidValid == mpc = "running" => NidValid(activeNid)

(* While the stack is up, OD_CANNodeID equals the node ID the storage      *)
(* holds: an LSS "store configuration" leaves the OD and the storage in    *)
(* step, so the next start and the daisychain event see what was stored.  *)
OdNidIsStored == mpc \in {"lss", "start", "running"} => odNid = nvmNid

(* The saved power-on counter counts the power cycles in which the stack  *)
(* started, not communication resets: Canopen::once keeps init from        *)
(* counting a re-init, and the RUNTIME load at each init brings back the   *)
(* value saved after the first.                                            *)
PowerOnCounterCountsBoots ==
  mpc = "running" => nvmCounter = Cardinality(started)

(* Whenever the stack runs and no reboot is pending, the rx/timer thread   *)
(* eventually runs (co_start resumes it after every deinit).               *)
RxThreadResumed ==
  (mpc = "running" /\ ~reboot) ~> (tpc = "run" \/ mpc # "running" \/ reboot)

(* deinit returns: its wait for the thread to clear timer_rx_suspend ends. *)
DeinitReturns ==
  (mpc \in {"deinit", "quitting"}) ~> (mpc \notin {"deinit", "quitting"})

(* lss_nid_assignment, co_start: once the node has a valid pending node ID *)
(* (from storage, or assigned by an LSS master while the loop polls), the  *)
(* main task leaves the LSS loop and the stack runs with that ID, unless a *)
(* reboot request sends it back through init first.                        *)
AssignedNodeStarts ==
  \A n \in LssNids :
    (mpc = "lss" /\ pendingNid = n)
      ~> ((mpc = "running" /\ activeNid = n) \/ mpc = "init")
=============================================================================
