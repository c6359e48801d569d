---------------------------- MODULE FaultRecovery ----------------------------
(***************************************************************************)
(* What the fault-recovery component promises (spec 4.2), independent of   *)
(* how CO_error.c keeps its state: an interface is ACTIVE or LISTEN_ONLY;  *)
(* a fault (bus-off or a no-ACK storm) puts it into LISTEN_ONLY and starts *)
(* the dwell clock; it leaves LISTEN_ONLY when a frame is received, or     *)
(* once the dwell time has passed.  Nothing else changes the mode.         *)
(*                                                                         *)
(* The clock is the whole number of seconds since the last fault,          *)
(* saturated at DwellCap: only "more than DWELL seconds" matters.  heard   *)
(* says that a frame from another node is waiting to be read: only then    *)
(* can a receive end listen-only.                                          *)
(***************************************************************************)
EXTENDS Naturals

DWELL == 5
DwellCap == DWELL + 1

VARIABLES mode, age, heard

avars == <<mode, age, heard>>

Modes == {"ACTIVE", "LISTEN_ONLY"}

(* Fault: restart the link and listen only.                                *)
EnterListenOnly ==
  /\ mode' = "LISTEN_ONLY"
  /\ age' = 0
  /\ heard' \in BOOLEAN

(* A frame from another node is read; it proves the bus usable.            *)
Receive ==
  /\ heard
  /\ heard' \in BOOLEAN
  /\ mode' = "ACTIVE"
  /\ IF mode = "LISTEN_ONLY" THEN age' \in 0..DwellCap ELSE age' = age

(* A frame from another node arrives.                                      *)
Hear ==
  /\ heard' = TRUE
  /\ UNCHANGED <<mode, age>>

(* The dwell time is over: sending may be tried again.                     *)
LeaveAfterDwell ==
  /\ mode = "LISTEN_ONLY"
  /\ age > DWELL
  /\ mode' = "ACTIVE"
  /\ age' \in 0..DwellCap
  /\ UNCHANGED heard

AbsTick ==
  /\ age < DwellCap
  /\ age' = age + 1
  /\ UNCHANGED <<mode, heard>>

AbsInit ==
  /\ mode = "ACTIVE"
  /\ age \in 0..DwellCap
  /\ heard = FALSE

AbsNext ==
  \/ EnterListenOnly
  \/ Receive
  \/ Hear
  \/ LeaveAfterDwell
  \/ AbsTick

(* No permanent fault: time passes, and an interface whose dwell time is   *)
(* over is given back to the sender.                                       *)
AbsSpec ==
  /\ AbsInit
  /\ [][AbsNext]_avars
  /\ WF_avars(AbsTick)
  /\ WF_avars(LeaveAfterDwell)

=============================================================================
