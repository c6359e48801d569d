--------------------------- MODULE CANerrorThreads ---------------------------
(***************************************************************************)
(* The fault-recovery handler of CO_error.c shared by two tasks, as spec 5 *)
(* describes: the polling task feeds it frames (CO_CANerror_rxMsg,         *)
(* CO_CANerror_rxMsgError), and a sending task asks CO_CANerror_txMsg      *)
(* before each send.  The handler takes no lock, so CO_CANerror_txMsg is   *)
(* split at its reads and writes of the shared fields:                     *)
(*   line 269  if (listenOnly == true)                                     *)
(*   line 271  if (timestamp.tv_sec + 5 < now.tv_sec)                      *)
(*   line 274  CO_CANerrorClearListenOnly (listenOnly = false,             *)
(*             timestamp = 0)                                              *)
(* The receive-side handlers stay atomic: they run in one thread, and the  *)
(* race below needs only the send side to be split.                        *)
(***************************************************************************)
EXTENDS CANerror

VARIABLE txpc    \* where the sending task is inside CO_CANerror_txMsg

tvars == <<vars, txpc>>

TxPcs == {"idle", "listening", "expired"}

ThreadsInit == Init /\ txpc = "idle"

(* Line 269: listenOnly is read; when it is false the call returns         *)
(* CO_INTERFACE_ACTIVE and changes nothing.                                *)
TxReadListenOnly ==
  /\ txpc = "idle"
  /\ listenOnly
  /\ txpc' = "listening"
  /\ UNCHANGED vars

(* Lines 270-277: the clock is read and compared with the timestamp; when  *)
(* the dwell time is not over the call returns CO_INTERFACE_LISTEN_ONLY.   *)
TxReadStamp ==
  /\ txpc = "listening"
  /\ txpc' = IF stampAge > LISTEN_ONLY_RETRY THEN "expired" ELSE "idle"
  /\ UNCHANGED vars

(* Lines 274-275: CO_CANerrorClearListenOnly, return CO_INTERFACE_ACTIVE.  *)
TxClear ==
  /\ txpc = "expired"
  /\ CO_CANerrorClearListenOnly
  /\ txpc' = "idle"
  /\ UNCHANGED <<noackCounter, rxq, epoch>>

(* The polling task and the environment, as in CANerror.                   *)
RxSide ==
  /\ \/ CO_CANerror_rxMsgError
     \/ CO_CANerror_rxMsg
     \/ \E k \in FrameKinds : Arrive(k)
     \/ Tick
  /\ UNCHANGED txpc

ThreadsNext == RxSide \/ TxReadListenOnly \/ TxReadStamp \/ TxClear

ThreadsSpec == ThreadsInit /\ [][ThreadsNext]_tvars

(* Spec 4.2 and 5: with both tasks running, the mode still only leaves     *)
(* LISTEN_ONLY on a received frame or after the dwell time, so a bus-off   *)
(* handled by the polling task while the sending task is inside            *)
(* CO_CANerror_txMsg is not undone by that call.  The safety part of the   *)
(* FaultRecovery specification under the mapping of CANerror.              *)
FaultRecoverySafety == Recovery!AbsInit /\ [][Recovery!AbsNext]_(Recovery!avars)

=============================================================================
