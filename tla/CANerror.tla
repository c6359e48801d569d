------------------------------ MODULE CANerror ------------------------------
(***************************************************************************)
(* Fault recovery of one socketCAN interface: the error handler of         *)
(* src/stack/neuberger-socketCAN/CO_error.c (CO_CANinterfaceErrorhandler_t *)
(* and the functions operating on it).                                     *)
(*                                                                         *)
(* The receive thread takes frames off the interface's socket queue one at *)
(* a time: a data frame is reported with CO_CANerror_rxMsg, an error frame *)
(* with CO_CANerror_rxMsgError.  A sending task asks CO_CANerror_txMsg     *)
(* before each send.  Every handler runs as one atomic step here; the      *)
(* interleaving of the receive and the send path is the subject of a       *)
(* separate module.                                                        *)
(*                                                                         *)
(* Data abstraction:                                                       *)
(*  - time is kept as stampAge, the whole seconds between                  *)
(*    timestamp.tv_sec and now.tv_sec, saturated at AgeCap: the code only  *)
(*    ever compares  timestamp.tv_sec + 5 < now.tv_sec;                    *)
(*  - an error frame is the set of its error classes; "CRTL" stands for    *)
(*    every class the handler only logs (controller, protocol, ...);       *)
(*    a data frame has no error class;                                     *)
(*  - epoch is a history variable: it flips at every interface reset and  *)
(*    every queued frame records the epoch it arrived in.  No handler      *)
(*    reads it.                                                            *)
(***************************************************************************)
EXTENDS Naturals, Sequences

CONSTANT QueueMax      \* frames the socket receive queue holds in the model

ASSUME QueueMaxAssumption == QueueMax \in Nat \ {0}

NOACK_LIMIT == 10          \* CO_CANerrorNoack: noackCounter > 10
LISTEN_ONLY_RETRY == 5     \* CO_CANerror_txMsg: timestamp.tv_sec + 5 < now.tv_sec
AgeCap == LISTEN_ONLY_RETRY + 1

ErrClass == {"BUSOFF", "CRTL", "ACK"}
ErrorKinds == (SUBSET ErrClass) \ {{}}
FrameKinds == ErrorKinds \cup {{}}          \* {} is a data frame
Frame == [err : FrameKinds, epoch : BOOLEAN]

VARIABLES
  listenOnly,     \* CANerrorhandler->listenOnly
  stampAge,       \* now.tv_sec - CANerrorhandler->timestamp.tv_sec, saturated
  noackCounter,   \* CANerrorhandler->noackCounter
  rxq,            \* frames waiting on the socket (CANerrorhandler->fd)
  epoch           \* history: parity of the number of interface resets

vars == <<listenOnly, stampAge, noackCounter, rxq, epoch>>

TypeOK ==
  /\ listenOnly \in BOOLEAN
  /\ stampAge \in 0..AgeCap
  /\ noackCounter \in 0..NOACK_LIMIT
  /\ rxq \in Seq(Frame)
  /\ Len(rxq) <= QueueMax
  /\ epoch \in BOOLEAN

-----------------------------------------------------------------------------
(* CO_CANerror_init: a fresh handler on a fresh socket.                    *)
Init ==
  /\ listenOnly = FALSE
  /\ stampAge = AgeCap           \* timestamp = 0
  /\ noackCounter = 0
  /\ rxq = <<>>
  /\ epoch = FALSE

(* Faulty variant of CO_CANerrorResetIf that forgets to drain the socket:  *)
(* only the frame being handled leaves the queue.  Validates QueueFresh.  *)
ResetIfNoDrain ==
  /\ stampAge' = 0
  /\ listenOnly' = TRUE
  /\ rxq' = Tail(rxq)
  /\ epoch' = ~epoch

(* CO_CANerrorResetIf: stamp the time, go listen-only, take the link down, *)
(* drop every frame still queued on the socket, bring the link up.         *)
CO_CANerrorResetIf ==
  /\ stampAge' = 0
  /\ listenOnly' = TRUE
  /\ rxq' = <<>>
  /\ epoch' = ~epoch

(* CO_CANerrorClearListenOnly                                              *)
CO_CANerrorClearListenOnly ==
  /\ listenOnly' = FALSE
  /\ stampAge' = AgeCap          \* timestamp = 0, read only when listenOnly

(* CO_CANerrorBusoff for a frame carrying CAN_ERR_BUSOFF: reset and return *)
(* LISTEN_ONLY, so CO_CANerror_rxMsgError stops before the no-ACK check.   *)
CO_CANerrorBusoff(f) ==
  /\ "BUSOFF" \in f.err
  /\ CO_CANerrorResetIf
  /\ UNCHANGED noackCounter

(* CO_CANerrorCrtl: controller warnings, passive and overflow states are   *)
(* only logged; the result is always CO_INTERFACE_ACTIVE.                  *)
CO_CANerrorCrtl(f) == "ACTIVE"

(* Faulty variant of CO_CANerrorNoack that resets one frame late (>= 11   *)
(* written as > 11).  Validates TypeOK's bound on the counter.             *)
NoackLate(f) ==
  \/ /\ "ACK" \in f.err
     /\ noackCounter + 1 > NOACK_LIMIT + 1
     /\ CO_CANerrorResetIf
     /\ noackCounter' = 0
  \/ /\ "ACK" \in f.err
     /\ noackCounter + 1 <= NOACK_LIMIT + 1
     /\ noackCounter' = noackCounter + 1
     /\ rxq' = Tail(rxq)
     /\ UNCHANGED <<listenOnly, stampAge, epoch>>
  \/ /\ "ACK" \notin f.err
     /\ noackCounter' = 0
     /\ rxq' = Tail(rxq)
     /\ UNCHANGED <<listenOnly, stampAge, epoch>>

(* CO_CANerrorNoack, reached by every error frame without CAN_ERR_BUSOFF.  *)
(* The frame has been taken off the queue.                                 *)
CO_CANerrorNoack(f) ==
  \/ /\ "ACK" \in f.err
     /\ noackCounter + 1 > NOACK_LIMIT
     /\ CO_CANerrorResetIf
     /\ noackCounter' = 0
  \/ /\ "ACK" \in f.err
     /\ noackCounter + 1 <= NOACK_LIMIT
     /\ noackCounter' = noackCounter + 1
     /\ rxq' = Tail(rxq)
     /\ UNCHANGED <<listenOnly, stampAge, epoch>>
  \/ /\ "ACK" \notin f.err
     /\ noackCounter' = 0
     /\ rxq' = Tail(rxq)
     /\ UNCHANGED <<listenOnly, stampAge, epoch>>

(* The receive path hands the error frame at the head of the socket queue  *)
(* to CO_CANerror_rxMsgError, which stops at the first check whose result *)
(* is not CO_INTERFACE_ACTIVE: Busoff, then Crtl, then Noack.              *)
CO_CANerror_rxMsgError ==
  /\ rxq # <<>>
  /\ Head(rxq).err # {}
  /\ \/ CO_CANerrorBusoff(Head(rxq))
     \/ /\ "BUSOFF" \notin Head(rxq).err
        /\ CO_CANerrorCrtl(Head(rxq)) = "ACTIVE"
        /\ CO_CANerrorNoack(Head(rxq))

(* The receive path takes the data frame at the head of the queue and      *)
(* calls CO_CANerror_rxMsg: someone is active, leave listen-only.          *)
CO_CANerror_rxMsg ==
  /\ rxq # <<>>
  /\ Head(rxq).err = {}
  /\ rxq' = Tail(rxq)
  /\ IF listenOnly THEN CO_CANerrorClearListenOnly
                   ELSE UNCHANGED <<listenOnly, stampAge>>
  /\ UNCHANGED <<noackCounter, epoch>>

(* Faulty variant of CO_CANerror_txMsg that retries one second early      *)
(* (>= instead of >).  Validates FaultRecoveryRefined.                     *)
TxEarly ==
  /\ listenOnly
  /\ stampAge >= LISTEN_ONLY_RETRY
  /\ CO_CANerrorClearListenOnly
  /\ UNCHANGED <<noackCounter, rxq, epoch>>

(* CO_CANerror_txMsg when it changes state: listen-only has lasted long    *)
(* enough, let a send try again.  In every other case the call only        *)
(* returns LISTEN_ONLY or ACTIVE and is a stuttering step.                 *)
CO_CANerror_txMsg ==
  /\ listenOnly
  /\ stampAge > LISTEN_ONLY_RETRY
  /\ CO_CANerrorClearListenOnly
  /\ UNCHANGED <<noackCounter, rxq, epoch>>

(* Environment: the kernel queues a frame on the socket.                   *)
Arrive(k) ==
  /\ Len(rxq) < QueueMax
  /\ rxq' = Append(rxq, [err |-> k, epoch |-> epoch])
  /\ UNCHANGED <<listenOnly, stampAge, noackCounter, epoch>>

(* Environment: CLOCK_MONOTONIC passes a second boundary.                  *)
Tick ==
  /\ stampAge < AgeCap
  /\ stampAge' = stampAge + 1
  /\ UNCHANGED <<listenOnly, noackCounter, rxq, epoch>>

Next ==
  \/ CO_CANerror_rxMsgError
  \/ CO_CANerror_rxMsg
  \/ CO_CANerror_txMsg
  \/ \E k \in FrameKinds : Arrive(k)
  \/ Tick

(* The clock always advances, and the transmit path keeps consulting       *)
(* CO_CANerror_txMsg before it sends (spec 4.1, 4.2: a send is gated by    *)
(* the fault state; the socketCAN CO_CANsend making that call is not part  *)
(* of this repository): the periodic heartbeat keeps a send pending.       *)
Fairness == WF_vars(Tick) /\ WF_vars(CO_CANerror_txMsg)

Spec == Init /\ [][Next]_vars /\ Fairness

-----------------------------------------------------------------------------
(* Properties                                                              *)

(* The reset drops every frame queued before it: a frame waiting on the    *)
(* socket always arrived after the latest interface reset, so a data frame *)
(* that ends listen-only (CO_CANerror_rxMsg) is evidence from the bus as   *)
(* it is after the reset, never from before the bus-off.                   *)
QueueFresh == \A i \in 1..Len(rxq) : rxq[i].epoch = epoch

(* The handler implements the fault-recovery state machine of spec 4.2:    *)
(* listenOnly is its mode, stampAge its dwell clock, and a data frame on   *)
(* the socket queue is a frame heard from another node.  Resets, reads of  *)
(* data frames, arrivals of data frames and clock ticks are steps of the   *)
(* abstract machine; the other handler steps leave all three unchanged.    *)
Recovery == INSTANCE FaultRecovery
              WITH mode <- IF listenOnly THEN "LISTEN_ONLY" ELSE "ACTIVE",
                   age <- stampAge,
                   heard <- \E i \in 1..Len(rxq) : rxq[i].err = {}

(* CO_CANerror_txMsg and CO_CANerror_rxMsg end listen-only only as the     *)
(* specification allows (after more than 5 s, or on reading a frame from   *)
(* another node), and listen-only never lasts: once the dwell time is      *)
(* over, the next send attempt makes the interface active again.           *)
FaultRecoveryRefined == Recovery!AbsSpec

=============================================================================
