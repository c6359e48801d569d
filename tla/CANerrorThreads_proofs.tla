------------------------ MODULE CANerrorThreads_proofs ------------------------
(***************************************************************************)
(* Proofs about the fault-recovery handler shared by the polling and the   *)
(* sending task (CANerrorThreads), for every queue bound QueueMax.  The    *)
(* run CANerrorThreads_race shows that the split CO_CANerror_txMsg breaks  *)
(* the safety part of spec 4.2; the theorem below shows that the stale     *)
(* clear at line 274 is the only way it does.                              *)
(***************************************************************************)
EXTENDS CANerrorThreads, CANerror_proofs

USE QueueMaxAssumption DEF AgeCap, NOACK_LIMIT, LISTEN_ONLY_RETRY

(* While the handler is active its timestamp is 0 (CO_CANerror_init and    *)
(* CO_CANerrorClearListenOnly set it), so the dwell clock is saturated;    *)
(* only CO_CANerrorResetIf restarts it, and it also sets listenOnly.       *)
QuietClock == ~listenOnly => stampAge = AgeCap

TInv == TypeOK /\ QuietClock /\ txpc \in TxPcs

(* Every step of the single-threaded handler keeps QuietClock.             *)
LEMMA QuietStep == TypeOK /\ QuietClock /\ [Next]_vars => QuietClock'
<1> SUFFICES ASSUME TypeOK, QuietClock, [Next]_vars PROVE QuietClock'
  OBVIOUS
<1>1. CASE CO_CANerror_rxMsgError
  <2>1. CASE CO_CANerrorBusoff(Head(rxq))
    BY <2>1 DEF CO_CANerrorBusoff, CO_CANerrorResetIf, QuietClock
  <2>2. CASE CO_CANerrorNoack(Head(rxq))
    BY <2>2 DEF CO_CANerrorNoack, CO_CANerrorResetIf, QuietClock
  <2> QED BY <1>1, <2>1, <2>2 DEF CO_CANerror_rxMsgError
<1>2. CASE CO_CANerror_rxMsg
  BY <1>2 DEF CO_CANerror_rxMsg, CO_CANerrorClearListenOnly, QuietClock
<1>3. CASE CO_CANerror_txMsg
  BY <1>3 DEF CO_CANerror_txMsg, CO_CANerrorClearListenOnly, QuietClock
<1>4. ASSUME NEW k \in FrameKinds, Arrive(k) PROVE QuietClock'
  BY <1>4 DEF Arrive, QuietClock
<1>5. CASE Tick
  BY <1>5 DEF Tick, QuietClock, TypeOK
<1>6. CASE UNCHANGED vars
  BY <1>6 DEF vars, QuietClock
<1> QED BY <1>1, <1>2, <1>3, <1>4, <1>5, <1>6 DEF Next

(* At start both tasks are idle, the handler is not in listen-only mode  *)
(* and its clock is saturated: TInv holds.                                 *)
LEMMA TInvInit == ThreadsInit => TInv
<1> SUFFICES ASSUME ThreadsInit PROVE TInv
  OBVIOUS
<1>1. TypeOK
  BY TypeInit DEF ThreadsInit
<1>2. QuietClock /\ txpc \in TxPcs
  BY DEF ThreadsInit, Init, QuietClock, TxPcs
<1> QED BY <1>1, <1>2 DEF TInv

(* The receive side, the three parts of CO_CANerror_txMsg and the          *)
(* environment keep TInv.                                                  *)
LEMMA TInvStep == TInv /\ [ThreadsNext]_tvars => TInv'
<1> SUFFICES ASSUME TInv, [ThreadsNext]_tvars PROVE TInv'
  OBVIOUS
<1>1. CASE RxSide
  <2>1. [Next]_vars /\ UNCHANGED txpc
    BY <1>1 DEF RxSide, Next
  <2>2. TypeOK' /\ QuietClock'
    BY <2>1, TypeStep, QuietStep DEF TInv
  <2> QED BY <2>1, <2>2 DEF TInv
<1>2. CASE TxReadListenOnly \/ TxReadStamp
  <2>1. UNCHANGED vars /\ txpc' \in TxPcs
    BY <1>2 DEF TxReadListenOnly, TxReadStamp, TxPcs
  <2>2. TypeOK' /\ QuietClock'
    BY <2>1, TypeStep, QuietStep DEF TInv
  <2> QED BY <2>1, <2>2 DEF TInv
<1>3. CASE TxClear
  <2>1. ~listenOnly' /\ stampAge' = AgeCap /\ txpc' \in TxPcs
        /\ UNCHANGED <<noackCounter, rxq, epoch>>
    BY <1>3 DEF TxClear, CO_CANerrorClearListenOnly, TxPcs
  <2>2. listenOnly' = FALSE /\ epoch' = epoch
    BY <1>3 DEF TxClear, CO_CANerrorClearListenOnly
  <2>3. listenOnly' \in BOOLEAN /\ epoch' \in BOOLEAN
    <3>1. epoch \in BOOLEAN
      BY DEF TInv, TypeOK
    <3> QED BY <2>2, <3>1, Zenon
  <2>4. /\ stampAge' \in 0..AgeCap /\ noackCounter' \in 0..NOACK_LIMIT
        /\ rxq' \in Seq(Frame) /\ Len(rxq') <= QueueMax
    BY <2>1 DEF TInv, TypeOK
  <2> QED BY <2>1, <2>3, <2>4 DEF TInv, TypeOK, QuietClock
<1>4. CASE UNCHANGED tvars
  <2>1. UNCHANGED vars /\ UNCHANGED txpc
    BY <1>4 DEF tvars
  <2>2. TypeOK' /\ QuietClock'
    BY <2>1, TypeStep, QuietStep DEF TInv
  <2> QED BY <2>1, <2>2 DEF TInv
<1> QED BY <1>1, <1>2, <1>3, <1>4 DEF ThreadsNext

(* CO_CANerror_txMsg without a lock, for every queue bound: every step of  *)
(* the polling task, of the sending task and of the environment is a step  *)
(* of the fault-recovery specification (spec 4.2) or leaves its state      *)
(* unchanged, except one: the clear at line 274 taken while the handler is *)
(* in a listen-only period younger than the 5 s dwell.  Since only         *)
(* CO_CANerrorResetIf restarts the dwell clock, that period began after    *)
(* the sending task compared the timestamp at line 271: the race of the    *)
(* run CANerrorThreads_race is the only departure from the specification.  *)
THEOREM RaceOnlyAtStaleClear ==
  ThreadsSpec =>
    [][\/ [Recovery!AbsNext]_Recovery!avars
       \/ TxClear /\ listenOnly /\ stampAge <= LISTEN_ONLY_RETRY]_tvars
<1> USE DEF Recovery!DWELL, Recovery!DwellCap, Recovery!avars
<1>1. TInv /\ [ThreadsNext]_tvars
        => \/ [Recovery!AbsNext]_Recovery!avars
           \/ TxClear /\ listenOnly /\ stampAge <= LISTEN_ONLY_RETRY
  <2> SUFFICES ASSUME TInv, [ThreadsNext]_tvars
               PROVE  \/ [Recovery!AbsNext]_Recovery!avars
                      \/ TxClear /\ listenOnly /\ stampAge <= LISTEN_ONLY_RETRY
    OBVIOUS
  <2>1. CASE RxSide
    <3>1. [Next]_vars
      BY <2>1 DEF RxSide, Next
    <3> QED BY <3>1, StepRefines DEF TInv
  <2>2. CASE TxReadListenOnly \/ TxReadStamp \/ UNCHANGED tvars
    <3>1. UNCHANGED vars
      BY <2>2 DEF TxReadListenOnly, TxReadStamp, tvars
    <3> QED BY <3>1 DEF vars
  <2>3. CASE TxClear
    <3>1. ~listenOnly' /\ stampAge' = AgeCap /\ rxq' = rxq
      BY <2>3 DEF TxClear, CO_CANerrorClearListenOnly
    <3>2. CASE listenOnly /\ stampAge > LISTEN_ONLY_RETRY
      BY <3>1, <3>2 DEF Recovery!AbsNext, Recovery!LeaveAfterDwell
    <3>3. CASE listenOnly /\ ~(stampAge > LISTEN_ONLY_RETRY)
      <4>1. stampAge <= LISTEN_ONLY_RETRY
        BY <3>3 DEF TInv, TypeOK
      <4> QED BY <2>3, <3>3, <4>1
    <3>4. CASE ~listenOnly
      <4>1. stampAge = AgeCap
        BY <3>4 DEF TInv, QuietClock
      <4> QED BY <3>1, <3>4, <4>1
    <3> QED BY <3>2, <3>3, <3>4
  <2> QED BY <2>1, <2>2, <2>3 DEF ThreadsNext
<1> QED BY TInvInit, TInvStep, <1>1, PTL DEF ThreadsSpec

=============================================================================
