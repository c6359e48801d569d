--------------------------- MODULE CANdriver_proofs ---------------------------
(***************************************************************************)
(* Proofs about the FreeRTOS driver of CO_error.c (CANdriver), for every   *)
(* table size, identifier bits, queue bound and number of stack            *)
(* generations.                                                            *)
(***************************************************************************)
EXTENDS CANdriver, WellFoundedInduction, TLAPS

USE DriverAssumption DEF NULL, CAN_SFF_MASK, CAN_RTR_FLAG, CAN_EFF_FLAG,
                         CAN_ERR_FLAG

(* A nonempty set of slot numbers has a lowest one, so the scan of         *)
(* CO_CANrxWait always stops at a slot of the table.                       *)
LEMMA LeastSlot ==
  ASSUME NEW S \in SUBSET Nat, S # {}
  PROVE  \E i \in S : \A j \in S : i <= j
<1>1. \E x \in S : \A y \in S : ~(<<y, x>> \in OpToRel(<, Nat))
  BY NatLessThanWellFounded, WFMin
<1>2. PICK x \in S : \A y \in S : ~(<<y, x>> \in OpToRel(<, Nat))
  BY <1>1
<1>3. \A y \in S : ~(y < x)
  BY <1>2 DEF OpToRel
<1> QED BY <1>3

(* ScanStop returns 0 or a slot whose ident and mask match.                *)
LEMMA ScanStopType ==
  ASSUME NEW table, NEW rx_id
  PROVE  \/ ScanStop(table, rx_id) = 0
         \/ /\ ScanStop(table, rx_id) \in Slots
            /\ Matches(table[ScanStop(table, rx_id)], rx_id)
<1> DEFINE hits == {i \in Slots : Matches(table[i], rx_id)}
<1>1. CASE hits = {}
  BY <1>1 DEF ScanStop
<1>2. CASE hits # {}
  <2>0. hits \in SUBSET Nat
    BY DEF Slots
  <2>1. \E i \in hits : \A j \in hits : i <= j
    BY <1>2, <2>0, LeastSlot
  <2>2. FirstSlot(hits) \in hits
    BY <2>1 DEF FirstSlot
  <2> QED BY <1>2, <2>2 DEF ScanStop
<1> QED BY <1>1, <1>2

(* Every handler pointer in the receive table is NULL or belongs to the    *)
(* objects of the current stack generation: CO_CANmodule_init clears all   *)
(* of them and CO_CANrxBufferInit only stores the current one.             *)
HandlersCurrent == \A i \in Slots : rxArray[i].pFunct \in {NULL, gen}

IInv == TypeOK /\ HandlersCurrent

(* The initial state of the calloc'ed tables satisfies IInv.               *)
LEMMA IInvInit == Init => IInv
<1> SUFFICES ASSUME Init PROVE IInv
  OBVIOUS
<1>1. CANnormal \in BOOLEAN /\ driver \in BOOLEAN
  BY Zenon DEF Init
<1>2. txArray \in [1..TxSize -> [ident : SUBSET (CAN_SFF_MASK \cup {CAN_RTR_FLAG}),
                                 bufferFull : BOOLEAN]]
  <2>1. [ident |-> {}, bufferFull |-> FALSE]
          \in [ident : SUBSET (CAN_SFF_MASK \cup {CAN_RTR_FLAG}), bufferFull : BOOLEAN]
    BY Zenon
  <2> QED BY <2>1 DEF Init
<1>3. rxArray \in [Slots -> RxSlot]
  <2>1. [ident |-> {}, mask |-> {}, pFunct |-> NULL] \in RxSlot
    <3>1. NULL \in Gens
      BY DEF Gens
    <3> QED BY <3>1, Zenon DEF RxSlot
  <2> QED BY <2>1 DEF Init
<1>4. /\ gen \in Gens /\ rxq \in Seq(Frame) /\ Len(rxq) <= QueueMax
      /\ txq \in 0..QueueMax /\ called \in 0..RxSize
      /\ reported \subseteq {"CO_EM_RXMSG_OVERFLOW", "CO_EM_CAN_TX_OVERFLOW"}
  BY DEF Init, Gens
<1>5. HandlersCurrent
  BY DEF Init, HandlersCurrent
<1> QED BY <1>1, <1>2, <1>3, <1>4, <1>5 DEF IInv, TypeOK

(* Every operation of the driver and every step of the bus keeps IInv.    *)
LEMMA IInvStep == IInv /\ [Next]_vars => IInv'
<1> SUFFICES ASSUME IInv, [Next]_vars PROVE IInv'
  OBVIOUS
<1> DEFINE TxSlot == [ident : SUBSET (CAN_SFF_MASK \cup {CAN_RTR_FLAG}),
                      bufferFull : BOOLEAN]
           Reports == {"CO_EM_RXMSG_OVERFLOW", "CO_EM_CAN_TX_OVERFLOW"}
<1>0. /\ rxArray \in [Slots -> RxSlot] /\ txArray \in [1..TxSize -> TxSlot]
      /\ CANnormal \in BOOLEAN /\ driver \in BOOLEAN /\ gen \in Gens
      /\ rxq \in Seq(Frame) /\ Len(rxq) <= QueueMax /\ txq \in 0..QueueMax
      /\ reported \subseteq Reports /\ called \in 0..RxSize
      /\ \A i \in Slots : rxArray[i].pFunct \in {NULL, gen}
  BY DEF IInv, TypeOK, HandlersCurrent
<1> HIDE DEF TxSlot, Reports
<1>1. CASE CO_CANmodule_init
  <2>1. gen < MaxInits /\ gen' = gen + 1
    BY <1>1 DEF CO_CANmodule_init
  <2>2. gen' \in Gens
    BY <1>0, <2>1 DEF Gens
  <2>3. ASSUME NEW i \in Slots
        PROVE  /\ [rxArray[i] EXCEPT !.ident = {}, !.pFunct = NULL] \in RxSlot
               /\ [rxArray[i] EXCEPT !.ident = {}, !.pFunct = NULL].pFunct = NULL
    <3>1. rxArray[i] \in RxSlot
      BY <1>0
    <3>2. NULL \in Gens /\ {} \in SUBSET (CAN_SFF_MASK \cup {CAN_RTR_FLAG})
      BY DEF Gens
    <3> QED BY <3>1, <3>2 DEF RxSlot
  <2>4. /\ rxArray' \in [Slots -> RxSlot]
        /\ \A i \in Slots : rxArray'[i].pFunct \in {NULL, gen'}
    <3>1. rxArray' = [i \in Slots |-> [rxArray[i] EXCEPT !.ident = {}, !.pFunct = NULL]]
      BY <1>1 DEF CO_CANmodule_init
    <3> QED BY <3>1, <2>3
  <2>5. ASSUME NEW i \in 1..TxSize
        PROVE  [txArray[i] EXCEPT !.bufferFull = FALSE] \in TxSlot
    <3>1. txArray[i] \in TxSlot
      BY <1>0
    <3> QED BY <3>1 DEF TxSlot
  <2>6. txArray' \in [1..TxSize -> TxSlot]
    BY <1>1, <2>5 DEF CO_CANmodule_init
  <2>7. CANnormal' \in BOOLEAN /\ driver' \in BOOLEAN
    BY <1>1, Zenon DEF CO_CANmodule_init
  <2>8. UNCHANGED <<rxq, txq, reported, called>>
    BY <1>1 DEF CO_CANmodule_init
  <2> QED BY <1>0, <2>2, <2>4, <2>6, <2>7, <2>8
          DEF IInv, TypeOK, HandlersCurrent, TxSlot, Reports
<1>2. CASE CO_CANsetNormalMode
  <2>1. CANnormal' \in BOOLEAN /\ driver' \in BOOLEAN
    BY <1>2, Zenon DEF CO_CANsetNormalMode
  <2>2. rxq' = <<>> /\ txq' = 0
        /\ UNCHANGED <<rxArray, txArray, gen, reported, called>>
    BY <1>2 DEF CO_CANsetNormalMode
  <2>3. rxq' \in Seq(Frame) /\ Len(rxq') <= QueueMax /\ txq' \in 0..QueueMax
    BY <2>2
  <2> QED BY <1>0, <2>1, <2>2, <2>3 DEF IInv, TypeOK, HandlersCurrent, TxSlot, Reports
<1>3. ASSUME NEW i \in 1..RxSize + 1, NEW id \in IdentArg, NEW m \in MaskArg,
             NEW rtr \in BOOLEAN, CO_CANrxBufferInit(i, id, m, rtr)
      PROVE  IInv'
  <2>1. i \in Slots /\ gen > 0
    BY <1>3 DEF CO_CANrxBufferInit, Slots
  <2> DEFINE new == [ident |-> (id \cap CAN_SFF_MASK)
                                 \cup (IF rtr THEN {CAN_RTR_FLAG} ELSE {}),
                     mask |-> (m \cap CAN_SFF_MASK) \cup {CAN_EFF_FLAG, CAN_RTR_FLAG},
                     pFunct |-> gen]
  <2>2. new \in RxSlot
    <3>1. /\ (id \cap CAN_SFF_MASK) \cup (IF rtr THEN {CAN_RTR_FLAG} ELSE {})
               \in SUBSET (CAN_SFF_MASK \cup {CAN_RTR_FLAG})
          /\ (m \cap CAN_SFF_MASK) \cup {CAN_EFF_FLAG, CAN_RTR_FLAG}
               \in SUBSET (CAN_SFF_MASK \cup {CAN_RTR_FLAG, CAN_EFF_FLAG})
          /\ gen \in Gens
      BY <1>0
    <3> QED BY <3>1, Zenon DEF RxSlot
  <2>3. rxArray' = [rxArray EXCEPT ![i] = new]
        /\ UNCHANGED <<txArray, CANnormal, driver, gen, rxq, txq, reported, called>>
    BY <1>3 DEF CO_CANrxBufferInit
  <2>4. rxArray' \in [Slots -> RxSlot]
        /\ \A j \in Slots : rxArray'[j].pFunct \in {NULL, gen}
    BY <1>0, <2>1, <2>2, <2>3
  <2> QED BY <1>0, <2>3, <2>4 DEF IInv, TypeOK, HandlersCurrent, TxSlot, Reports
<1>4. ASSUME NEW i \in 1..TxSize + 1, NEW id \in IdentArg, NEW rtr \in BOOLEAN,
             CO_CANtxBufferInit(i, id, rtr)
      PROVE  IInv'
  <2>1. i \in 1..TxSize
    BY <1>4 DEF CO_CANtxBufferInit
  <2>2. [txArray[i] EXCEPT !.ident = (id \cap CAN_SFF_MASK)
                                     \cup (IF rtr THEN {CAN_RTR_FLAG} ELSE {})]
          \in TxSlot
    <3>1. (id \cap CAN_SFF_MASK) \cup (IF rtr THEN {CAN_RTR_FLAG} ELSE {})
            \in SUBSET (CAN_SFF_MASK \cup {CAN_RTR_FLAG})
      OBVIOUS
    <3>2. txArray[i] \in TxSlot
      BY <1>0, <2>1
    <3> QED BY <3>1, <3>2, Zenon DEF TxSlot
  <2>3. txArray' \in [1..TxSize -> TxSlot]
    BY <1>0, <1>4, <2>1, <2>2 DEF CO_CANtxBufferInit
  <2>4. UNCHANGED <<rxArray, CANnormal, driver, gen, rxq, txq, reported, called>>
    BY <1>4 DEF CO_CANtxBufferInit
  <2> QED BY <1>0, <2>3, <2>4 DEF IInv, TypeOK, HandlersCurrent, TxSlot, Reports
<1>5. ASSUME NEW i \in 1..TxSize, CO_CANsend(i) PROVE IInv'
  <2>0. txq' \in 0..QueueMax /\ reported' \subseteq Reports
    <3>1. CASE txq < QueueMax
      <4>1. txq' = txq + 1 /\ reported' = reported
        BY <1>5, <3>1 DEF CO_CANsend
      <4> QED BY <1>0, <3>1, <4>1
    <3>2. CASE ~(txq < QueueMax)
      <4>1. txq' = txq /\ reported' = reported \cup {"CO_EM_CAN_TX_OVERFLOW"}
        BY <1>5, <3>2 DEF CO_CANsend
      <4> QED BY <1>0, <4>1 DEF Reports
    <3> QED BY <3>1, <3>2
  <2>3. UNCHANGED <<rxArray, txArray, CANnormal, driver, gen, rxq, called>>
    BY <1>5 DEF CO_CANsend
  <2> QED BY <1>0, <2>0, <2>3 DEF IInv, TypeOK, HandlersCurrent, TxSlot, Reports
<1>6. CASE CO_CANrxWait
  <2> DEFINE stop == ScanStop(rxArray, Head(rxq).can_id \cap CAN_SFF_MASK)
  <2>1. rxq # <<>> /\ rxq' = Tail(rxq) /\ (called' = stop \/ called' = 0)
    BY <1>6 DEF CO_CANrxWait
  <2>2. rxq' \in Seq(Frame) /\ Len(rxq') <= QueueMax
    BY <1>0, <2>1
  <2>3. stop \in 0..RxSize
    BY ScanStopType DEF Slots
  <2>4. UNCHANGED <<rxArray, txArray, CANnormal, driver, gen, txq, reported>>
    BY <1>6 DEF CO_CANrxWait
  <2>5. called' \in 0..RxSize
    BY <2>1, <2>3
  <2>6. HandlersCurrent'
    BY <1>0, <2>4 DEF IInv, HandlersCurrent
  <2> QED BY <1>0, <2>2, <2>4, <2>5, <2>6
          DEF IInv, TypeOK, TxSlot, Reports
<1>7. CASE CO_CANrxWaitOverflow
  <2>1. reported' \subseteq Reports
    BY <1>0, <1>7 DEF CO_CANrxWaitOverflow, Reports
  <2>2. UNCHANGED <<rxArray, txArray, CANnormal, driver, gen, rxq, txq, called>>
    BY <1>7 DEF CO_CANrxWaitOverflow
  <2> QED BY <1>0, <2>1, <2>2 DEF IInv, TypeOK, HandlersCurrent, TxSlot, Reports
<1>8. ASSUME NEW f \in Frame, BusDelivers(f) PROVE IInv'
  <2>1. rxq' \in Seq(Frame) /\ Len(rxq') <= QueueMax
    BY <1>0, <1>8 DEF BusDelivers
  <2>2. UNCHANGED <<rxArray, txArray, CANnormal, driver, gen, txq, reported, called>>
    BY <1>8 DEF BusDelivers
  <2> QED BY <1>0, <2>1, <2>2 DEF IInv, TypeOK, HandlersCurrent, TxSlot, Reports
<1>9. CASE BusTransmits
  <2>1. txq' \in 0..QueueMax
    BY <1>0, <1>9 DEF BusTransmits
  <2>2. UNCHANGED <<rxArray, txArray, CANnormal, driver, gen, rxq, reported, called>>
    BY <1>9 DEF BusTransmits
  <2> QED BY <1>0, <2>1, <2>2 DEF IInv, TypeOK, HandlersCurrent, TxSlot, Reports
<1>10. CASE UNCHANGED vars
  BY <1>0, <1>10 DEF vars, IInv, TypeOK, HandlersCurrent, TxSlot, Reports
<1> QED
  <2>1. \/ CO_CANmodule_init \/ CO_CANsetNormalMode
        \/ \E i \in 1..RxSize + 1, id \in IdentArg, m \in MaskArg, rtr \in BOOLEAN :
             CO_CANrxBufferInit(i, id, m, rtr)
        \/ \E i \in 1..TxSize + 1, id \in IdentArg, rtr \in BOOLEAN :
             CO_CANtxBufferInit(i, id, rtr)
        \/ \E i \in 1..TxSize : CO_CANsend(i)
        \/ CO_CANrxWait \/ CO_CANrxWaitOverflow
        \/ \E f \in Frame : BusDelivers(f)
        \/ BusTransmits
        \/ UNCHANGED vars
    BY DEF Next
  <2> QED BY <2>1, <1>1, <1>2, <1>3, <1>4, <1>5, <1>6, <1>7, <1>8, <1>9, <1>10

(* IInv holds in every reachable state.                                    *)
LEMMA IInvHolds == Spec => []IInv
BY IInvInit, IInvStep, PTL DEF Spec

(* The driver keeps its tables, queues and flags within their types for    *)
(* every configuration: in particular the slot CO_CANrxWait calls is       *)
(* always a slot of the table.                                             *)
THEOREM TypeCorrect == Spec => []TypeOK
<1>1. IInv => TypeOK
  BY DEF IInv
<1> QED BY IInvHolds, <1>1, PTL

(* No stale handler, for any number of communication resets: a handler    *)
(* that CO_CANrxWait calls was registered by CO_CANrxBufferInit after the *)
(* latest CO_CANmodule_init, because the init clears every pFunct.         *)
THEOREM NoStaleHandlerHolds == Spec => NoStaleHandler
<1>1. IInv /\ [Next]_vars
        => [CO_CANrxWait /\ called' # 0 => rxArray[called'].pFunct = gen]_vars
  <2> SUFFICES ASSUME IInv, [Next]_vars, CO_CANrxWait, called' # 0
               PROVE  rxArray[called'].pFunct = gen
    OBVIOUS
  <2> DEFINE stop == ScanStop(rxArray, Head(rxq).can_id \cap CAN_SFF_MASK)
  <2>1. called' = stop /\ rxArray[stop].pFunct # NULL
    BY DEF CO_CANrxWait
  <2>2. stop \in Slots
    BY <2>1, ScanStopType
  <2> QED BY <2>1, <2>2 DEF IInv, HandlersCurrent
<1> QED BY IInvHolds, <1>1, PTL DEF Spec, NoStaleHandler

(* CO_CANsend: a frame is queued, or dropped with the overflow reported    *)
(* because the driver queue is full, for every queue bound: the else       *)
(* branch of can_write is only taken at txq = QueueMax.                    *)
THEOREM TxLossReportedHolds == Spec => TxLossReported
<1>1. IInv /\ [Next]_vars
        => [\A i \in 1..TxSize :
              CO_CANsend(i) =>
                \/ txq' = txq + 1 /\ reported' = reported
                \/ txq = QueueMax /\ txq' = txq
                   /\ "CO_EM_CAN_TX_OVERFLOW" \in reported']_vars
  <2> SUFFICES ASSUME IInv, NEW i \in 1..TxSize, CO_CANsend(i)
               PROVE  \/ txq' = txq + 1 /\ reported' = reported
                      \/ txq = QueueMax /\ txq' = txq
                         /\ "CO_EM_CAN_TX_OVERFLOW" \in reported'
    OBVIOUS
  <2>1. txq \in 0..QueueMax
    BY DEF IInv, TypeOK
  <2>2. CASE txq < QueueMax
    BY <2>2 DEF CO_CANsend
  <2>3. CASE ~(txq < QueueMax)
    <3>1. txq = QueueMax
      BY <2>1, <2>3
    <3> QED BY <2>3, <3>1 DEF CO_CANsend
  <2> QED BY <2>2, <2>3
<1> QED BY IInvHolds, <1>1, PTL DEF Spec, TxLossReported


(* ((rx_id ^ ident) & mask) == 0 says that rx_id and ident agree on every  *)
(* bit of the mask.                                                        *)
LEMMA MatchesMasked ==
  ASSUME NEW slot, NEW rx_id
  PROVE  Matches(slot, rx_id) <=> (rx_id \cap slot.mask = slot.ident \cap slot.mask)
BY DEF Matches, XorBits

(* A slot whose mask is zero, as calloc and CO_CANmodule_init leave it,    *)
(* matches every identifier.                                               *)
LEMMA EmptyMaskMatchesAll ==
  ASSUME NEW slot, NEW rx_id, slot.mask = {}
  PROVE  Matches(slot, rx_id)
BY DEF Matches

(* CO_CANrxWait meets spec 3, 4.1 and 8 on every standard data frame for   *)
(* which every matching slot of the table has a handler: it then calls the *)
(* first registered slot that matches.  So the FirstRegisteredMatchWins    *)
(* violation needs a matching unregistered slot (one with a zero mask,     *)
(* EmptyMaskMatchesAll) before the registered one, for every table size.   *)
THEOREM ScanMeetsSpecWhenMatchesRegistered ==
  Spec => [][(/\ CO_CANrxWait
              /\ Head(rxq).can_id \cap {CAN_ERR_FLAG, CAN_RTR_FLAG, CAN_EFF_FLAG} = {}
              /\ \A i \in Slots :
                    Matches(rxArray[i], Head(rxq).can_id \cap CAN_SFF_MASK)
                      => rxArray[i].pFunct # NULL)
             => called' = SpecTarget(rxArray, Head(rxq).can_id)]_vars
<1>1. IInv /\ [Next]_vars
        => [(/\ CO_CANrxWait
             /\ Head(rxq).can_id \cap {CAN_ERR_FLAG, CAN_RTR_FLAG, CAN_EFF_FLAG} = {}
             /\ \A i \in Slots :
                   Matches(rxArray[i], Head(rxq).can_id \cap CAN_SFF_MASK)
                     => rxArray[i].pFunct # NULL)
            => called' = SpecTarget(rxArray, Head(rxq).can_id)]_vars
  <2> SUFFICES ASSUME IInv, CO_CANrxWait,
                      Head(rxq).can_id \cap {CAN_ERR_FLAG, CAN_RTR_FLAG, CAN_EFF_FLAG} = {},
                      \A i \in Slots :
                        Matches(rxArray[i], Head(rxq).can_id \cap CAN_SFF_MASK)
                          => rxArray[i].pFunct # NULL
               PROVE  called' = SpecTarget(rxArray, Head(rxq).can_id)
    OBVIOUS
  <2> DEFINE frame == Head(rxq)
             rx_id == frame.can_id \cap CAN_SFF_MASK
             stop == ScanStop(rxArray, rx_id)
             codeHits == {i \in Slots : Matches(rxArray[i], rx_id)}
             specHits == {i \in Slots : /\ rxArray[i].pFunct # NULL
                                        /\ Matches(rxArray[i],
                                             frame.can_id \cap (CAN_SFF_MASK \cup {CAN_RTR_FLAG}))}
  <2>1. frame \in Frame
    <3>1. rxq \in Seq(Frame) /\ rxq # <<>>
      BY DEF IInv, TypeOK, CO_CANrxWait
    <3> QED BY <3>1
  <2>2. CAN_EFF_FLAG \notin BitsOf8(frame.can_dlc) /\ CAN_ERR_FLAG \notin frame.can_id
    BY <2>1 DEF Frame, BitsOf8
  <2>3. frame.can_id \cap (CAN_SFF_MASK \cup {CAN_RTR_FLAG}) = rx_id
    OBVIOUS
  <2>4. specHits = codeHits
    BY <2>3
  <2>5. SpecTarget(rxArray, frame.can_id) = stop
    BY <2>4 DEF SpecTarget, ScanStop
  <2>6. called' = IF stop # 0 /\ rxArray[stop].pFunct # NULL THEN stop ELSE 0
    BY <2>2 DEF CO_CANrxWait
  <2>7. stop # 0 => rxArray[stop].pFunct # NULL
    BY ScanStopType
  <2> QED BY <2>5, <2>6, <2>7
<1> QED BY IInvHolds, <1>1, PTL DEF Spec

=============================================================================
