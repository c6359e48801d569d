--------------------------- MODULE CANerror_proofs ---------------------------
(***************************************************************************)
(* Proofs about the fault-recovery handler of CO_error.c, for every queue  *)
(* bound QueueMax.                                                         *)
(***************************************************************************)
EXTENDS CANerror, SequenceTheorems, TLAPS

USE QueueMaxAssumption DEF AgeCap, NOACK_LIMIT, LISTEN_ONLY_RETRY

(* Every handler and environment step keeps the fields in their ranges.  *)
LEMMA TypeStep == TypeOK /\ [Next]_vars => TypeOK'
<1> SUFFICES ASSUME TypeOK, [Next]_vars PROVE TypeOK'
  OBVIOUS
<1>1. listenOnly' \in BOOLEAN /\ epoch' \in BOOLEAN
  BY Zenon DEF TypeOK, Next, vars, CO_CANerror_rxMsgError, CO_CANerrorBusoff,
               CO_CANerrorNoack, CO_CANerrorResetIf, CO_CANerror_rxMsg,
               CO_CANerrorClearListenOnly, CO_CANerror_txMsg, Arrive, Tick
<1> DEFINE Rest(s, c, q) ==
             /\ s \in 0..AgeCap /\ c \in 0..NOACK_LIMIT
             /\ q \in Seq(Frame) /\ Len(q) <= QueueMax
<1> SUFFICES Rest(stampAge', noackCounter', rxq')
  BY <1>1, Zenon DEF TypeOK
<1>0. Rest(stampAge, noackCounter, rxq) /\ <<>> \in Seq(Frame)
  BY Zenon, EmptySeq DEF TypeOK
<1>2. CASE CO_CANerror_rxMsgError
  <2>1. rxq # <<>> /\ Head(rxq) \in Frame
    BY <1>2 DEF CO_CANerror_rxMsgError, TypeOK
  <2>2. Tail(rxq) \in Seq(Frame) /\ Len(Tail(rxq)) <= QueueMax
    BY <2>1 DEF TypeOK
  <2>4. CASE CO_CANerrorBusoff(Head(rxq))
    BY <2>4 DEF CO_CANerrorBusoff, CO_CANerrorResetIf, TypeOK
  <2>5. CASE CO_CANerrorNoack(Head(rxq))
    <3>1. \/ rxq' = <<>> /\ stampAge' = 0 /\ noackCounter' = 0
          \/ rxq' = Tail(rxq) /\ stampAge' = stampAge
             /\ noackCounter' \in 0..NOACK_LIMIT
      BY <2>5 DEF CO_CANerrorNoack, CO_CANerrorResetIf, TypeOK
    <3>2. CASE rxq' = <<>> /\ stampAge' = 0 /\ noackCounter' = 0
      <4>1. Len(rxq') = 0
        BY <3>2
      <4>2. QED
        BY <1>0, <3>2, <4>1
    <3>3. CASE rxq' = Tail(rxq) /\ stampAge' = stampAge
               /\ noackCounter' \in 0..NOACK_LIMIT
      BY <1>0, <2>2, <3>3
    <3>4. QED
      BY <3>1, <3>2, <3>3
  <2>6. QED
    BY <1>2, <2>4, <2>5 DEF CO_CANerror_rxMsgError
<1>3. CASE CO_CANerror_rxMsg
  <2>1. rxq # <<>> /\ Head(rxq) \in Frame
    BY <1>3 DEF CO_CANerror_rxMsg, TypeOK
  <2>2. Tail(rxq) \in Seq(Frame) /\ Len(Tail(rxq)) <= QueueMax
    BY <2>1 DEF TypeOK
  <2>4. stampAge' \in 0..AgeCap
    BY <1>3 DEF CO_CANerror_rxMsg, CO_CANerrorClearListenOnly, TypeOK
  <2>5. QED
    BY <1>3, <2>2, <2>4 DEF CO_CANerror_rxMsg, TypeOK
<1>4. CASE CO_CANerror_txMsg
  BY <1>4 DEF CO_CANerror_txMsg, CO_CANerrorClearListenOnly, TypeOK
<1>5. ASSUME NEW k \in FrameKinds, Arrive(k)
      PROVE Rest(stampAge', noackCounter', rxq')
  <2>1. [err |-> k, epoch |-> epoch] \in Frame
    BY Zenon DEF TypeOK, Frame
  <2>2. QED
    BY <1>5, <2>1 DEF Arrive, TypeOK
<1>6. CASE Tick
  BY <1>6 DEF Tick, TypeOK
<1>7. CASE UNCHANGED vars
  BY <1>7 DEF vars, TypeOK
<1>8. QED
  BY <1>2, <1>3, <1>4, <1>5, <1>6, <1>7 DEF Next

(* CO_CANerror_init leaves the fields in their ranges.                    *)
LEMMA TypeInit == Init => TypeOK
<1>1. Init => listenOnly \in BOOLEAN /\ epoch \in BOOLEAN
  BY Zenon DEF Init
<1>2. Init => /\ stampAge \in 0..AgeCap /\ noackCounter \in 0..NOACK_LIMIT
              /\ rxq \in Seq(Frame) /\ Len(rxq) <= QueueMax
  BY DEF Init
<1>3. QED
  BY <1>1, <1>2, Zenon DEF TypeOK

(* The handlers keep every field in its range: in particular the no-ACK    *)
(* counter of CO_CANerrorNoack never exceeds 10 and the socket queue never *)
(* exceeds its bound.                                                      *)
THEOREM TypeCorrect == Spec => []TypeOK
<1> QED BY TypeInit, TypeStep, PTL DEF Spec

(* Taking the head off a queue whose frames all carry epoch e leaves a     *)
(* queue whose frames all carry e.                                         *)
LEMMA TailFresh ==
  ASSUME NEW S, NEW q \in Seq(S), NEW e, q # <<>>,
         \A i \in 1..Len(q) : q[i].epoch = e
  PROVE  \A i \in 1..Len(Tail(q)) : Tail(q)[i].epoch = e
BY HeadTailProperties

(* Appending a frame of the current epoch keeps the queue fresh.           *)
LEMMA AppendFresh ==
  ASSUME NEW S, NEW q \in Seq(S), NEW x \in S, NEW e,
         \A i \in 1..Len(q) : q[i].epoch = e,
         x.epoch = e
  PROVE  \A i \in 1..Len(Append(q, x)) : Append(q, x)[i].epoch = e
BY AppendProperties

(* No frame queued before an interface reset survives it (QueueFresh).     *)
THEOREM QueueFreshInvariant == Spec => []QueueFresh
<1>1. Init => QueueFresh
  BY DEF Init, QueueFresh
<1>2. TypeOK /\ QueueFresh /\ [Next]_vars => QueueFresh'
  <2> SUFFICES ASSUME TypeOK, QueueFresh, [Next]_vars PROVE QueueFresh'
    OBVIOUS
  <2>1. CASE CO_CANerror_rxMsgError
    <3>1. rxq # <<>>
      BY <2>1 DEF CO_CANerror_rxMsgError
    <3>2. \A i \in 1..Len(Tail(rxq)) : Tail(rxq)[i].epoch = epoch
      BY <3>1, TailFresh DEF QueueFresh, TypeOK
    <3>3. CASE CO_CANerrorBusoff(Head(rxq))
      BY <3>3 DEF CO_CANerrorBusoff, CO_CANerrorResetIf, QueueFresh
    <3>4. CASE CO_CANerrorNoack(Head(rxq))
      <4>1. rxq' = <<>> \/ (rxq' = Tail(rxq) /\ epoch' = epoch)
        BY <3>4 DEF CO_CANerrorNoack, CO_CANerrorResetIf
      <4>2. CASE rxq' = <<>>
        BY <4>2 DEF QueueFresh
      <4>3. CASE rxq' = Tail(rxq) /\ epoch' = epoch
        BY <3>2, <4>3 DEF QueueFresh
      <4>4. QED
        BY <4>1, <4>2, <4>3
    <3>5. QED
      BY <2>1, <3>3, <3>4 DEF CO_CANerror_rxMsgError
  <2>2. CASE CO_CANerror_rxMsg
    <3>1. rxq # <<>>
      BY <2>2 DEF CO_CANerror_rxMsg
    <3>2. QED
      BY <2>2, <3>1, TailFresh DEF CO_CANerror_rxMsg, QueueFresh, TypeOK
  <2>3. CASE CO_CANerror_txMsg
    BY <2>3 DEF CO_CANerror_txMsg, QueueFresh
  <2>4. ASSUME NEW k \in FrameKinds, Arrive(k)
        PROVE QueueFresh'
    <3>1. [err |-> k, epoch |-> epoch] \in Frame
      BY Zenon DEF TypeOK, Frame
    <3>2. QED
      BY <2>4, <3>1, AppendFresh DEF Arrive, QueueFresh, TypeOK
  <2>5. CASE Tick
    BY <2>5 DEF Tick, QueueFresh
  <2>6. CASE UNCHANGED vars
    BY <2>6 DEF vars, QueueFresh
  <2>7. QED
    BY <2>1, <2>2, <2>3, <2>4, <2>5, <2>6 DEF Next
<1>3. QED
  BY <1>1, <1>2, TypeCorrect, PTL DEF Spec

-----------------------------------------------------------------------------
(* The refinement to the fault-recovery specification of spec 4.2.        *)

(* The refinement mapping of heard: a data frame waits on the socket.     *)
HeardIn(q) == \E i \in 1..Len(q) : q[i].err = {}

(* Taking an error frame off the queue does not change whether a data     *)
(* frame is waiting.                                                       *)
LEMMA TailHeard ==
  ASSUME NEW q \in Seq(Frame), q # <<>>, Head(q).err # {}
  PROVE  HeardIn(Tail(q)) <=> HeardIn(q)
<1>1. Len(Tail(q)) = Len(q) - 1 /\ Len(q) \in Nat \ {0}
  BY HeadTailProperties
<1>2. \A i \in 1..Len(Tail(q)) : Tail(q)[i] = q[i + 1]
  BY HeadTailProperties
<1>3. ASSUME HeardIn(Tail(q)) PROVE HeardIn(q)
  <2>1. PICK i \in 1..Len(Tail(q)) : Tail(q)[i].err = {}
    BY <1>3 DEF HeardIn
  <2>2. i + 1 \in 1..Len(q) /\ q[i + 1].err = {}
    BY <1>1, <1>2, <2>1
  <2> QED BY <2>2 DEF HeardIn
<1>4. ASSUME HeardIn(q) PROVE HeardIn(Tail(q))
  <2>1. PICK j \in 1..Len(q) : q[j].err = {}
    BY <1>4 DEF HeardIn
  <2>2. j # 1
    BY <2>1
  <2>3. j - 1 \in 1..Len(Tail(q)) /\ Tail(q)[j - 1] = q[j]
    BY <1>1, <1>2, <2>2
  <2> QED BY <2>1, <2>3 DEF HeardIn
<1> QED BY <1>3, <1>4

(* A data frame at the head of the queue is a waiting data frame.         *)
LEMMA HeadHeard ==
  ASSUME NEW q \in Seq(Frame), q # <<>>, Head(q).err = {}
  PROVE  HeardIn(q)
BY DEF HeardIn

(* Appending a frame adds a waiting data frame exactly when it is one.    *)
LEMMA AppendHeard ==
  ASSUME NEW q \in Seq(Frame), NEW x \in Frame
  PROVE  HeardIn(Append(q, x)) <=> (HeardIn(q) \/ x.err = {})
BY AppendProperties DEF HeardIn

(* Every handler and environment step, from a state of the right type, is *)
(* a step of the fault-recovery specification or leaves its state as it   *)
(* is under the refinement mapping.                                        *)
LEMMA StepRefines == TypeOK /\ [Next]_vars => [Recovery!AbsNext]_Recovery!avars
<1> USE DEF Recovery!DWELL, Recovery!DwellCap
<1> SUFFICES ASSUME TypeOK, [Next]_vars
             PROVE  [Recovery!AbsNext]_Recovery!avars
  OBVIOUS
<1> USE DEF Recovery!avars
<1>1. CASE CO_CANerror_rxMsgError
  <2>1. rxq # <<>> /\ Head(rxq) \in Frame /\ Head(rxq).err # {}
    BY <1>1 DEF CO_CANerror_rxMsgError, TypeOK
  <2>2. CASE CO_CANerrorBusoff(Head(rxq))
    <3>1. listenOnly' /\ stampAge' = 0
      BY <2>2 DEF CO_CANerrorBusoff, CO_CANerrorResetIf
    <3> QED BY <3>1, Zenon DEF Recovery!AbsNext, Recovery!EnterListenOnly
  <2>3. CASE CO_CANerrorNoack(Head(rxq))
    <3>1. CASE listenOnly' /\ stampAge' = 0
      BY <3>1, Zenon DEF Recovery!AbsNext, Recovery!EnterListenOnly
    <3>2. CASE rxq' = Tail(rxq) /\ UNCHANGED <<listenOnly, stampAge>>
      <4>1. HeardIn(rxq') <=> HeardIn(rxq)
        BY <2>1, <3>2, TailHeard DEF TypeOK
      <4> QED BY <3>2, <4>1 DEF HeardIn
    <3> QED
      BY <2>3, <3>1, <3>2 DEF CO_CANerrorNoack, CO_CANerrorResetIf
  <2> QED BY <1>1, <2>2, <2>3 DEF CO_CANerror_rxMsgError
<1>2. CASE CO_CANerror_rxMsg
  <2>1. rxq # <<>> /\ Head(rxq).err = {}
    BY <1>2 DEF CO_CANerror_rxMsg
  <2>2. HeardIn(rxq)
    BY <2>1, HeadHeard DEF TypeOK
  <2>3. ~listenOnly' /\ stampAge' \in 0..AgeCap
    BY <1>2 DEF CO_CANerror_rxMsg, CO_CANerrorClearListenOnly, TypeOK
  <2>4. ~listenOnly => stampAge' = stampAge
    BY <1>2 DEF CO_CANerror_rxMsg
  <2> QED
    BY <2>2, <2>3, <2>4 DEF HeardIn, Recovery!AbsNext, Recovery!Receive
<1>3. CASE CO_CANerror_txMsg
  <2>1. listenOnly /\ stampAge > 5 /\ ~listenOnly' /\ stampAge' = AgeCap
        /\ rxq' = rxq
    BY <1>3 DEF CO_CANerror_txMsg, CO_CANerrorClearListenOnly
  <2> QED
    BY <2>1 DEF Recovery!AbsNext, Recovery!LeaveAfterDwell
<1>4. ASSUME NEW k \in FrameKinds, Arrive(k)
      PROVE  [Recovery!AbsNext]_Recovery!avars
  <2>1. [err |-> k, epoch |-> epoch] \in Frame
    BY Zenon DEF TypeOK, Frame
  <2>2. HeardIn(rxq') <=> (HeardIn(rxq) \/ k = {})
    BY <1>4, <2>1, AppendHeard DEF Arrive, TypeOK
  <2>3. UNCHANGED <<listenOnly, stampAge>>
    BY <1>4 DEF Arrive
  <2>4. CASE k = {}
    BY <2>2, <2>3, <2>4 DEF HeardIn, Recovery!AbsNext, Recovery!Hear
  <2>5. CASE k # {}
    BY <2>2, <2>3, <2>5 DEF HeardIn
  <2> QED BY <2>4, <2>5
<1>5. CASE Tick
  BY <1>5 DEF Tick, Recovery!AbsNext, Recovery!AbsTick
<1>6. CASE UNCHANGED vars
  BY <1>6 DEF vars
<1> QED BY <1>1, <1>2, <1>3, <1>4, <1>5, <1>6 DEF Next

(* Under the refinement mapping of CANerror (listenOnly is the mode,      *)
(* stampAge the dwell clock, a queued data frame a frame heard), every     *)
(* step of CO_CANerror_rxMsgError, CO_CANerror_rxMsg, CO_CANerror_txMsg    *)
(* and of the environment is a step of the fault-recovery specification   *)
(* or leaves its state unchanged: the handler leaves listen-only only on a *)
(* received data frame or after the dwell time, and enters it only with a  *)
(* fresh dwell clock.                                                      *)
THEOREM RefinesFaultRecoverySafety ==
  Spec => Recovery!AbsInit /\ [][Recovery!AbsNext]_Recovery!avars
<1> USE DEF Recovery!DWELL, Recovery!DwellCap
<1>1. Init => Recovery!AbsInit
  BY DEF Init, Recovery!AbsInit
<1> QED BY <1>1, StepRefines, TypeCorrect, PTL DEF Spec

=============================================================================
