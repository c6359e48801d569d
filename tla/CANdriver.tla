------------------------------ MODULE CANdriver ------------------------------
(***************************************************************************)
(* The FreeRTOS CAN driver concatenated into                               *)
(* src/stack/neuberger-socketCAN/CO_error.c (lines 321-704): the receive   *)
(* and transmit buffer tables of CO_CANmodule_t, their initialisation, the *)
(* send path and CO_CANrxWait, which reads one frame and calls the handler *)
(* of the first matching receive slot.                                     *)
(*                                                                         *)
(* A 32-bit CAN identifier word is the set of the positions of its one     *)
(* bits: XOR is then the symmetric difference, AND the intersection, and   *)
(* the flags keep their bit numbers (CAN_EFF_FLAG = bit 31, CAN_RTR_FLAG = *)
(* bit 30, CAN_ERR_FLAG = bit 29).  IdBits are the standard identifier     *)
(* bits the model uses, ExtBits some of the bits only an extended (29-bit) *)
(* identifier has.                                                         *)
(*                                                                         *)
(* The upper stack (CO_CANopenInit, CO_LSSinit) registers slots and sends  *)
(* through the tx buffers; the bus delivers frames into the driver's rx    *)
(* queue.  Both are the environment here.  A handler pointer is            *)
(* represented by the stack generation (number of CO_CANmodule_init calls) *)
(* whose object it belongs to: CO_delete frees those objects.              *)
(***************************************************************************)
EXTENDS Naturals, Sequences

CONSTANTS
  RxSize,     \* CO_CANmodule_t.rxSize
  TxSize,     \* CO_CANmodule_t.txSize
  IdBits,     \* standard identifier bits used, a subset of 0..10
  ExtBits,    \* extended-only identifier bits used, a subset of 11..28
  QueueMax,   \* frames the driver's rx and tx queues hold
  MaxInits    \* CO_CANmodule_init calls (stack generations) explored

ASSUME DriverAssumption ==
  /\ RxSize \in Nat \ {0}
  /\ TxSize \in Nat \ {0}
  /\ IdBits \subseteq 0..10
  /\ ExtBits \subseteq 11..28
  /\ QueueMax \in Nat \ {0}
  /\ MaxInits \in Nat \ {0}

CAN_SFF_MASK == 0..10
CAN_ERR_FLAG == 29
CAN_RTR_FLAG == 30
CAN_EFF_FLAG == 31
NULL == 0                 \* pFunct == NULL; a handler is a generation >= 1

(* The bit positions of an unsigned byte (can_dlc).                        *)
BitsOf8(n) == {i \in 0..7 : (n \div (2 ^ i)) % 2 = 1}

(* The frames the bus delivers: data and remote frames with a standard or  *)
(* an extended identifier, and error frames.                               *)
CanId ==
  {id \in SUBSET (IdBits \cup ExtBits \cup {CAN_ERR_FLAG, CAN_RTR_FLAG, CAN_EFF_FLAG}) :
     /\ id \cap ExtBits # {} => CAN_EFF_FLAG \in id
     /\ CAN_ERR_FLAG \in id => id \cap {CAN_RTR_FLAG, CAN_EFF_FLAG} = {}}
Frame == [can_id : CanId, can_dlc : {8}]

Slots == 1..RxSize
Gens == 0..MaxInits
RxSlot == [ident : SUBSET (CAN_SFF_MASK \cup {CAN_RTR_FLAG}),
           mask : SUBSET (CAN_SFF_MASK \cup {CAN_RTR_FLAG, CAN_EFF_FLAG}),
           pFunct : Gens]

(* Arguments the upper stack passes: an uint16_t identifier (so bit 11 can *)
(* be set), a mask, the rtr flag.                                          *)
IdentArg == SUBSET (IdBits \cup {11})
MaskArg == {{}, IdBits}

VARIABLES
  rxArray,    \* CO_CANmodule_t.rxArray[]: ident, mask, pFunct
  txArray,    \* CO_CANmodule_t.txArray[]: ident, bufferFull
  CANnormal,  \* CO_CANmodule_t.CANnormal
  driver,     \* CO_CANmodule_t.driver != NULL
  gen,        \* number of CO_CANmodule_init calls so far
  rxq,        \* frames waiting in the driver's rx queue
  txq,        \* number of frames waiting in the driver's tx queue
  reported,   \* emergency conditions passed to CO_errorReport
  called      \* the slot whose handler the last CO_CANrxWait called (0: none)

vars == <<rxArray, txArray, CANnormal, driver, gen, rxq, txq, reported, called>>

TypeOK ==
  /\ rxArray \in [Slots -> RxSlot]
  /\ txArray \in [1..TxSize -> [ident : SUBSET (CAN_SFF_MASK \cup {CAN_RTR_FLAG}),
                                bufferFull : BOOLEAN]]
  /\ CANnormal \in BOOLEAN
  /\ driver \in BOOLEAN
  /\ gen \in Gens
  /\ rxq \in Seq(Frame) /\ Len(rxq) <= QueueMax
  /\ txq \in 0..QueueMax
  /\ reported \subseteq {"CO_EM_RXMSG_OVERFLOW", "CO_EM_CAN_TX_OVERFLOW"}
  /\ called \in 0..RxSize

-----------------------------------------------------------------------------
(* rx_id ^ buffer->ident on identifier words as bit sets.                  *)
XorBits(a, b) == (a \ b) \cup (b \ a)

(* The lowest index of a nonempty set of slots.                            *)
FirstSlot(S) == CHOOSE i \in S : \A j \in S : i <= j

(* ((rx_id ^ buffer->ident) & buffer->mask) == 0                           *)
Matches(slot, rx_id) == (XorBits(rx_id, slot.ident) \cap slot.mask) = {}

(* The slot where the scan of CO_CANrxWait stops: the first whose ident    *)
(* and mask match, 0 if none does.                                         *)
ScanStop(table, rx_id) ==
  LET hits == {i \in Slots : Matches(table[i], rx_id)}
  IN IF hits = {} THEN 0 ELSE FirstSlot(hits)

(* The memory CO_new hands to the driver is zeroed (calloc).               *)
Init ==
  /\ rxArray = [i \in Slots |-> [ident |-> {}, mask |-> {}, pFunct |-> NULL]]
  /\ txArray = [i \in 1..TxSize |-> [ident |-> {}, bufferFull |-> FALSE]]
  /\ CANnormal = FALSE
  /\ driver = FALSE
  /\ gen = 0
  /\ rxq = <<>>
  /\ txq = 0
  /\ reported = {}
  /\ called = 0

(* A CO_CANmodule_init that forgets to clear pFunct.                       *)
InitKeepsHandlers ==
  /\ gen < MaxInits
  /\ gen' = gen + 1
  /\ rxArray' = [i \in Slots |-> [rxArray[i] EXCEPT !.ident = {}]]
  /\ txArray' = [i \in 1..TxSize |-> [txArray[i] EXCEPT !.bufferFull = FALSE]]
  /\ CANnormal' = FALSE
  /\ driver' \in IF driver THEN {TRUE} ELSE BOOLEAN
  /\ UNCHANGED <<rxq, txq, reported, called>>

(* CO_CANmodule_init: clear ident and pFunct of every rx slot (the mask is *)
(* left as it is), clear bufferFull of every tx slot, leave normal mode,   *)
(* and create the driver the first time (can_create / can_init may fail,   *)
(* and the call returns an error).                                         *)
CO_CANmodule_init ==
  /\ gen < MaxInits
  /\ gen' = gen + 1
  /\ rxArray' = [i \in Slots |-> [rxArray[i] EXCEPT !.ident = {}, !.pFunct = NULL]]
  /\ txArray' = [i \in 1..TxSize |-> [txArray[i] EXCEPT !.bufferFull = FALSE]]
  /\ CANnormal' = FALSE
  /\ driver' \in IF driver THEN {TRUE} ELSE BOOLEAN
  /\ UNCHANGED <<rxq, txq, reported, called>>

(* CO_CANsetNormalMode: can_flush empties the driver's queues.  The stack  *)
(* calls it only after CO_CANmodule_init has created the driver.           *)
CO_CANsetNormalMode ==
  /\ driver
  /\ CANnormal' = TRUE
  /\ rxq' = <<>>
  /\ txq' = 0
  /\ UNCHANGED <<rxArray, txArray, driver, gen, reported, called>>

(* CO_CANrxBufferInit(index, ident, mask, rtr, object, pFunct): an index   *)
(* past the table returns CO_ERROR_ILLEGAL_ARGUMENT and changes nothing.   *)
CO_CANrxBufferInit(index, ident, mask, rtr) ==
  /\ gen > 0
  /\ index < RxSize + 1
  /\ rxArray' = [rxArray EXCEPT ![index] =
                   [ident |-> (ident \cap CAN_SFF_MASK)
                                \cup (IF rtr THEN {CAN_RTR_FLAG} ELSE {}),
                    mask |-> (mask \cap CAN_SFF_MASK) \cup {CAN_EFF_FLAG, CAN_RTR_FLAG},
                    pFunct |-> gen]]
  /\ UNCHANGED <<txArray, CANnormal, driver, gen, rxq, txq, reported, called>>

(* A CO_CANtxBufferInit that stores the identifier unmasked.               *)
TxInitUnmasked(index, ident, rtr) ==
  /\ gen > 0
  /\ index < TxSize + 1
  /\ txArray' = [txArray EXCEPT ![index].ident =
                   ident \cup (IF rtr THEN {CAN_RTR_FLAG} ELSE {})]
  /\ UNCHANGED <<rxArray, CANnormal, driver, gen, rxq, txq, reported, called>>

(* CO_CANtxBufferInit(index, ident, rtr, noOfBytes, syncFlag)              *)
CO_CANtxBufferInit(index, ident, rtr) ==
  /\ gen > 0
  /\ index < TxSize + 1
  /\ txArray' = [txArray EXCEPT ![index].ident =
                   (ident \cap CAN_SFF_MASK) \cup (IF rtr THEN {CAN_RTR_FLAG} ELSE {})]
  /\ UNCHANGED <<rxArray, CANnormal, driver, gen, rxq, txq, reported, called>>

(* A send that treats the queue as full one frame early.                   *)
CO_CANsendEarlyFull(index) ==
  /\ driver
  /\ IF txq < QueueMax - 1
       THEN /\ txq' = txq + 1
            /\ UNCHANGED reported
       ELSE /\ reported' = reported \cup {"CO_EM_CAN_TX_OVERFLOW"}
            /\ UNCHANGED txq
  /\ UNCHANGED <<rxArray, txArray, CANnormal, driver, gen, rxq, called>>

(* CO_CANsend: can_write of the buffer; when the driver's queue is full    *)
(* the write fails, CO_EM_CAN_TX_OVERFLOW is reported and the call returns *)
(* CO_ERROR_TX_OVERFLOW.  bufferFull is never used.                        *)
CO_CANsend(index) ==
  /\ driver
  /\ IF txq < QueueMax
       THEN /\ txq' = txq + 1
            /\ UNCHANGED reported
       ELSE /\ reported' = reported \cup {"CO_EM_CAN_TX_OVERFLOW"}
            /\ UNCHANGED txq
  /\ UNCHANGED <<rxArray, txArray, CANnormal, driver, gen, rxq, called>>

(* CO_CANrxWait when can_poll and can_read return a frame: drop it if      *)
(* (can_dlc & CAN_EFF_FLAG) != 0 or if it is an error frame; otherwise     *)
(* strip it to its standard identifier, scan the table from slot 1 and     *)
(* stop at the first match; call that slot's handler if it has one.  The   *)
(* two drops return before the scan.                                       *)
CO_CANrxWait ==
  /\ driver
  /\ rxq # <<>>
  /\ rxq' = Tail(rxq)
  /\ LET frame == Head(rxq)
         rx_id == frame.can_id \cap CAN_SFF_MASK
         stop == ScanStop(rxArray, rx_id)
     IN called' = IF /\ CAN_EFF_FLAG \notin BitsOf8(frame.can_dlc)
                             /\ CAN_ERR_FLAG \notin frame.can_id
                             /\ stop # 0
                             /\ rxArray[stop].pFunct # NULL
                  THEN stop ELSE 0
  /\ UNCHANGED <<rxArray, txArray, CANnormal, driver, gen, txq, reported>>

(* CO_CANrxWait when can_poll reports the driver's rx queue overrun:       *)
(* CO_EM_RXMSG_OVERFLOW is reported and CO_ERROR_RX_OVERFLOW returned.     *)
CO_CANrxWaitOverflow ==
  /\ driver
  /\ Len(rxq) = QueueMax
  /\ reported' = reported \cup {"CO_EM_RXMSG_OVERFLOW"}
  /\ UNCHANGED <<rxArray, txArray, CANnormal, driver, gen, rxq, txq, called>>

(* Environment: a frame arrives from the bus.                              *)
BusDelivers(f) ==
  /\ driver
  /\ Len(rxq) < QueueMax
  /\ rxq' = Append(rxq, f)
  /\ UNCHANGED <<rxArray, txArray, CANnormal, driver, gen, txq, reported, called>>

(* Environment: the controller transmits the oldest queued frame.          *)
BusTransmits ==
  /\ txq > 0
  /\ txq' = txq - 1
  /\ UNCHANGED <<rxArray, txArray, CANnormal, driver, gen, rxq, reported, called>>

Next ==
  \/ CO_CANmodule_init
  \/ CO_CANsetNormalMode
  \/ \E i \in 1..RxSize + 1, id \in IdentArg, m \in MaskArg, rtr \in BOOLEAN :
       CO_CANrxBufferInit(i, id, m, rtr)
  \/ \E i \in 1..TxSize + 1, id \in IdentArg, rtr \in BOOLEAN :
       CO_CANtxBufferInit(i, id, rtr)
  \/ \E i \in 1..TxSize : CO_CANsend(i)
  \/ CO_CANrxWait
  \/ CO_CANrxWaitOverflow
  \/ \E f \in Frame : BusDelivers(f)
  \/ BusTransmits

Spec == Init /\ [][Next]_vars


-----------------------------------------------------------------------------
(* Stale handlers: every handler CO_CANrxWait calls was registered with   *)
(* CO_CANrxBufferInit after the latest CO_CANmodule_init, so after a       *)
(* communication reset (CO_delete, CO_new, CO_CANmodule_init) no frame     *)
(* reaches an object of the deleted stack.                                 *)
NoStaleHandler ==
  [][CO_CANrxWait /\ called' # 0 => rxArray[called'].pFunct = gen]_vars

(* Spec 4.1: a frame with an extended identifier that CO_CANrxWait reads   *)
(* is dropped and reaches no handler.                                      *)
ExtendedFramesDropped ==
  [][CO_CANrxWait /\ CAN_EFF_FLAG \in Head(rxq).can_id => called' = 0]_vars

(* The slot the spec says should receive a frame: the first slot that has  *)
(* a handler and whose identifier (including the RTR bit) matches under    *)
(* its mask.                                                               *)
SpecTarget(table, can_id) ==
  LET hits == {i \in Slots : /\ table[i].pFunct # NULL
                             /\ Matches(table[i], can_id \cap (CAN_SFF_MASK \cup {CAN_RTR_FLAG}))}
  IN IF hits = {} THEN 0 ELSE FirstSlot(hits)

(* Spec 3, 4.1 and 8: a standard data frame that CO_CANrxWait reads goes  *)
(* to the first registered slot that matches it; an unregistered slot of   *)
(* the table does not take it away from a registered one.                  *)
FirstRegisteredMatchWins ==
  [][CO_CANrxWait /\ Head(rxq).can_id \cap {CAN_ERR_FLAG, CAN_RTR_FLAG, CAN_EFF_FLAG} = {}
       => called' = SpecTarget(rxArray, Head(rxq).can_id)]_vars


(* CO_CANsend (CO_error.c:553): a frame the stack hands over is either     *)
(* queued in the driver, or dropped because the driver's queue is really   *)
(* full, and then CO_EM_CAN_TX_OVERFLOW is reported; no frame is lost      *)
(* silently and none is refused while the queue has room.                  *)
TxLossReported ==
  [][\A i \in 1..TxSize :
       CO_CANsend(i) =>
         \/ txq' = txq + 1 /\ reported' = reported
         \/ txq = QueueMax /\ txq' = txq /\ "CO_EM_CAN_TX_OVERFLOW" \in reported']_vars

=============================================================================
