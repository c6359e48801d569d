-------------------------- MODULE CanopenStore_proofs --------------------------
(***************************************************************************)
(* Proofs about the parameter store of part_000 (CanopenStore).            *)
(***************************************************************************)
EXTENDS CanopenStore, TLAPS

(* With no load failures od_load_start reads back every group it holds.   *)
LEMMA NoLoadFailures ==
  ASSUME ~LoadFaults PROVE LoadFailures = {{}}
BY DEF LoadFailures

(* The remainder of a division lies below the divisor.                     *)
LEMMA ModRange ==
  ASSUME NEW s \in Nat, NEW d \in Nat, d > 0 PROVE s % d \in 0..(d - 1)
BY SMT

(* The divisor of the identity computation is a positive number.          *)
LEMMA SerialDigitsPositive == SERIAL_DIGITS \in Nat /\ SERIAL_DIGITS > 0
BY SMT DEF SERIAL_DIGITS

(* A serial number cut to eight digits is an identity.                     *)
LEMMA SerialDigits ==
  ASSUME NEW s \in SerialVal PROVE s % SERIAL_DIGITS \in 0..(SERIAL_DIGITS - 1)
<1>1. s \in Nat
  BY StoreAssumption DEF SerialVal
<1> QED BY <1>1, ModRange, SerialDigitsPositive

(* A new device's store is well typed.                                    *)
LEMMA TypeInit == Init => TypeOK
<1> SUFFICES ASSUME Init PROVE TypeOK
  OBVIOUS
<1>1. ram \in [DataGroups -> Val] /\ nvm \in [DataGroups -> Val \cup {ABSENT}]
  BY DEF Init, Val
<1>2. serial \in SerialVal /\ identity = UID
  BY DEF Init, SerialVal
<1>3. serialValid \in BOOLEAN /\ nvmSerial \in SerialRec \cup {ABSENT} /\ sdo \in Aborts
  BY DEF Init, Aborts
<1> QED BY <1>1, <1>2, <1>3, Zenon DEF TypeOK

(* Every step of the store keeps TypeOK.                                   *)
LEMMA TypeStep == TypeOK /\ [Next]_vars => TypeOK'
<1> SUFFICES ASSUME TypeOK, [Next]_vars PROVE TypeOK'
  OBVIOUS
<1>1. ASSUME NEW sub \in StoreSubs, NEW s \in SignatureArg,
             StoreParameters(sub, s)
      PROVE TypeOK'
  <2>1. CASE StoreSerial
    <3>1. CASE serialValid
      BY <2>1, <3>1, SMT DEF StoreSerial, TypeOK, Aborts
    <3>2. CASE ~serialValid
      <4>1. serial % SERIAL_DIGITS \in 0..(SERIAL_DIGITS - 1)
        BY SerialDigits DEF TypeOK
      <4>2. [valid |-> TRUE, serial |-> serial] \in SerialRec
        BY DEF TypeOK, SerialRec
      <4>3. PICK ok \in SaveOutcomes :
              /\ nvmSerial' = IF ok THEN [valid |-> TRUE, serial |-> serial]
                               ELSE nvmSerial
              /\ sdo' = IF ok THEN "NONE" ELSE "HW"
        BY <2>1, <3>2, Zenon DEF StoreSerial
      <4>4. nvmSerial' \in SerialRec \cup {ABSENT} /\ sdo' \in Aborts
        BY <4>2, <4>3, Zenon DEF TypeOK, Aborts
      <4>5. identity' = serial % SERIAL_DIGITS /\ serialValid' = TRUE
            /\ UNCHANGED <<ram, serial, nvm>>
        BY <2>1, <3>2, Zenon DEF StoreSerial
      <4> QED
        BY <4>1, <4>4, <4>5, Zenon DEF TypeOK
    <3> QED BY <3>1, <3>2
  <2>2. CASE ~StoreSerial
    BY <1>1, <2>2, SMT DEF StoreParameters, SaveFirst, TypeOK, Aborts, SaveAllOrder,
                   StoreGroupOf
  <2> QED BY <2>1, <2>2
<1>2. ASSUME NEW sub \in RestoreSubs, NEW s \in SignatureArg,
             RestoreDefaultParameters(sub, s)
      PROVE TypeOK'
  BY <1>2, SMT DEF RestoreDefaultParameters, TypeOK, Aborts
<1>3. ASSUME NEW sub \in SerialSubs, NEW v \in Serials,
             SerialNumberCallback(sub, v)
      PROVE TypeOK'
  BY <1>3, SMT DEF SerialNumberCallback, TypeOK, Aborts, SerialVal
<1>4. ASSUME NEW d, NEW vb \in BOOLEAN, NEW failed,
             d.ram \in [DataGroups -> Val], d.serial = UID, d.identity = UID,
             OdLoadStart(d, vb, failed), sdo' = "NONE",
             UNCHANGED <<nvm, nvmSerial>>
      PROVE TypeOK'
  <2>1. CASE nvmSerial # ABSENT /\ "SERIAL" \notin failed
    <3>1. nvmSerial \in SerialRec
      BY <2>1, SMT DEF TypeOK
    <3>2. nvmSerial.serial % SERIAL_DIGITS \in 0..(SERIAL_DIGITS - 1)
      BY <3>1, SerialDigits, SMT DEF SerialRec
    <3> QED
      BY <1>4, <2>1, <3>1, <3>2, SMT DEF OdLoadStart, TypeOK, SerialRec, Aborts, SerialVal
  <2>2. CASE ~(nvmSerial # ABSENT /\ "SERIAL" \notin failed)
    BY <1>4, <2>2, SMT DEF OdLoadStart, TypeOK, Aborts, SerialVal
  <2> QED BY <2>1, <2>2
<1>5. CASE CommReset
  <2>1. PICK failed \in LoadFailures :
              OdLoadStart(OdSetDefaults(ram), serialValid, failed)
    BY <1>5, SMT DEF CommReset
  <2> QED
    BY <1>5, <2>1, <1>4, SMT DEF CommReset, OdSetDefaults, TypeOK, Val
<1>6. CASE PowerOn
  <2> DEFINE d == OdSetDefaults([g \in DataGroups |-> "DEF"])
  <2>1. PICK failed \in LoadFailures : OdLoadStart(d, FALSE, failed)
    BY <1>6, Zenon DEF PowerOn
  <2>2. d.ram \in [DataGroups -> Val] /\ d.serial = UID /\ d.identity = UID
    BY DEF OdSetDefaults, Val
  <2>3. sdo' = "NONE" /\ UNCHANGED <<nvm, nvmSerial>>
    BY <1>6, Zenon DEF PowerOn
  <2> QED
    BY <2>1, <2>2, <2>3, <1>4
<1>7. ASSUME NEW g \in {"PARAMS", "TEST", "CALIB"}, ParamWrite(g)
      PROVE TypeOK'
  BY <1>7, SMT DEF ParamWrite, TypeOK, Val, DataGroups, Aborts
<1>8. CASE UNCHANGED vars
  BY <1>8, SMT DEF vars, TypeOK
<1> QED
  BY <1>1, <1>2, <1>3, <1>5, <1>6, <1>7, <1>8, SMT DEF Next

(* Every callback, restart and parameter write keeps the store's state    *)
(* within its types, whatever the storage does: the identity is the UID    *)
(* or eight digits, and RAM only ever receives DEF or NEW from storage.    *)
THEOREM TypeCorrect == Spec => []TypeOK
BY TypeInit, TypeStep, PTL DEF Spec

-----------------------------------------------------------------------------
(* With a storage that neither fails to save nor to load, the serial      *)
(* number is marked valid in RAM exactly when the storage holds it, and    *)
(* what it holds is valid and equal to RAM: store subindex 5 is the only   *)
(* writer of the group and every start reads it back.                      *)
SerialInv ==
  /\ serialValid <=> nvmSerial # ABSENT
  /\ nvmSerial # ABSENT => nvmSerial = [valid |-> TRUE, serial |-> serial]
  /\ SerialIdentityConsistent

IInv == TypeOK /\ SerialInv

(* A new device holds no serial number and has none marked valid.          *)
LEMMA SerialInvInit == Init => SerialInv
BY Zenon DEF Init, SerialInv, SerialIdentityConsistent

(* od_load_start with nothing failing, from a state where the serial      *)
(* number RAM had before (validBefore) is valid only if it is stored.      *)
LEMMA LoadKeepsSerialInv ==
  ASSUME IInv, TypeOK', NEW d, NEW vb \in BOOLEAN,
         vb => nvmSerial # ABSENT,
         OdLoadStart(d, vb, {}), UNCHANGED nvmSerial
  PROVE  SerialInv'
<1>1. CASE nvmSerial # ABSENT
  <2>1. nvmSerial = [valid |-> TRUE, serial |-> serial]
    BY <1>1, Zenon DEF IInv, SerialInv
  <2>2. serialValid' = TRUE /\ serial' = serial
        /\ identity' = serial % SERIAL_DIGITS
    BY <1>1, <2>1, Zenon DEF OdLoadStart
  <2> QED
    BY <1>1, <2>1, <2>2, Zenon DEF SerialInv, SerialIdentityConsistent
<1>2. CASE nvmSerial = ABSENT
  <2>1. serialValid' = vb /\ vb = FALSE
    BY <1>2, Zenon DEF OdLoadStart
  <2> QED
    BY <1>2, <2>1, Zenon DEF SerialInv, SerialIdentityConsistent
<1> QED BY <1>1, <1>2

(* Every step keeps SerialInv when the storage does not fail.              *)
LEMMA SerialInvStep ==
  ASSUME ~SaveFaults, ~LoadFaults, IInv, [Next]_vars
  PROVE  SerialInv'
<1>0. TypeOK'
  BY TypeStep DEF IInv
<1>1. ASSUME NEW sub \in StoreSubs, NEW s \in SignatureArg,
             StoreParameters(sub, s)
      PROVE SerialInv'
  <2>1. CASE sub = 5 /\ s = SIGNATURE_SAVE /\ ~serialValid
    <3>0. sub \notin {2, 4} /\ sub # 1 /\ sub \notin {3, 6, 7} /\ sub \in 1..7
      BY <2>1
    <3>1. StoreSerial
      BY <1>1, <2>1, <3>0, Zenon DEF StoreParameters
    <3>2. PICK ok \in SaveOutcomes :
            nvmSerial' = IF ok THEN [valid |-> TRUE, serial |-> serial] ELSE nvmSerial
      BY <2>1, <3>1, Zenon DEF StoreSerial
    <3>3. ok = TRUE
      BY <3>2, Zenon DEF SaveOutcomes
    <3>4. nvmSerial' = [valid |-> TRUE, serial |-> serial]
          /\ serialValid' = TRUE /\ serial' = serial
          /\ identity' = serial % SERIAL_DIGITS
      BY <2>1, <3>1, <3>2, <3>3, Zenon DEF StoreSerial
    <3>5. [valid |-> TRUE, serial |-> serial] # ABSENT
      <4>1. serial \in Serials \cup {UID}
        BY DEF IInv, TypeOK, SerialVal
      <4>2. [valid |-> TRUE, serial |-> serial] \in [valid : BOOLEAN, serial : Serials \cup {UID}]
        BY <4>1
      <4> QED BY <4>2, StoreAssumption, Zenon
    <3> QED
      BY <3>4, <3>5, Zenon DEF SerialInv, SerialIdentityConsistent
  <2>2. CASE ~(sub = 5 /\ s = SIGNATURE_SAVE /\ ~serialValid)
    <3>1. UNCHANGED <<serialValid, serial, identity, nvmSerial>>
      BY <1>1, <2>2, Zenon DEF StoreParameters, StoreSerial
    <3> QED
      BY <3>1, Zenon DEF IInv, SerialInv, SerialIdentityConsistent
  <2> QED BY <2>1, <2>2
<1>2. ASSUME NEW sub \in RestoreSubs, NEW s \in SignatureArg,
             RestoreDefaultParameters(sub, s)
      PROVE SerialInv'
  BY <1>2, Zenon DEF RestoreDefaultParameters, IInv, SerialInv,
                     SerialIdentityConsistent
<1>3. ASSUME NEW sub \in SerialSubs, NEW v \in Serials,
             SerialNumberCallback(sub, v)
      PROVE SerialInv'
  <2>1. UNCHANGED <<serialValid, identity, nvmSerial>>
    BY <1>3 DEF SerialNumberCallback
  <2>2. serialValid => UNCHANGED serial
    BY <1>3 DEF SerialNumberCallback
  <2> QED
    BY <2>1, <2>2, Zenon DEF IInv, SerialInv, SerialIdentityConsistent
<1>4. CASE CommReset
  <2>1. PICK failed \in LoadFailures :
             /\ OdLoadStart(OdSetDefaults(ram), serialValid, failed)
             /\ UNCHANGED <<nvm, nvmSerial>>
    BY <1>4, Zenon DEF CommReset
  <2>2. failed = {}
    BY <2>1, NoLoadFailures
  <2>3. serialValid \in BOOLEAN /\ (serialValid => nvmSerial # ABSENT)
    BY Zenon DEF IInv, TypeOK, SerialInv
  <2> QED
    BY <1>0, <2>1, <2>2, <2>3, LoadKeepsSerialInv
<1>5. CASE PowerOn
  <2>1. PICK failed \in LoadFailures :
             /\ OdLoadStart(OdSetDefaults([g \in DataGroups |-> "DEF"]), FALSE, failed)
             /\ UNCHANGED <<nvm, nvmSerial>>
    BY <1>5, Zenon DEF PowerOn
  <2>2. failed = {}
    BY <2>1, NoLoadFailures
  <2> QED
    BY <1>0, <2>1, <2>2, LoadKeepsSerialInv
<1>6. ASSUME NEW g \in {"PARAMS", "TEST", "CALIB"}, ParamWrite(g)
      PROVE SerialInv'
  BY <1>6, Zenon DEF ParamWrite, IInv, SerialInv, SerialIdentityConsistent
<1>7. CASE UNCHANGED vars
  BY <1>7, Zenon DEF vars, IInv, SerialInv, SerialIdentityConsistent
<1> QED
  BY <1>1, <1>2, <1>3, <1>4, <1>5, <1>6, <1>7 DEF Next

(* With a reliable storage, a serial number RAM marks valid (which makes   *)
(* store subindex 5 and serial_number_callback refuse a new one) is the    *)
(* one the storage holds as valid, and the identity 0x1018:4 is that       *)
(* serial number without its date prefix, through every store, write and  *)
(* restart.                                                                *)
THEOREM SerialCommittedInvariant ==
  ASSUME ~SaveFaults, ~LoadFaults
  PROVE  Spec => [](SerialCommitted /\ SerialIdentityConsistent)
<1>1. Init => IInv
  BY TypeInit, SerialInvInit DEF IInv
<1>2. IInv /\ [Next]_vars => IInv'
  BY TypeStep, SerialInvStep DEF IInv
<1>3. IInv => SerialCommitted /\ SerialIdentityConsistent
  BY Zenon DEF IInv, SerialInv, SerialCommitted
<1> QED BY <1>1, <1>2, <1>3, PTL DEF Spec

(* With a reliable storage the identity 0x1018:4 equals the valid serial   *)
(* number cut to eight digits in every reachable state: od_load_start      *)
(* redoes the cut after od_set_defaults has put the UID back at every      *)
(* restart.                                                                *)
THEOREM SerialIdentityHolds ==
  ASSUME ~SaveFaults, ~LoadFaults
  PROVE  Spec => []SerialIdentityConsistent
<1>1. (SerialCommitted /\ SerialIdentityConsistent) => SerialIdentityConsistent
  OBVIOUS
<1> QED BY SerialCommittedInvariant, <1>1, PTL

(* Only a store of subindex 5 while the serial number is not valid writes  *)
(* the serial group; with SerialInv that means the storage holds none.     *)
LEMMA SerialGroupWrite ==
  ASSUME IInv, [Next]_vars, nvmSerial # ABSENT
  PROVE  nvmSerial' = nvmSerial
<1>1. serialValid
  BY Zenon DEF IInv, SerialInv
<1>2. ASSUME NEW sub \in StoreSubs, NEW s \in SignatureArg,
             StoreParameters(sub, s)
      PROVE nvmSerial' = nvmSerial
  BY <1>1, <1>2, Zenon DEF StoreParameters, StoreSerial
<1> QED
  BY <1>2, Zenon DEF Next, vars, RestoreDefaultParameters, SerialNumberCallback,
                     CommReset, PowerOn, ParamWrite

(* Spec 4.4 (write-once serial number): with a reliable storage, no store, *)
(* restore, serial-number write or restart changes a valid serial number  *)
(* the storage holds; the guard on OD_serialNumber.valid in store          *)
(* subindex 5 suffices because every start reads the flag back.            *)
THEOREM SerialWriteOnceHolds ==
  ASSUME ~SaveFaults, ~LoadFaults
  PROVE  Spec => SerialWriteOnce
<1>1. Init => IInv
  BY TypeInit, SerialInvInit DEF IInv
<1>2. IInv /\ [Next]_vars => IInv'
  BY TypeStep, SerialInvStep DEF IInv
<1>3. IInv /\ [Next]_vars
        => [nvmSerial # ABSENT /\ nvmSerial.valid => nvmSerial' = nvmSerial]_vars
  BY SerialGroupWrite
<1> QED BY <1>1, <1>2, <1>3, PTL DEF Spec, SerialWriteOnce
=============================================================================
