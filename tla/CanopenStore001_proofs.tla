------------------------- MODULE CanopenStore001_proofs -------------------------
(***************************************************************************)
(* Proofs about the parameter store of part_001 (CanopenStore001), for     *)
(* every UID, set of serial numbers and storage behaviour, faults          *)
(* included.                                                               *)
(***************************************************************************)
EXTENDS CanopenStore001, TLAPS

(* part_001 never gets a serial number: OD_serialNumber stays invalid and  *)
(* holds the UID it started with, the identity 0x1018:4 is the UID, and    *)
(* the storage holds no serial group or an invalid one with the UID.       *)
SerialNeverSet001 ==
  /\ ~serialValid /\ serial = UID /\ identity = UID
  /\ nvmSerial \in {ABSENT, [valid |-> FALSE, serial |-> UID]}

(* A new device has no serial number.                                      *)
LEMMA NeverSetInit == Init => SerialNeverSet001
BY DEF Init, SerialNeverSet001

(* Every callback, restart and parameter write of part_001 keeps           *)
(* SerialNeverSet001.                                                      *)
LEMMA NeverSetStep == SerialNeverSet001 /\ [Next001]_vars => SerialNeverSet001'
<1> SUFFICES ASSUME SerialNeverSet001, [Next001]_vars PROVE SerialNeverSet001'
  OBVIOUS
<1>1. ASSUME NEW sub \in StoreSubs, NEW s \in SignatureArg,
             StoreParameters001(sub, s)
      PROVE  SerialNeverSet001'
  <2>1. UNCHANGED <<serialValid, serial, identity>>
    BY <1>1 DEF StoreParameters001
  <2>2. nvmSerial' = nvmSerial
        \/ nvmSerial' = [valid |-> serialValid, serial |-> serial]
    BY <1>1 DEF StoreParameters001
  <2> QED BY <2>1, <2>2 DEF SerialNeverSet001
<1>2. ASSUME NEW sub \in RestoreSubs, NEW s \in SignatureArg,
             RestoreDefaultParameters001(sub, s)
      PROVE  SerialNeverSet001'
  BY <1>2 DEF RestoreDefaultParameters001, SerialNeverSet001
<1>3. ASSUME NEW sub \in SerialSubs, NEW v \in Serials,
             SerialNumberCallback001(sub, v)
      PROVE  SerialNeverSet001'
  BY <1>3 DEF SerialNumberCallback001, SerialNeverSet001
<1>4. ASSUME NEW STATE validBefore, ~validBefore, NEW STATE ramBefore,
             NEW failed, NEW nidZero, NEW saved,
             InitStore001(ramBefore, validBefore, failed, nidZero, saved),
             UNCHANGED nvmSerial
      PROVE  SerialNeverSet001'
  <2> DEFINE serialOk == nvmSerial # ABSENT /\ "SERIAL" \notin failed
  <2>1. /\ serialValid' = (IF serialOk THEN nvmSerial.valid ELSE validBefore)
        /\ serial' = (IF serialOk THEN nvmSerial.serial ELSE serial)
        /\ identity' = UID
    BY <1>4 DEF InitStore001, OdSetDefaults001
  <2>2. serialOk => nvmSerial = [valid |-> FALSE, serial |-> UID]
    BY DEF SerialNeverSet001
  <2> QED BY <1>4, <2>1, <2>2 DEF SerialNeverSet001
<1>5. CASE CommReset001
  <2>1. PICK failed \in LoadFailures, nidZero \in BOOLEAN, saved \in SaveOutcomes :
               InitStore001(ram, serialValid, failed, nidZero, saved)
    BY <1>5 DEF CommReset001
  <2>2. ~serialValid /\ UNCHANGED nvmSerial
    BY <1>5 DEF CommReset001, SerialNeverSet001
  <2> QED BY <2>1, <2>2, <1>4
<1>6. CASE PowerOn001
  <2>1. PICK failed \in LoadFailures, nidZero \in BOOLEAN, saved \in SaveOutcomes :
               InitStore001([g \in DataGroups |-> "DEF"], FALSE, failed, nidZero, saved)
    BY <1>6 DEF PowerOn001
  <2>2. UNCHANGED nvmSerial
    BY <1>6 DEF PowerOn001
  <2> QED BY <2>1, <2>2, <1>4
<1>7. ASSUME NEW g \in {"PARAMS", "TEST", "CALIB"}, ParamWrite(g)
      PROVE  SerialNeverSet001'
  BY <1>7 DEF ParamWrite, SerialNeverSet001
<1>8. CASE UNCHANGED vars
  BY <1>8 DEF vars, SerialNeverSet001
<1> QED BY <1>1, <1>2, <1>3, <1>5, <1>6, <1>7, <1>8 DEF Next001

(* part_001 can never be given a serial number, whatever the storage does: *)
(* serial_number_callback takes valid from a non-null pointer and refuses  *)
(* every write, store subindex 5 saves the invalid group it has, and init  *)
(* only loads that group back.  So the device reports its UID as 0x1018:4  *)
(* for its whole life; the run CanopenStore001_serial shows the refused    *)
(* write this rests on.                                                    *)
THEOREM SerialNeverSet001Holds == Spec001 => []SerialNeverSet001
BY NeverSetInit, NeverSetStep, PTL DEF Spec001

=============================================================================
