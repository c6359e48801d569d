---------------------------- MODULE CanopenStore001 ----------------------------
(***************************************************************************)
(* The parameter store of the older revision of the Canopen class          *)
(* (src/unnamed/part_001), over the state of CanopenStore.  It differs in  *)
(* four places:                                                            *)
(*  - store_parameters_callback accepts subindex 0, answers INVALID_VALUE  *)
(*    for refused subindexes, and stores the serial number without         *)
(*    marking it valid or copying it into the identity;                    *)
(*  - restore_default_parameters_callback accepts subindex 0;              *)
(*  - serial_number_callback takes valid from the ODdataStorage pointer;   *)
(*  - init loads the groups itself and never copies the serial number into *)
(*    the identity; od_set_defaults leaves OD_serialNumber alone.          *)
(***************************************************************************)
EXTENDS CanopenStore

(* store_parameters_callback, part_001 lines 123-206.                      *)
StoreParameters001(sub, signature) ==
  \/ /\ sub = 0
     /\ sdo' = "NONE"
     /\ UNCHANGED <<ram, serialValid, serial, identity, nvm, nvmSerial>>
  \/ /\ sub \in {2, 4}
     /\ sdo' = "INVALID_VALUE"
     /\ UNCHANGED <<ram, serialValid, serial, identity, nvm, nvmSerial>>
  \/ /\ sub \notin {0, 2, 4}
     /\ signature # SIGNATURE_SAVE
     /\ sdo' = "DATA_TRANSF"
     /\ UNCHANGED <<ram, serialValid, serial, identity, nvm, nvmSerial>>
  \/ /\ sub \notin {0, 2, 4}
     /\ signature = SIGNATURE_SAVE
     /\ \/ /\ sub = 1
           /\ \E n \in IF SaveFaults THEN 0..3 ELSE {3} :
                /\ SaveFirst(n, SaveAllOrder)
                /\ sdo' = IF n = 3 THEN "NONE" ELSE "HW"
           /\ UNCHANGED <<ram, serialValid, serial, identity, nvmSerial>>
        \/ /\ sub \in {3, 6, 7}
           /\ \E ok \in SaveOutcomes :
                /\ SaveFirst(IF ok THEN 1 ELSE 0, <<StoreGroupOf[sub]>>)
                /\ sdo' = IF ok THEN "NONE" ELSE "HW"
           /\ UNCHANGED <<ram, serialValid, serial, identity, nvmSerial>>
        \/ /\ sub = 5
           /\ serialValid
           /\ sdo' = "INVALID_VALUE"
           /\ UNCHANGED <<ram, serialValid, serial, identity, nvm, nvmSerial>>
        \/ /\ sub = 5
           /\ ~serialValid
           /\ \E ok \in SaveOutcomes :
                /\ nvmSerial' = IF ok THEN [valid |-> serialValid, serial |-> serial]
                                ELSE nvmSerial
                /\ sdo' = IF ok THEN "NONE" ELSE "HW"
           /\ UNCHANGED <<ram, serialValid, serial, identity, nvm>>
        \/ /\ sub \notin 1..7
           /\ sdo' = "SUB_UNKNOWN"
           /\ UNCHANGED <<ram, serialValid, serial, identity, nvm, nvmSerial>>

(* restore_default_parameters_callback, part_001 lines 208-247.            *)
RestoreDefaultParameters001(sub, signature) ==
  /\ \/ /\ sub = 0
        /\ sdo' = "NONE"
        /\ UNCHANGED nvm
     \/ /\ sub \in {1, 3}
        /\ signature = SIGNATURE_LOAD
        /\ nvm' = [nvm EXCEPT !["PARAMS"] = ABSENT]
        /\ sdo' = "NONE"
     \/ /\ sub \in {1, 3}
        /\ signature # SIGNATURE_LOAD
        /\ sdo' = "DATA_TRANSF"
        /\ UNCHANGED nvm
     \/ /\ sub \in 2..7 \ {3}
        /\ sdo' = "INVALID_VALUE"
        /\ UNCHANGED nvm
     \/ /\ sub \notin 0..7
        /\ sdo' = "SUB_UNKNOWN"
        /\ UNCHANGED nvm
  /\ UNCHANGED <<ram, serialValid, serial, identity, nvmSerial>>

(* serial_number_callback, part_001: valid is                              *)
(* static_cast<bool>(p_odf_arg->ODdataStorage), a pointer into the         *)
(* dictionary, so it is TRUE whatever OD_serialNumber.valid holds:         *)
(* subindexes 1 and 2 are always read-only.                                *)
SerialNumberCallback001(sub, v) ==
  /\ \/ sub = 0 /\ sdo' = "NONE"
     \/ sub \in {1, 2} /\ sdo' = "READONLY"
  /\ UNCHANGED <<ram, serialValid, serial, identity, nvm, nvmSerial>>

(* od_set_defaults, part_001: the identity becomes the UID and            *)
(* OD_CANNodeID 0; OD_serialNumber is not touched.                         *)
OdSetDefaults001(ramBefore) ==
  [ram |-> [ramBefore EXCEPT !["COMMUNICATION"] = "DEF"], identity |-> UID]

(* The storage part of Canopen::init, part_001: od_set_defaults (identity  *)
(* becomes the UID, OD_CANNodeID 0), then the loads of PARAMS and RUNTIME, *)
(* the powerOnCounter increment saved to RUNTIME, the loads of SERIAL,     *)
(* TEST and CALIB, and of COMMUNICATION when init was called with nid 0.  *)
(* The serial number is never copied into the identity.                    *)
InitStore001(ramBefore, validBefore, failed, nidZero, saved) ==
  LET d == OdSetDefaults001(ramBefore)
      loaded(g) == /\ nvm[g] # ABSENT /\ g \notin failed
                   /\ g = "COMMUNICATION" => nidZero
      serialOk == nvmSerial # ABSENT /\ "SERIAL" \notin failed
  IN /\ ram' = [g \in DataGroups |->
                  IF g = "RUNTIME" THEN "NEW"
                  ELSE IF loaded(g) THEN nvm[g] ELSE d.ram[g]]
     /\ nvm' = IF saved THEN [nvm EXCEPT !["RUNTIME"] = "NEW"] ELSE nvm
     /\ serialValid' = IF serialOk THEN nvmSerial.valid ELSE validBefore
     /\ serial' = IF serialOk THEN nvmSerial.serial ELSE serial
     /\ identity' = d.identity

CommReset001 ==
  /\ \E failed \in LoadFailures, nidZero \in BOOLEAN, saved \in SaveOutcomes :
       InitStore001(ram, serialValid, failed, nidZero, saved)
  /\ sdo' = "NONE"
  /\ UNCHANGED nvmSerial

PowerOn001 ==
  /\ \E failed \in LoadFailures, nidZero \in BOOLEAN, saved \in SaveOutcomes :
       InitStore001([g \in DataGroups |-> "DEF"], FALSE, failed, nidZero, saved)
  /\ sdo' = "NONE"
  /\ UNCHANGED nvmSerial

Next001 ==
  \/ \E sub \in StoreSubs, s \in SignatureArg : StoreParameters001(sub, s)
  \/ \E sub \in RestoreSubs, s \in SignatureArg : RestoreDefaultParameters001(sub, s)
  \/ \E sub \in SerialSubs, v \in Serials : SerialNumberCallback001(sub, v)
  \/ CommReset001
  \/ PowerOn001
  \/ \E g \in {"PARAMS", "TEST", "CALIB"} : ParamWrite(g)

Spec001 == Init /\ [][Next001]_vars

(* Spec 4.4 (one-shot validity fields): a write of the serial number is    *)
(* refused as read-only only once the serial number is valid, so a device  *)
(* that left production without one can be given one.                      *)
SerialWritableWhileInvalid ==
  [][sdo' = "READONLY" => serialValid]_vars

=============================================================================
