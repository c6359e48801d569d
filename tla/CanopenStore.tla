----------------------------- MODULE CanopenStore -----------------------------
(***************************************************************************)
(* The parameter store of the Canopen class (src/unnamed/part_000): the    *)
(* object-dictionary callbacks of 0x1010 (store parameters), 0x1011        *)
(* (restore default parameters) and 0x5000 (serial number), and the part  *)
(* of Canopen::init that fills the dictionary, od_set_defaults and         *)
(* od_load_start.                                                          *)
(*                                                                         *)
(* The storage object (Canopen_storage) is not part of the repository: it  *)
(* is the environment here, with the contract of spec 4.4.  A group is     *)
(* saved from RAM or not (SaveFaults), loaded into RAM when present or not *)
(* (LoadFaults: a corrupt or unreadable group), and restore(PARAMS) makes  *)
(* the next load fall back to the defaults.                                *)
(*                                                                         *)
(* Data abstraction: a parameter group other than SERIAL is DEF (the       *)
(* firmware default) or NEW (something else written to it).  The serial   *)
(* group is the record OD_serialNumber {valid, serial}; OD_identity        *)
(* .serialNumber (0x1018:4) is kept as a number because the code computes *)
(* it with % 100000000: it is the UID or a serial number cut to 8 digits.  *)
(***************************************************************************)
EXTENDS Naturals

CONSTANTS
  UID,         \* system_get_uid32(), the processor's 32-bit unique id
  Serials,     \* serial numbers a master writes to 0x5000:2
  SaveFaults,  \* TRUE when storage.save may fail
  LoadFaults,  \* TRUE when storage.load of a present group may fail
  ABSENT       \* a group the storage does not hold

ASSUME StoreAssumption ==
  /\ UID \in Nat
  /\ Serials \subseteq Nat /\ Serials # {}
  /\ SaveFaults \in BOOLEAN /\ LoadFaults \in BOOLEAN
  /\ ABSENT \notin {"DEF", "NEW"}
  /\ ABSENT \notin [valid : BOOLEAN, serial : Serials \cup {UID}]

SIGNATURE_SAVE == 1702257011   \* 0x65766173, "save"
SIGNATURE_LOAD == 1684107116   \* 0x64616F6C, "load"
SERIAL_DIGITS == 100000000     \* serial % 100000000 drops the date prefix

(* Canopen_storage::storage_type_t, SERIAL apart.                          *)
DataGroups == {"COMMUNICATION", "PARAMS", "RUNTIME", "TEST", "CALIB"}
Val == {"DEF", "NEW"}

(* Abort codes of the SDO answer.                                          *)
Aborts == {"NONE", "DATA_TRANSF", "HW", "SUB_UNKNOWN", "READONLY", "INVALID_VALUE"}

(* The values a master sends as signature, and the subindexes it writes.  *)
SignatureArg == {SIGNATURE_SAVE, SIGNATURE_LOAD}
StoreSubs == 0..8
RestoreSubs == 0..8
SerialSubs == 0..2

SaveOutcomes == IF SaveFaults THEN BOOLEAN ELSE {TRUE}

VARIABLES
  ram,          \* the RAM copy of every data group
  serialValid,  \* OD_serialNumber.valid
  serial,       \* OD_serialNumber.serial
  identity,     \* OD_identity.serialNumber
  nvm,          \* what the storage holds for every data group, or ABSENT
  nvmSerial,    \* what the storage holds for SERIAL, or ABSENT
  sdo           \* the abort code of the last answer

vars == <<ram, serialValid, serial, identity, nvm, nvmSerial, sdo>>

SerialVal == Serials \cup {UID}
SerialRec == [valid : BOOLEAN, serial : SerialVal]

TypeOK ==
  /\ ram \in [DataGroups -> Val]
  /\ serialValid \in BOOLEAN
  /\ serial \in SerialVal
  /\ identity = UID \/ identity \in 0..(SERIAL_DIGITS - 1)
  /\ nvm \in [DataGroups -> Val \cup {ABSENT}]
  /\ nvmSerial \in SerialRec \cup {ABSENT}
  /\ sdo \in Aborts

-----------------------------------------------------------------------------
(* A new device: empty storage, the firmware image in RAM, then            *)
(* od_set_defaults and od_load_start with nothing to load.                 *)
Init ==
  /\ ram = [g \in DataGroups |-> "DEF"]
  /\ serialValid = FALSE
  /\ serial = UID
  /\ identity = UID
  /\ nvm = [g \in DataGroups |-> ABSENT]
  /\ nvmSerial = ABSENT
  /\ sdo = "NONE"

(* storage.save of the groups of seq, in order, stopping at the first     *)
(* failure: n groups are saved.                                            *)
SaveFirst(n, seq) ==
  nvm' = [g \in DataGroups |->
            IF \E i \in 1..n : seq[i] = g THEN ram[g] ELSE nvm[g]]

SaveAllOrder == <<"PARAMS", "TEST", "CALIB">>
StoreGroupOf == [s \in {3, 6, 7} |-> IF s = 3 THEN "PARAMS"
                                     ELSE IF s = 6 THEN "TEST" ELSE "CALIB"]

(* Faulty subindex 5 of store_parameters_callback that saves the serial    *)
(* group before marking it valid.                                          *)
StoreSerialSavedFirst ==
  /\ ~serialValid
  /\ identity' = serial % SERIAL_DIGITS
  /\ serialValid' = TRUE
  /\ \E ok \in SaveOutcomes :
       /\ nvmSerial' = IF ok THEN [valid |-> FALSE, serial |-> serial] ELSE nvmSerial
       /\ sdo' = IF ok THEN "NONE" ELSE "HW"
  /\ UNCHANGED <<ram, serial, nvm>>

(* Subindex 5: the serial number can only be stored while it is not valid; *)
(* valid and the identity are set in RAM before storage.save(SERIAL).      *)
StoreSerial ==
  \/ /\ serialValid
     /\ sdo' = "DATA_TRANSF"
     /\ UNCHANGED <<ram, serialValid, serial, identity, nvm, nvmSerial>>
  \/ /\ ~serialValid
     /\ serialValid' = TRUE
     /\ identity' = serial % SERIAL_DIGITS
     /\ \E ok \in SaveOutcomes :
          /\ nvmSerial' = IF ok THEN [valid |-> TRUE, serial |-> serial] ELSE nvmSerial
          /\ sdo' = IF ok THEN "NONE" ELSE "HW"
     /\ UNCHANGED <<ram, serial, nvm>>

(* store_parameters_callback, a write of signature to 0x1010:sub: 2 and 4  *)
(* are refused, then the signature is checked; 1 saves PARAMS, TEST and    *)
(* CALIB in turn, 3, 6 and 7 one group, 5 the serial number.               *)
StoreParameters(sub, signature) ==
  \/ /\ \/ sub \in {2, 4}
        \/ sub \notin {2, 4} /\ signature # SIGNATURE_SAVE
     /\ sdo' = "DATA_TRANSF"
     /\ UNCHANGED <<ram, serialValid, serial, identity, nvm, nvmSerial>>
  \/ /\ signature = SIGNATURE_SAVE
     /\ \/ /\ sub = 1
           /\ \E n \in IF SaveFaults THEN 0..3 ELSE {3} :
                /\ SaveFirst(n, SaveAllOrder)
                /\ sdo' = IF n = 3 THEN "NONE" ELSE "HW"
           /\ UNCHANGED <<ram, serialValid, serial, identity, nvmSerial>>
        \/ /\ sub \in {3, 6, 7}
           /\ \E ok \in SaveOutcomes :
                /\ SaveFirst(IF ok THEN 1 ELSE 0, <<StoreGroupOf[sub]>>)
                /\ sdo' = IF ok THEN "NONE" ELSE "HW"
           /\ UNCHANGED <<ram, serialValid, serial, identity, nvmSerial>>
        \/ sub = 5 /\ StoreSerial
        \/ /\ sub \notin 1..7
           /\ sdo' = "SUB_UNKNOWN"
           /\ UNCHANGED <<ram, serialValid, serial, identity, nvm, nvmSerial>>

(* restore_default_parameters_callback: only 1 and 3 with the "load"       *)
(* signature are accepted, and both schedule the defaults of PARAMS for    *)
(* the next load; RAM is left alone.                                       *)
RestoreDefaultParameters(sub, signature) ==
  /\ \/ /\ sub \in {1, 3}
        /\ signature = SIGNATURE_LOAD
        /\ nvm' = [nvm EXCEPT !["PARAMS"] = ABSENT]
        /\ sdo' = "NONE"
     \/ /\ \/ sub \in {1, 3} /\ signature # SIGNATURE_LOAD
           \/ sub \in 2..7 \ {3}
        /\ sdo' = "DATA_TRANSF"
        /\ UNCHANGED nvm
     \/ /\ sub \notin 1..7
        /\ sdo' = "SUB_UNKNOWN"
        /\ UNCHANGED nvm
  /\ UNCHANGED <<ram, serialValid, serial, identity, nvmSerial>>

(* serial_number_callback and the write it lets through: 0x5000:2 is       *)
(* read-only once the serial number is valid; other subindexes are         *)
(* unknown.                                                                *)
SerialNumberCallback(sub, v) ==
  /\ \/ /\ sub = 2
        /\ ~serialValid
        /\ serial' = v
        /\ sdo' = "NONE"
     \/ /\ sub = 2
        /\ serialValid
        /\ sdo' = "READONLY"
        /\ UNCHANGED serial
     \/ /\ sub # 2
        /\ sdo' = "SUB_UNKNOWN"
        /\ UNCHANGED serial
  /\ UNCHANGED <<ram, serialValid, identity, nvm, nvmSerial>>

(* od_set_defaults: identity and serial number become the processor UID,  *)
(* OD_CANNodeID (COMMUNICATION) becomes 0; the rest of the group RAM and  *)
(* OD_serialNumber.valid are left as they are.                             *)
OdSetDefaults(ramBefore) ==
  [ram |-> [ramBefore EXCEPT !["COMMUNICATION"] = "DEF"],
   identity |-> UID,
   serial |-> UID]

(* A od_load_start that forgets to take the serial number into the        *)
(* identity.                                                               *)
OdLoadStartNoIdentity(d, validBefore, failed) ==
  LET serialOk == nvmSerial # ABSENT /\ "SERIAL" \notin failed
  IN /\ ram' = [g \in DataGroups |->
                  IF nvm[g] # ABSENT /\ g \notin failed THEN nvm[g] ELSE d.ram[g]]
     /\ serialValid' = IF serialOk THEN nvmSerial.valid ELSE validBefore
     /\ serial' = IF serialOk THEN nvmSerial.serial ELSE d.serial
     /\ identity' = d.identity

(* A od_load_start that reads the serial number back but not its valid   *)
(* flag.                                                                   *)
OdLoadStartKeepsValid(d, validBefore, failed) ==
  LET serialOk == nvmSerial # ABSENT /\ "SERIAL" \notin failed
  IN /\ ram' = [g \in DataGroups |->
                  IF nvm[g] # ABSENT /\ g \notin failed THEN nvm[g] ELSE d.ram[g]]
     /\ serialValid' = validBefore
     /\ serial' = IF serialOk THEN nvmSerial.serial ELSE d.serial
     /\ identity' = IF serialOk /\ nvmSerial.valid
                      THEN nvmSerial.serial % SERIAL_DIGITS ELSE d.identity

(* A od_load_start that copies a data group without looking at the       *)
(* result of storage.load.                                                 *)
OdLoadStartUnchecked(d, validBefore, failed) ==
  LET serialOk == nvmSerial # ABSENT /\ "SERIAL" \notin failed
  IN /\ ram' = [g \in DataGroups |-> IF g \notin failed THEN nvm[g] ELSE d.ram[g]]
     /\ serialValid' = IF serialOk THEN nvmSerial.valid ELSE validBefore
     /\ serial' = IF serialOk THEN nvmSerial.serial ELSE d.serial
     /\ identity' = IF serialOk /\ nvmSerial.valid
                      THEN nvmSerial.serial % SERIAL_DIGITS ELSE d.identity

(* od_load_start after od_set_defaults produced d: every group the storage *)
(* holds and reads back (not in failed) replaces its RAM copy; a valid     *)
(* serial number read back becomes the identity, without its date prefix. *)
OdLoadStart(d, validBefore, failed) ==
  LET serialOk == nvmSerial # ABSENT /\ "SERIAL" \notin failed
  IN /\ ram' = [g \in DataGroups |->
                  IF nvm[g] # ABSENT /\ g \notin failed THEN nvm[g] ELSE d.ram[g]]
     /\ serialValid' = IF serialOk THEN nvmSerial.valid ELSE validBefore
     /\ serial' = IF serialOk THEN nvmSerial.serial ELSE d.serial
     /\ identity' = IF serialOk /\ nvmSerial.valid
                      THEN nvmSerial.serial % SERIAL_DIGITS ELSE d.identity

LoadFailures == IF LoadFaults THEN SUBSET (DataGroups \cup {"SERIAL"}) ELSE {{}}

(* Canopen::init after a communication reset (Canopen::process,           *)
(* CO_RESET_COMM): RAM keeps what it had, then od_set_defaults and         *)
(* od_load_start.                                                          *)
CommReset ==
  /\ \E failed \in LoadFailures :
       OdLoadStart(OdSetDefaults(ram), serialValid, failed)
  /\ sdo' = "NONE"
  /\ UNCHANGED <<nvm, nvmSerial>>

(* Power-on (or a reboot requested by CO_RESET_APP): RAM holds the         *)
(* firmware image, where the serial number is not valid, then Canopen::    *)
(* init runs od_set_defaults and od_load_start.                            *)
PowerOn ==
  /\ \E failed \in LoadFailures :
       OdLoadStart(OdSetDefaults([g \in DataGroups |-> "DEF"]), FALSE, failed)
  /\ sdo' = "NONE"
  /\ UNCHANGED <<nvm, nvmSerial>>

(* Environment: the application or a master changes a parameter group.    *)
ParamWrite(g) ==
  /\ ram' = [ram EXCEPT ![g] = "NEW"]
  /\ sdo' = "NONE"
  /\ UNCHANGED <<serialValid, serial, identity, nvm, nvmSerial>>

Next ==
  \/ \E sub \in StoreSubs, s \in SignatureArg : StoreParameters(sub, s)
  \/ \E sub \in RestoreSubs, s \in SignatureArg : RestoreDefaultParameters(sub, s)
  \/ \E sub \in SerialSubs, v \in Serials : SerialNumberCallback(sub, v)
  \/ CommReset
  \/ PowerOn
  \/ \E g \in {"PARAMS", "TEST", "CALIB"} : ParamWrite(g)

Spec == Init /\ [][Next]_vars

-----------------------------------------------------------------------------
(* Store, serial-number write and every (re)start keep the identity the    *)
(* device reports (0x1018:4) equal to its serial number without the date   *)
(* prefix whenever that serial number is valid: store_parameters_callback *)
(* sets both together, and od_load_start must redo it after od_set_defaults*)
(* has overwritten the identity with the UID.                              *)
SerialIdentityConsistent ==
  serialValid => identity = serial % SERIAL_DIGITS

(* Spec 4.4 (one-shot validity fields): once a valid serial number is      *)
(* stored, no later write, store, restore or restart changes it.           *)
SerialWriteOnce ==
  [][nvmSerial # ABSENT /\ nvmSerial.valid => nvmSerial' = nvmSerial]_vars

(* Spec 4.4 (a partially applied write is never observed): a serial number *)
(* the RAM marks valid, which makes store and write refuse it, is the one  *)
(* the storage holds as valid.                                             *)
SerialCommitted ==
  serialValid => nvmSerial = [valid |-> TRUE, serial |-> serial]

=============================================================================
