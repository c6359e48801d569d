CONSTANTS
  UID <- MC001UID
  Serials <- MC001Serials
  SaveFaults = FALSE
  LoadFaults = FALSE
  ABSENT = ABSENT
SPECIFICATION Spec001
PROPERTY SerialWritableWhileInvalid
