CONSTANTS
  UID <- MCUID
  Serials <- MCSerials
  SaveFaults = FALSE
  LoadFaults = TRUE
  ABSENT = ABSENT
SPECIFICATION Spec
PROPERTY SerialWriteOnce
