CONSTANTS
  UID <- MCUID
  Serials <- MCSerials
  SaveFaults = TRUE
  LoadFaults = FALSE
  ABSENT = ABSENT
SPECIFICATION Spec
INVARIANT SerialCommitted
