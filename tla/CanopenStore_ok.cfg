CONSTANTS
  UID <- MCUID
  Serials <- MCSerials
  SaveFaults = FALSE
  LoadFaults = FALSE
  ABSENT = ABSENT
SPECIFICATION Spec
INVARIANT TypeOK
INVARIANT SerialIdentityConsistent
INVARIANT SerialCommitted
PROPERTY SerialWriteOnce
