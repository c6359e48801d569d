CONSTANTS
  LssNids <- MCLssNids
  MaxBoots = 1
  Preemptible = FALSE
SPECIFICATION Spec
PROPERTY DeinitReturns
CHECK_DEADLOCK FALSE
