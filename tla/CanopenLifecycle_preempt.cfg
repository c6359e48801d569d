CONSTANTS
  LssNids <- MCLssNids
  MaxBoots = 1
  Preemptible = TRUE
SPECIFICATION Spec
PROPERTY RxThreadResumed
CHECK_DEADLOCK FALSE
