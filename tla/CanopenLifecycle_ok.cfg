CONSTANTS
  LssNids <- MCLssNids
  MaxBoots = 3
  Preemptible = FALSE
SPECIFICATION Spec
INVARIANT TypeOK
 
 
INVARIANT PowerOnCounterCountsBoots
PROPERTY RxThreadResumed
 
CHECK_DEADLOCK FALSE
