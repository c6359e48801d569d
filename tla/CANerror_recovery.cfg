CONSTANT QueueMax <- MCQueueMax
SPECIFICATION Spec
INVARIANT TypeOK
INVARIANT QueueFresh
PROPERTY FaultRecoveryRefined
