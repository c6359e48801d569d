CONSTANT QueueMax <- MCThreadsQueueMax
INIT ThreadsInit
NEXT ThreadsNext
PROPERTY FaultRecoverySafety
