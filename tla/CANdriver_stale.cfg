CONSTANTS
  RxSize <- MCRxSize
  TxSize <- MCTxSize
  IdBits <- MCIdBits
  ExtBits <- MCExtBits
  QueueMax <- MCQueueMax
  MaxInits <- MCMaxInits
SPECIFICATION Spec
INVARIANT TypeOK
PROPERTY NoStaleHandler
 
