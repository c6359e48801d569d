----------------------------- MODULE MCCANdriver -----------------------------
(* Model-checking instance of CANdriver: two receive slots, one transmit   *)
(* slot, standard identifier bit 0, extended bit 11, queues of one frame,  *)
(* two stack generations.                                                  *)
EXTENDS CANdriver

MCRxSize == 2
MCTxSize == 1
MCIdBits == {0}
MCExtBits == {11}
MCQueueMax == 1
MCMaxInits == 2
=============================================================================
