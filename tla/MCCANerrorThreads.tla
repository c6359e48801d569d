-------------------------- MODULE MCCANerrorThreads --------------------------
(* Model-checking instance of CANerrorThreads: a socket queue of 2 frames. *)
EXTENDS CANerrorThreads

MCThreadsQueueMax == 2
=============================================================================
