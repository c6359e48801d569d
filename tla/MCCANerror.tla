----------------------------- MODULE MCCANerror -----------------------------
(* Model-checking instance of CANerror.                                    *)
EXTENDS CANerror

(* Two frames on the socket are enough for a reset to find a frame to drop *)
(* and a frame behind the one that triggers it.                            *)
MCQueueMax == 2
=============================================================================
