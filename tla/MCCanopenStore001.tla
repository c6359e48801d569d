-------------------------- MODULE MCCanopenStore001 --------------------------
(* Model-checking instance of CanopenStore001, with the values of          *)
(* MCCanopenStore.                                                         *)
EXTENDS CanopenStore001

MC001UID == 300000123
MC001Serials == {112345678, 42}
=============================================================================
