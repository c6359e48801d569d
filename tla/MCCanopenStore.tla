---------------------------- MODULE MCCanopenStore ----------------------------
(* Model-checking instances of CanopenStore: a UID of nine digits, a       *)
(* serial number with a one-digit date prefix (so the % 100000000 matters) *)
(* and a short one.                                                        *)
EXTENDS CanopenStore

MCUID == 300000123
MCSerials == {112345678, 42}
=============================================================================
