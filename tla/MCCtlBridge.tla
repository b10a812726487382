---------------------------- MODULE MCCtlBridge ----------------------------
(* An instance of CtlBridge for TLC.                                        *)
EXTENDS CtlBridge

\* The counter starts next to its wrap.
WrapStart == {SeqMod - 2}
=============================================================================
