---------------------------- MODULE MCCtrlIface ----------------------------
(* The control interface for TLC.                                            *)
EXTENDS CtrlIface
=============================================================================
