---------------------------- MODULE MC_Firmware ----------------------------
(* The firmware with a small configuration and a short period, for TLC.   *)
EXTENDS Firmware
=============================================================================
