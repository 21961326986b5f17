------------------------------ MODULE MC_Cube ------------------------------
(* The display with the layers and buffers of the code, for TLC.           *)
EXTENDS Cube
=============================================================================
