------------------------------ MODULE MC_Show ------------------------------
(* The show with each effect followed in turn, for TLC.                    *)
EXTENDS Show

\* an LED in the way of the wave
BlastCorner == <<1, 1, 1>>
=============================================================================
