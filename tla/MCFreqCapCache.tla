--------------------------- MODULE MCFreqCapCache ---------------------------
(* Small instances of FreqCapCache for TLC: one impression a day reaches    *)
(* the daily cap before the hourly one.                                     *)
EXTENDS FreqCapCache

LooseHour == [c \in Campaigns |-> [w \in Windows |-> IF w = "d" THEN 1 ELSE 2]]

=============================================================================
