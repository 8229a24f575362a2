-------------------------- MODULE TelegramLimiterMC --------------------------
(***************************************************************************)
(* Instances of TelegramLimiter for TLC: the real buckets with a second of *)
(* two ticks instead of 30.                                                *)
(***************************************************************************)
EXTENDS TelegramLimiter

CONSTANTS s1, s2, c1, c2, bot

CapacityMC == [b \in Buckets |-> Second]
CostMC == [b \in Buckets |-> IF b = Global THEN 1 ELSE Second]
=============================================================================
