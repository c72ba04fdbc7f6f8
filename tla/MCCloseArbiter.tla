--------------------------- MODULE MCCloseArbiter ---------------------------
(* CloseArbiter for TLC: overfills drive owned below zero, MaxShort bounds   *)
(* how far.                                                                  *)
EXTENDS CloseArbiter

CONSTANT MaxShort

Bounded == \A k \in Key : ledger[k].owned >= -MaxShort
=============================================================================
