----------------------------- MODULE MCLiveSwap -----------------------------
(* Small instances of LiveSwap for TLC. *)
EXTENDS LiveSwap, TLC

CONSTANTS a1, a2

Assets == Permutations(Asset)
=============================================================================
