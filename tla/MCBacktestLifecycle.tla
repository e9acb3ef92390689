------------------------- MODULE MCBacktestLifecycle -------------------------
(***************************************************************************)
(* Instances of BacktestLifecycle for TLC.  The processes of one kind are  *)
(* interchangeable, which the safety runs use as a symmetry.               *)
(***************************************************************************)
EXTENDS BacktestProperties, TLC

ProcessSymmetry ==
  Permutations(Processors) \cup Permutations(Cancellers) \cup Permutations(Dispatchers)
=============================================================================
