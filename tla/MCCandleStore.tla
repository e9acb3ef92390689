----------------------------- MODULE MCCandleStore -----------------------------
(***************************************************************************)
(* Instances of CandleStore for TLC.  The handlers of live candles are     *)
(* interchangeable.                                                        *)
(***************************************************************************)
EXTENDS CandleProperties, TLC

LiveSymmetry == Permutations(Live)
=============================================================================
