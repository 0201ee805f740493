----------------------------- MODULE MCQuickJSGC -----------------------------
(* Instances of QuickJSGC for TLC.                                         *)
EXTENDS QuickJSGC, TLC

MCSymmetry == Permutations(Values)
=============================================================================
