------------------------------ MODULE MCJSI2C -------------------------------
(* Instances of JSI2C for TLC.                                             *)
EXTENDS JSI2C, TLC

CONSTANTS e1, e2, e3, e4, p1, p2

MCCalls == {e1, e2, e3, e4}
MCPins == {p1, p2}
MCSymmetry == Permutations(MCCalls) \union Permutations(MCPins)
=============================================================================
