----------------------------- MODULE MCJSWorker -----------------------------
(* Instances of JSWorker for TLC.                                          *)
EXTENDS JSWorker

CONSTANTS e1, e2, e3

MCEntries == {e1, e2, e3}
MCTwoEntries == {e1, e2}
MCEndModules == {2}
=============================================================================
