----------------------------- MODULE MCJSAnalog -----------------------------
(* Instances of JSAnalog for TLC.                                          *)
EXTENDS JSAnalog
CONSTANTS p1, p2, b1, t1, t2
MCPins == {p1, p2}
MCBigPins == {b1}
MCTouchPins == {t1, t2}
MCTune == {<<"tone", "rest">>}
=============================================================================
