----------------------------- MODULE MCJSEspNow -----------------------------
(* Instances of JSEspNow for TLC.                                          *)
EXTENDS JSEspNow

CONSTANTS m1, m2

MCPeers == {m1, m2}
=============================================================================
