----------------------------- MODULE MCJSTelnet -----------------------------
(* Instances of JSTelnet for TLC.                                          *)
EXTENDS JSTelnet, TLC

CONSTANTS c1, c2

MCClients == {c1, c2}
MCOneClient == {c1}
MCOpens == {3}
MCTyped == (c1 :> <<1, 2>>) @@ (c2 :> <<3>>) @@ (None :> <<1>>)
MCTypedOpen == (c1 :> <<3, 4>>) @@ (None :> <<1>>)
=============================================================================
