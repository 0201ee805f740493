----------------------------- MODULE MCJSTimer ------------------------------
(* Instances of JSTimer for TLC.                                           *)
EXTENDS JSTimer

MCNoClients == {}
MCClients == {1}
MCTwoClients == {1, 2}
MCDelay == {0}
MCDelays == {0, 3}
MCNohups == BOOLEAN
MCNoNohup == {FALSE}
=============================================================================
