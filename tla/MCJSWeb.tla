------------------------------- MODULE MCJSWeb -------------------------------
(* Instances of JSWeb for TLC.                                             *)
EXTENDS JSWeb
CONSTANTS s1, s2, p1, r1, r2
MCOneServer == {s1}
MCServers == {s1, s2}
MCOnePath == {p1}
MCRequests == {r1, r2}
=============================================================================
