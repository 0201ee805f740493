-------------------------- MODULE MCJSModuleLoader --------------------------
(* Instances of JSModuleLoader for TLC.                                    *)
EXTENDS JSModuleLoader

CONSTANTS a, b, c

MCModules == {a, b}
MCOne == {a}
MCOnlyB == {b}
MCNoModules == {}
MCIndependent == [m \in {a, b} |-> <<>>]
MCARequiresB == [m \in {a, b} |-> IF m = a THEN <<b>> ELSE <<>>]

MCThree == {a, b, c}
MCBothRequireB == [m \in {a, b, c} |-> IF m = b THEN <<>> ELSE <<b>>]
=============================================================================
