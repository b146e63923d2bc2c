----------------------------- MODULE MCInspector -----------------------------
EXTENDS Inspector
CONSTANTS helper, call, early, late, Head, Main

(* The node helper is not in the graph of version 1.                       *)
MCGraphAt == [v \in 0 .. MaxVersion |-> IF v = 1 THEN {call} ELSE {helper, call}]
=============================================================================
