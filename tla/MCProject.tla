------------------------------ MODULE MCProject ------------------------------
(* Two source files and a header.                                            *)
EXTENDS Project

CONSTANTS a, b, h

MCFiles == {a, b, h}
MCSources == {a, b}

MCMentions == {}
MCTwo == Permutations({a, b})

(* The first source file names a symbol of the header, the second does not. *)
MCNames == {<<a, h>>}

(* One source file includes the other or not.                              *)
MCOneWay == [f \in {a, b} |-> IF f = a THEN {{}} ELSE {{}, {a}}]

(* A source file includes the header or not.                               *)
MCMayInclude == [f \in MCFiles |-> IF f = h THEN {{}} ELSE {{}, {h}}]

=============================================================================
