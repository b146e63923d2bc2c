----------------------------- MODULE MCUndoRedo -----------------------------
(* Each order, each way of being compared and of being replayed.           *)
EXTENDS UndoRedo

M(kind, value) == [kind |-> kind, value |-> value]

MCMessages ==
    {M("tokens", 1), M("tokens", 2), M("nodeHide", 1),
     M("scrollCode", 1), M("scrollCode", 2)}
MCBundled == {M("tokens", 1), M("bundledEdges", 2), M("showDefinition", 1)}
MCTrails == {M("tokens", 1), M("customTrail", 1), M("customTrail", 2)}

MCKey == [v \in Values |-> v]
MCOneKey == [v \in Values |-> DefaultValue]
=============================================================================
