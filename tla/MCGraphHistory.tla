--------------------------- MODULE MCGraphHistory ---------------------------
EXTENDS GraphHistory

CONSTANTS main, lib, os, f

Body(defines, imports, guarded) ==
    [defines |-> defines, imports |-> imports, guarded |-> guarded]

MCBodies ==
    {Body({f}, {<<os, NoName>>}, TRUE),
     Body({f}, {<<main, f>>, <<lib, f>>}, FALSE),
     Body({}, {<<main, NoName>>, <<lib, f>>}, FALSE)}

MCEntries == {NoEntry, [file |-> lib, symbol |-> f]}
=============================================================================
