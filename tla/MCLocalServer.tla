---------------------------- MODULE MCLocalServer ----------------------------
EXTENDS LocalServer, TLC
CONSTANTS serve, migrate, first, second
MCArgvOf == first :> serve @@ second :> migrate
MCExcludedBy == first :> {} @@ second :> {}
MCLocalConfigs ==
    [ver : 0..MaxEdits, argv : Argv, excluded : {{}}]
=============================================================================
