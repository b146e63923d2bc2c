-------------------------- MODULE MCRepositoryWatcher --------------------------
EXTENDS RepositoryWatcher, TLC
CONSTANTS f1, plain, tuned
MCArgvOf == plain :> NoArgv @@ tuned :> NoArgv
MCExcludedBy == plain :> {} @@ tuned :> {f1}
MCPlainArgvOf == plain :> NoArgv
MCPlainExcludedBy == plain :> {}
=============================================================================
