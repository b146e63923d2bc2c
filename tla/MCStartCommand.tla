---------------------------- MODULE MCStartCommand ----------------------------
EXTENDS StartCommand
CONSTANTS serve, migrate
MCLocalConfigs == [argv : {serve, migrate, NoArgv}]
=============================================================================
