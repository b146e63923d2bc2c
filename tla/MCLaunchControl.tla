--------------------------- MODULE MCLaunchControl ---------------------------
EXTENDS LaunchControl
CONSTANTS serve, migrate, left, right
MCLocalConfigs == [argv : {serve, migrate}]
=============================================================================
