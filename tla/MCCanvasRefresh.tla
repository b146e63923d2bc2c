--------------------------- MODULE MCCanvasRefresh ---------------------------
EXTENDS CanvasRefresh
CONSTANTS Main
=============================================================================
