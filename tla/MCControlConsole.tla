--------------------------- MODULE MCControlConsole ---------------------------
EXTENDS ControlConsole
============================================================================
