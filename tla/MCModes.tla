------------------------------ MODULE MCModes ------------------------------
EXTENDS Modes
=============================================================================
