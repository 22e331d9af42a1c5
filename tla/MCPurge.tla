------------------------------ MODULE MCPurge ------------------------------
EXTENDS Purge
=============================================================================
