----------------------------- MODULE MCConsole ------------------------------
EXTENDS Console

=============================================================================
