----------------------------- MODULE MCDataDir ------------------------------
EXTENDS DataDir
=============================================================================
