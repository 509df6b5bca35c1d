------------------------------ MODULE MCExtProc ------------------------------
EXTENDS ExtProc
=============================================================================
