------------------------------ MODULE MCGroup -------------------------------
EXTENDS Group
=============================================================================
