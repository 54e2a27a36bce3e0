------------------------------- MODULE MCPair --------------------------------
EXTENDS Pair
=============================================================================
