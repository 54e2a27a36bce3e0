------------------------------- MODULE MCHand --------------------------------
EXTENDS Hand
=============================================================================
