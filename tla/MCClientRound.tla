--------------------------- MODULE MCClientRound ---------------------------
EXTENDS ClientRound
=============================================================================
