-------------------------- MODULE MCClientJournal --------------------------
EXTENDS ClientJournal
=============================================================================
