--------------------------- MODULE MCFetchLedger ----------------------------
EXTENDS FetchLedger
=============================================================================
