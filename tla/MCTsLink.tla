----------------------------- MODULE MCTsLink -----------------------------
EXTENDS TsLink
=============================================================================
