---------------------------- MODULE MCStateStore ----------------------------
EXTENDS StateStore
=============================================================================
