------------------------------ MODULE MCSnapshot ------------------------------
EXTENDS Snapshot, TLC
=============================================================================
