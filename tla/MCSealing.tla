----------------------------- MODULE MCSealing -----------------------------
EXTENDS Sealing, TLC
=============================================================================
