------------------------------- MODULE MCEvcc -------------------------------
EXTENDS Evcc
=============================================================================
