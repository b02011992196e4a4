------------------------------- MODULE MCCia -------------------------------
\* Instances of the CIA for TLC.
EXTENDS Cia
=============================================================================
