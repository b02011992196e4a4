----------------------------- MODULE MCTrapQueue -----------------------------
\* Small instances of the trap queue for TLC.
EXTENDS TrapQueue
==============================================================================
