----------------------------- MODULE MCMainLock -----------------------------
\* Instances of the main lock for TLC.
EXTENDS MainLock
==============================================================================
