----------------------------- MODULE MCInterrupt -----------------------------
\* Small instances of the interrupt status for TLC.
EXTENDS Interrupt, TLC

\* The sources of each line are interchangeable (the configurations use
\* disjoint sets of sources for the two lines).
Symmetry == Permutations(IrqSources) \cup Permutations(NmiSources)
==============================================================================
