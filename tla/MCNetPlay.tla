----------------------------- MODULE MCNetPlay ------------------------------
\* Instances of network play for TLC.
EXTENDS NetPlay

MCControl == [server |-> {"KEYB", "RSRC"}, client |-> {"KEYB"}]
=============================================================================
