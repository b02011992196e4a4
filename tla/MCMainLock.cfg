SPECIFICATION FairSpec
INVARIANTS  HandOver
PROPERTIES UiGetsLock ExitCompletes
