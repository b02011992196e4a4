SPECIFICATION FairSpec
CONSTANTS
  Servers = {"A"}
  Clients = {"B"}
  Control <- MCControl
  DEFAULT_DELTA = 3
  Deltas = {2, 3}
  NUM_OF_TESTPACKETS = 1
  MaxSessions = 2
  MaxFrames = 3
  MaxInputs = 1
  MaxFaults = 1
INVARIANTS TypeOK SameInputs NeverOutOfSync LeadBounded
PROPERTY ReceivesReturn
CHECK_DEADLOCK FALSE
