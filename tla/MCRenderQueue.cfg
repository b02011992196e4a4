SPECIFICATION FairSpec
CONSTANTS
  RENDER_QUEUE_MAX_BACKBUFFERS = 2
  Macos = TRUE
  MaxFrames = 3
  MaxJobs = 2
INVARIANTS NotShared NotLost RoomForHeld JobPerFrame 
PROPERTIES FramesInOrder  
