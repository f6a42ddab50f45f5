SPECIFICATION FairSpec
PROPERTY MainLoopReached
CHECK_DEADLOCK FALSE
