CONSTANTS
  max_retries = 5
  Fds <- MCFds
  MaxInbox = 1
SPECIFICATION FairSpec
INVARIANTS TypeOK NoForeignClose JoinBeforeClose
PROPERTIES StopEnds ServerCloseEnds
CHECK_DEADLOCK FALSE
