CONSTANTS
  max_retries = 5
  Fds <- MCFds
  MaxInbox = 1
SPECIFICATION Spec
INVARIANTS ConnectedIsKept
CHECK_DEADLOCK FALSE
