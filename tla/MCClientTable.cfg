SPECIFICATION FairSpec
CONSTANTS
  Fds <- MCFds
  MaxClients = 3
  MaxConns = 3
  MaxRejects = 1
INVARIANTS TypeOK LookupFindsOwner ListsAgree
PROPERTIES NoForeignClose ClosedIsUnlinked
CHECK_DEADLOCK FALSE
