SPECIFICATION Spec
CONSTANTS
  Fds <- MCFds
  MaxClients = 2
  MaxConns = 3
  MaxRejects = 1
PROPERTIES RejectsOnlyWhenFull
CHECK_DEADLOCK FALSE
