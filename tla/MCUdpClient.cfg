CONSTANTS
  Fds = {0, 1}
SPECIFICATION FairSpec
INVARIANTS TypeOK NoSocketLost
PROPERTIES IfUpWakes
