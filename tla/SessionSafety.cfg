\* A view and its connection thread, with every kind of server and input.
SPECIFICATION SessionSpec
CONSTANTS
  Events <- MCUserEvents
  MaxAccepted = 3
  ListenModes <- MCEither
  ViewOnlyModes <- MCEither
  AuthSchemes <- MCBoth
INVARIANTS
  SessionIInv
PROPERTIES
  JoinNeverStarves
CHECK_DEADLOCK FALSE
