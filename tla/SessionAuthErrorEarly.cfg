\* The error timer fires between a refused password and its retry.
SPECIFICATION SessionSpec
CONSTANTS
  Events <- MCPointer
  MaxAccepted = 2
  ListenModes <- MCNever
  ViewOnlyModes <- MCNever
  AuthSchemes <- MCVnc
PROPERTY AuthErrorAfterThirdTry
CHECK_DEADLOCK FALSE
