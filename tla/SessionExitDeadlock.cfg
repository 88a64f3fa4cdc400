\* Quitting while the server asks for a password.
SPECIFICATION SessionSpec
CONSTANTS
  Events <- MCPointer
  MaxAccepted = 2
  ListenModes <- MCNever
  ViewOnlyModes <- MCEither
  AuthSchemes <- MCVnc
INVARIANT ExitDeadlockHandled
CHECK_DEADLOCK FALSE
