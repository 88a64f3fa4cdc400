\* Input before the event filter is installed.
SPECIFICATION SessionSpec
CONSTANTS
  Events <- MCPointer
  MaxAccepted = 2
  ListenModes <- MCNever
  ViewOnlyModes <- MCEither
  AuthSchemes <- MCNone
INVARIANT ViewOnlySendsNoInput
