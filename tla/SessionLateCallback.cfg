\* A posted call survives disconnect().
SPECIFICATION SessionSpec
CONSTANTS
  Events <- MCPointer
  MaxAccepted = 2
  ListenModes <- MCNever
  ViewOnlyModes <- MCEither
  AuthSchemes <- MCNone
PROPERTY NoCallbackAfterDisconnect
