\* A thread stopped before it starts frees a client it never had.
SPECIFICATION Spec
CONSTANTS
  key = key
  click = click
  Events <- MCEvents
  MaxAccepted = 2
  ListenModes <- MCNever
  AuthSchemes <- MCNone
INVARIANT CleanupFreesClient
