\* Progress of the GUI thread; server, user and caller owe nothing.
\* (Quitting against a password request is a real deadlock.)
SPECIFICATION FairSession
CONSTANTS
  Events <- MCPointer
  MaxAccepted = 2
  ListenModes <- MCEither
  ViewOnlyModes <- MCNever
  AuthSchemes <- MCBoth
PROPERTIES
  GuiReturns
  QuitCompletes
  LostConnectionNoticed
CHECK_DEADLOCK FALSE
