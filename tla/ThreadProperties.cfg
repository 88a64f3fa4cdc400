\* The connection thread with its most general client; server, user and caller
\* owe nothing.  (stop() against a password request is a real deadlock.)
SPECIFICATION FairSpec
CONSTANTS
  key = key
  click = click
  Events <- MCEvents
  MaxAccepted = 2
  ListenModes <- MCEither
  AuthSchemes <- MCBoth
INVARIANTS
  ClientAlive
PROPERTIES
  CancelIsFinal
  ChannelSpec
  AcceptedIsSent
  StoppedThreadEnds
  StopReturns
CHECK_DEADLOCK FALSE
