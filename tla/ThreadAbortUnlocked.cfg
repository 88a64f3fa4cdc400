\* stop() writes through m_cl without the mutex.
SPECIFICATION Spec
CONSTANTS
  key = key
  click = click
  Events <- MCEvents
  MaxAccepted = 2
  ListenModes <- MCEither
  AuthSchemes <- MCNone
INVARIANT AbortWritesLiveClient
