\* Two starts of the service, two connections, and no symmetry, under which
\* neither liveness nor the refinement is checked.
CONSTANTS
  Threads = {t1, t2}
  Conns = {c1, c2}
  Fds <- MCFds
  Grants <- Lowest
  kBufferOutputSize = 2
  MaxBytes = 3
  None = None
SPECIFICATION FairSpec
INVARIANTS
  TypeOK
  OneClient
  ListenerStays
  RecordsForClient
  StreamIntact
PROPERTIES
  RecordingNears
  RecordingEnds
  ServesStreams
CHECK_DEADLOCK FALSE
