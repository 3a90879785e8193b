SPECIFICATION FairSpec
CONSTANTS
  Events = {e1, e2}
  Instances = {s1, s2}
  Capacity = 2
  NumClients = 3
  None = None
  MaxAccepted = 3
INVARIANTS AcceptedInOrder ClientsOutliveThreads ThreadsAlive NothingLeftBehind
PROPERTIES NoneCurrentAfterStop ShutdownEnds AcceptedIsProcessed
