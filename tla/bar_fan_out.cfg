SPECIFICATION LiveSpec
CONSTANTS
  Threads = {bar, op, hook}
  Keys = {1, 2}
  Locks = {l1, l2}
  None = None
  Names = {1, 2}
  S = S
  T = T
  Streams = {S, T}
  StreamOf <- MCStreamOf
  Operators = {op}
  Bar = bar
  MaxAsks = 2
  MaxEdits = 1
INVARIANTS EveryoneAttempted OnlyDeployedProcessed MutualExclusion
PROPERTIES BarCompletes OperatorAnswered
