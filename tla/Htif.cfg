SPECIFICATION Spec
CONSTANTS
  Chars = {1, 2}
  ExitCodes <- MCExitCodes
  HalfSize = 65536
  MaxCmd = 2
  MaxKeys = 1
  MaxBp = 1
  HostFd = {3, 4, 5, 6, 7}
INVARIANTS CommandsInOrder AnswerMatches FdsConsistent ConsoleExact
PROPERTIES ExitReported SyscallReturns
CHECK_DEADLOCK FALSE
