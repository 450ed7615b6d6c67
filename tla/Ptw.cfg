SPECIFICATION TSpec
CONSTANTS
  Levels = 3
  Part = {0, 1}
  VPN <- MCVPN
  PPN <- MCPPN
  Roots <- MCRoots
  PTEs <- MCPTEs
  PmpDenied <- MCPmpDenied
INVARIANTS TrailIsChain AnswerIsArchitectural TranslationIsArchitectural
