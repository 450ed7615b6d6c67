SPECIFICATION Spec
CONSTANTS
  NumEntries = 2
  Levels = 2
  cfg_bypass_tlb = FALSE
  Part = {0, 1, 2}
  VPN <- AsidVPN
  PPN <- MCPPN
  PmpDenied <- AsidPmpDenied
  ASID = {1, 2}
  Contexts <- AsidContexts
  Root <- MCRoot
  Tables <- MCTables
  InitMem <- AsidInitMem
  Choices <- AsidChoices
  SfenceReqs <- AsidSfence
INVARIANTS SfenceNotLost ResponseCoherent EntriesCoherent
