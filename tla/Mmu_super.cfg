SPECIFICATION Spec
CONSTANTS
  NumEntries = 2
  Levels = 2
  cfg_bypass_tlb = FALSE
  Part = {0, 1, 2}
  VPN <- SuperVPN
  PPN <- MCPPN
  PmpDenied <- SuperPmpDenied
  ASID = {1, 2}
  Contexts <- SuperContexts
  Root <- MCRoot
  Tables <- MCTables
  InitMem <- SuperInitMem
  Choices <- SuperChoices
  SfenceReqs <- SuperSfence
INVARIANTS WalkerInStep ResponseCoherent OneMatchWhenFlushed
PROPERTIES SfenceServed RequestServed
