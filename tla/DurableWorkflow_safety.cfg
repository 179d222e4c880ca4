SPECIFICATION FairSpec
CONSTANTS
  Queues <- MCQueues
  States <- MCStates
  Events <- MCEvents
  Undecodable <- MCUndecodable
  Nodes <- MCNodes
  Config <- MCConfig
  NoMigrate = {"failed"}
  Invoking = {"busy"}
  CanInterrupt = {}
  Machine <- MCMachine
  Internal <- MCInternal
  Final <- MCFinal
  Receive <- MCReceive
  Receivable <- MCReceivable
  InitialState = "busy"
  FirstQueue = "v1"
  MaxSignals = 3
CHECK_DEADLOCK FALSE
INVARIANTS InOrderOnce AllAccounted WaitingIsSubscribed
PROPERTIES IsEntity MigratesOnlyWhenAllowed AtOnceLosesNothing FinishedMachineCloses WaitingMigrationHappens
