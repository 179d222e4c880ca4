SPECIFICATION Spec
CONSTANTS
  workflow = workflow
  statechart = statechart
  Units = {workflow, statechart}
  Cached = {statechart}
  Pipelines = {"deploy", "reload"}
  Modes = {"once", "interactive"}
  MaxEdits = 2
  MaxTriggers = 1
  MaxRestarts = 2
  Capacity = 2
CHECK_DEADLOCK FALSE
INVARIANTS DeployedIsBuilt ServesWhatItWasTold
PROPERTY Rebuilds
