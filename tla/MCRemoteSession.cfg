SPECIFICATION FairSpec
CONSTANTS
  Nodes = 4
  Methods = {"getWord"}
  MaxCalls = 2
INVARIANTS TypeOK OneProcessRuns CallerWaits OwnResponse RunsWhatWasCalled
PROPERTIES ImplementsCallStack EveryCallAnswered
CHECK_DEADLOCK FALSE
