CONSTANTS
  SequenceTimeout = 2
  SeTimeout = 1
  EimTimeout = 4
  HoldTime = 1
  UndecodableLimit = 2
SPECIFICATION FairSpec
INVARIANTS TypeOK EnergyIsEarned StopLeavesContactorOpen EndsOnFailureAlone TimerRunsWhileReceiving
PROPERTIES AuthorizationHasDeadline HoldIsOver ImplementsEnergySession AuthorizationIsDecided
