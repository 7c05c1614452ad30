SPECIFICATION Spec
CONSTANTS
  InitialEnergy = 12
  LowBattery = 1
  UpdateInterval = 2
  MaxBusy = 2
  StateA <- MCStateA
INVARIANTS
  OffWhenDepleted
