SPECIFICATION FairSpec
CONSTANTS
  Ping = {p1, p2}
  Timer = {t1}
  MaxSockets = 1
  Required = 2
  MaxRestarts = 1
INVARIANTS
  ArrivalIsConfirmed
  SwitchHolds
PROPERTIES
  SuspensionTakesEffect
  SwitchTellsTheTruth
