SPECIFICATION FairSpec
CONSTANTS
  MaxFaults = 1
  MaxReloads = 1
PROPERTIES
  RiderSeesTheRide
  RefreshKeepsTheRide
  DriverIsReleased
CHECK_DEADLOCK FALSE
