SPECIFICATION Spec
CONSTANTS
  Length = 2
  None = None
  Unnamed = Unnamed
  Heading <- MCHeading
INVARIANTS
  ConfirmedAddressFits
PROPERTIES
  RouteFitsTrip
  UserKeepsTheMap
