SPECIFICATION FairSpec
CONSTANTS
  gate = gate
  lane = lane
  station = station
  Point = {gate, lane, station}
  Cell <- MCCell
  Km <- MCKm
  Here = gate
  Places <- MCPlaces
  Vehicle = {"bike"}
  Draws = {TRUE}
  Code = {"TRYLO50", "WEEKEND"}
  Seeded <- MCSeeded
  NewTerms <- MCTerms
  Post = {b1}
  Nowhere = Nowhere
  NoCode = NoCode
  NoRide = NoRide
  NoPost = NoPost
  NoEstimate = NoEstimate
  NoPromo = NoPromo
  MaxChoices = 2
  MaxUpsets = 2
INVARIANTS
  FareFitsTrip
PROPERTIES
  PersistentRiderGetsARide
CHECK_DEADLOCK FALSE
