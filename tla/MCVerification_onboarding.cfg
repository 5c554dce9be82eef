SPECIFICATION FairSpec
CONSTANTS
  Doc = {license, rc}
  Admin = {a1}
  MaxFaults = 1
INVARIANTS
  VerifiedOnlyWhenSeen
  RejectionStands
PROPERTIES
  UploadsAreAnswered
