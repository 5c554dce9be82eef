SPECIFICATION FairSpec
CONSTANTS
  Rider = {c1}
  Driver = {d1, d2}
  Ride = {r1}
  Request = {q1, q2}
  Matcher = {m1}
  NoOne = NoOne
  MaxAttempts = 2
  MaxFaults = 1
CONSTRAINT CalmAfterFault
INVARIANTS
  NoFeeBeforeAcceptance
  HistoryIsFaithful
  AcceptanceRateIsAShare
PROPERTIES
  NeverReassigned
  ImplementsLifecycle
  SilentOfferIsWithdrawn
  CommittedRideEnds
