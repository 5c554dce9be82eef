SPECIFICATION MCSpec
CONSTANTS
  Tab = {t1, t2}
  Call = {c1, c2}
  Token = {1, 2, 3, 4, 5, 6}
  Code = {k1}
  NoToken = NoToken
  MaxFaults = 1
INVARIANTS
  SingleUse
  OneSignInPerChallenge
  StoredTokenIsGood
PROPERTIES
  LaunchKeepsSession
  CallsSettle
