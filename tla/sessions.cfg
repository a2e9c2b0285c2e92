SPECIFICATION FairSpec
CONSTANTS
  r1 = r1
  r2 = r2
  r3 = r3
  Session = {1}
  MaxTokens = 4
  Request = {r1, r2}
INVARIANTS TypeOK RotationIsLinear ActiveCanRotate DeadlockNeedsRefresh
PROPERTIES NoTokenInRevokedFamily EveryCallEnds
