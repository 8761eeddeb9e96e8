CONSTANTS
  r1 = r1
  r2 = r2
  r3 = r3
  r4 = r4
  t1 = t1
  t2 = t2
  here = here
  post = post
  Requests = {r1, r2, r3, r4}
  Tenant <- MCTenant
  Client <- MCClient
  Bucket <- MCBucket
  Limit <- MCLimit
  WindowS = 2
  MaxTime = 4
  MaxFaults = 1
SPECIFICATION LimiterSpec
SYMMETRY Alike
INVARIANT RefusedForItsTenant
CHECK_DEADLOCK FALSE
