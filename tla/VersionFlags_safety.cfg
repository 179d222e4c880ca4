SPECIFICATION Spec
CONSTANTS
  a = a
  b = b
  d1 = d1
  d2 = d2
  tester = tester
  customer = customer
  Versions <- MCVersions
  Rank <- MCRank
  EndsWith <- MCEndsWith
  Deployers <- MCDeployers
  Users <- MCUsers
  Testers = {tester}
  Bucket <- MCBucket
  Default = default
  Percents = {100}
  Base = 10
  Width = 3
  FirstSeq = 998
  MaxDeploys = 3
  MaxRemovals = 1
INVARIANTS OneFlagPerVersion NewestFirst DarkUntilRolled
SYMMETRY MCSymmetry
