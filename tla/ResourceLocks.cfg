CONSTANTS
  Sessions = {s1, s2, s3}
  MaxTTL = 2
  MaxHolds = 2
SPECIFICATION FairSpec
INVARIANTS ExclusiveIsAlone LeaseIsKept
PROPERTY FreesItself
