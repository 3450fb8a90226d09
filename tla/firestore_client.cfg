CONSTANTS
  k1 = k1
  k2 = k2
  f1 = f1
  f2 = f2
  v1 = v1
  v2 = v2
  Key = {k1, k2}
  Field = {f1, f2}
  Value = {v1, v2}
  None = None
  User = {staff, nobody}
  FirstUser = staff
  Denied = {nobody}
  OwnWrites <- AppWrites
  OtherWrites <- ElsewhereWrites
  FirstData <- OneDocument
  kMaxPendingWrites = 2
  MaxWrites = 3
  MaxOthers = 1
  MaxFaults = 2
  MaxEvents = 1
SPECIFICATION FairSpec
INVARIANTS TypeOK IdsIncrease PipelineIsQueue AnswersFollowPipeline StreamNeeded CacheHonest
PROPERTIES CacheForward NoFlicker ImplementsReplica Settles
CHECK_DEADLOCK FALSE
