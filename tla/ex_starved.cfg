SPECIFICATION FairSpec
CONSTANTS
  numbered = numbered
  bare = bare
  outcome = outcome
  revision = revision
  fill = fill
  foreign = foreign
  Event = {bare, outcome, revision, fill}
  StreamOf <- MCStreamOf
  Kind <- MCKind
  About <- MCAbout
  BatchSize = 2
  MaxFaults = 0
PROPERTIES EventuallyDelivered
CHECK_DEADLOCK FALSE
