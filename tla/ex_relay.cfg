SPECIFICATION FairSpec
CONSTANTS
  numbered = numbered
  bare = bare
  outcome = outcome
  revision = revision
  fill = fill
  foreign = foreign
  Event = {numbered, revision, fill, foreign}
  StreamOf <- MCStreamOf
  Kind <- MCKind
  About <- MCAbout
  BatchSize = 2
  MaxFaults = 2
INVARIANTS TypeOK AppliedInOrder HonestOutbox
PROPERTIES LogSpec EventuallyDelivered
CHECK_DEADLOCK FALSE
