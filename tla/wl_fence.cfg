SPECIFICATION Spec
CONSTANTS
  a = a
  a2 = a2
  b = b
  siteA = siteA
  siteB = siteB
  fileA = fileA
  fileB = fileB
  Process = {a, a2, b}
  Thread = {t1, t2}
  Site = {siteA, siteB}
  File = {fileA, fileB}
  SiteOf <- MCSiteOf
  FileOf <- MCOwnFile
  Operator = operator
  MaxToken = 3
  MaxInFlight = 1
INVARIANTS TypeOK OneActivePerFile NotSelfFenced
PROPERTIES FencedForGood TakeoverIsDeliberate
SYMMETRY MCSymmetry
CHECK_DEADLOCK FALSE
