SPECIFICATION Spec
CONSTANTS
  a = a
  a2 = a2
  b = b
  siteA = siteA
  siteB = siteB
  fileA = fileA
  fileB = fileB
  Process = {a, b}
  Thread = {t1}
  Site = {siteA, siteB}
  File = {fileA, fileB}
  SiteOf <- MCSiteOf
  FileOf <- MCOwnFile
  Operator = operator
  MaxToken = 3
  MaxInFlight = 1
INVARIANTS OneActive
SYMMETRY MCSymmetry
CHECK_DEADLOCK FALSE
