SPECIFICATION Spec
CONSTANTS
  k1 = k1
  Keys = {k1}
  Runs = {r1, r2}
  MaxId = 2
  MaxRuns = 3
  MaxActs = 2
  Options <- MCOptions
  Reports <- MCReports
SYMMETRY Requests
CHECK_DEADLOCK FALSE
INVARIANTS OneFindingPerKey OpenIsClean ReportDecides
PROPERTIES TriageKept
