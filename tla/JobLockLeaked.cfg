SPECIFICATION Spec
CONSTANTS
  Pods = {d1, d2}
  Connections = {c1, c2}
  MaxFirings = 3
  LongJobs = FALSE
SYMMETRY Symmetry
PROPERTY SkippedOnlyForAnother
