\* Two parsers, frames by path and by id, every error, files removed at any moment.
SPECIFICATION Spec
CONSTANTS
  Pars = {p1, p2}
  f1 = f1
  f2 = f2
  NoFile = NoFile
  Files <- FileSet
  Sources <- FrameSources
  HoldMax = 4
INVARIANTS TypeOK RefcntIsActivities ReportedOnceAtTheEnd FileAliveForUser NoLeakedReference VerdictComplete
PROPERTIES UntouchedAfterReport EveryParseReports
CHECK_DEADLOCK FALSE
