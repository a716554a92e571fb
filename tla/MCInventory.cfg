\* Two threads and three edits, the second of them invalid.
SPECIFICATION FairSpec
CONSTANTS
  Threads = {t1, t2}
  LastVersion = 3
  Valid <- AllButTwo
  None = None
PROPERTIES NeverBackwards FollowsFile RowsCatchUp
