SPECIFICATION Spec
CONSTANTS
  source = source
  test = test
  obsolete = obsolete
  first = first
  repair = repair
  other = other
  t1 = t1
  t2 = t2
  old = old
  new = new
  File = {source, test, obsolete}
  Content = {old, new}
  Absent = Absent
  Torn = Torn
  Task = {t1, t2}
  Patch = {first, repair, other}
  TaskOf <- MCTaskOf
  Changes <- MCChanges
  NoOne = NoOne
  MaxEdits = 0
  MaxCrashes = 0
INVARIANTS UndoneIsClean
CHECK_DEADLOCK FALSE
