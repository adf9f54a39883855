SPECIFICATION Spec
CONSTANTS
  s1 = s1
  s2 = s2
  t1 = t1
  t2 = t2
  i1 = i1
  i2 = i2
  None = None
  Stores = {s1}
  Home <- OneStore
  Tasks = {t1, t2}
  Issues = {i1}
  Ops = {"open_issue", "append_event", "close_issue"}
  MaxEvents = 3
  MaxClock = 1
  StepsBack = TRUE
INVARIANT TimelineInOrder
