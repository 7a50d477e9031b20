CONSTANTS
  Threads = {t1, t2}
  Handles = {h1, h2, h3}
  NumEventsMax = 3
  MaxLaunches = 4
  Null = Null
SPECIFICATION Spec
CHECK_DEADLOCK FALSE
PROPERTY WaitersServed
