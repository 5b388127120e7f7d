SPECIFICATION Spec
CONSTANTS
  a = a
  b = b
  c = c
  Units = {a, b, c}
  Schedules <- MCSchedules
  Intervals = {1, 2, 4}
  Pretrained = {0, 3}
  StopAfter = {0, 1, 3}
  Reports = {TRUE, FALSE}
  MaxFaults = 3
INVARIANT CheckpointEveryInterval
