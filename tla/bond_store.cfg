CONSTANTS
  Jobs = {j1, j2}
  Requests = {r1}
  Symbols = {s1, s2}
  CpiLinked = {s1}
  Editions = {v1, v2}
  Absent = Absent
  Horizon = 1
  StaleDays = 0
  MaxPages = 2
  Place <- OldestFirst
SPECIFICATION Spec
SYMMETRY Interchangeable
INVARIANTS TypeOK NothingSkipped CpiJobsNeverDeadlock
PROPERTIES RunsAreSerial NoFalseAlarm
