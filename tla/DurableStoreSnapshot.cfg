SPECIFICATION Spec
CONSTANTS
  c1 = c1
  c2 = c2
  l1 = l1
  l2 = l2
  o1 = o1
  e1 = e1
  d1 = d1
  r0 = r0
  r1 = r1
  junk = junk
  Clients = {c1, c2}
  Loaders = {l1}
  Ops = {o1}
  Exts = {e1}
  Downloads = {d1}
  Revs = {r0, r1}
  DefaultRev = r0
  Damaged = {junk}
  InitialFiles <- FirstFiles
  Absent = Absent
  Nothing = Nothing
  KeepRolling = 1
  KeepManual = 1
  MaxRequests = 3
  MaxFaults = 1
  MaxClock = 1
PROPERTY RecordedResultsStay
CHECK_DEADLOCK FALSE
