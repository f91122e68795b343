SPECIFICATION MaintenanceSpec
CONSTANTS
  a = a  b = b  x = x  y = y
  Turns = {a, b}
  Editions = {x, y}
  Sources <- Stores
  BatchSize = 2
  MaxFaults = 3
  box = box  box2 = box2  log = log  log2 = log2  note = note
  Hosts = {box, box2}
  Objects = {log, log2}
  Posts = {note}
  HostOf <- MCHostOf
  Extends <- MCExtends
  Beside = FALSE
  MaxDeletions = 2
  MaxFailures = 3
INVARIANTS Resumable CollisionsFound CopyExact NoGhosts
PROPERTIES Completes OthersKept HostsRefilled
CHECK_DEADLOCK FALSE
