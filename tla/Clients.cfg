SPECIFICATION ClientsSpec
CONSTANTS
  a = a  b = b  e = e  d = d  k1 = k1  k2 = k2  k3 = k3  bad = bad
  FileCount = 2
  Codex = {1}
  Contents <- Told
  Guess <- Named
  Sessions = {a, b, e, d}
  NoSession = NoSession
  Keys = {k1, k2, k3, bad}
  NoKey = NoKey
  Unembeddable = {bad}
  BatchSize = 1
  Limits = {0, 1}
  DryRuns = {FALSE}
  MaxFaults = 2
  LastMessage = 4
  MonthCount = 2
  MonthOf <- Calendar
  Wanted = {1, 2, 4}
  MaxMishaps = 2
INVARIANTS CursorBehind RightSession PassedIsWritten
PROPERTIES EveryTurnPosted EveryMessageArchived
