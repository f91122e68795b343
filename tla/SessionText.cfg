SPECIFICATION TextSpec
CONSTANTS
  s1 = s1  chat = chat  news = news  p1 = p1  p2 = p2
  a = a  b = b  c = c  skip = skip
  Formats = {"pi", "claude", "codex", "grok", "telegram"}
  LinesOf <- AllLines
  Sessions = {stem, s1, chat, news}
  Turns = {"t1", "t2", "t3", "t4", "t5", "t6", "t9"}
  Projects = {p1, p2}
  Texts = {a, b, c, skip}
  None = None
  Unknown = unknown
  Stem = stem
  KeyProject = p1
  SkipTexts = {skip}
  Channels = {news}
  LeadGap = 2
  LeadLines = 2
  MaxLines = 5
  MaxLen = 5
  Contents <- MCContents
  Length <- MCLength
  Breaks <- MCBreaks
  Count <- MCCount
  Settings = {1, 3, 5}
  Headers = {0, 1}
  Overlap = 1
INVARIANTS WalkAgrees IdsUnique TitleShown CoversText WindowsFit OverlapExact
PROPERTIES GrowthKeeps UnitsStable
CHECK_DEADLOCK FALSE
