SPECIFICATION Spec
CONSTANTS
  Absent = Absent
  Null = Null
  e1 = e1
  e2 = e2
  p1 = p1
  p2 = p2
  f1 = f1
  f2 = f2
  Events = {e1, e2}
  Elements = {p1, p2}
  Fixtures = {f1, f2}
  ElementData = {"a", "b"}
  BootstrapPayloads <- LegacyBootstrap
  FixturePayloads <- LegacyFixtures
  StatusPayloads <- LegacyStatus
  LivePayloads <- LegacyLive
  LiveWindow = 2
  InitialTables <- LegacyDatabase
  MaxTime = 2
  MaxFeed = 4
INVARIANTS NoOrphanRows ReferenceRowsMirrorBootstrap
PROPERTIES WatermarksAdvance WritesNeedNews
