SPECIFICATION Spec
CONSTANTS
  Absent = Absent
  Null = Null
  e1 = e1
  e2 = e2
  p1 = p1
  p2 = p2
  f1 = f1
  f2 = f2
  Events = {e1}
  Elements = {p1, p2}
  Fixtures = {f1}
  ElementData = {"a", "b"}
  BootstrapPayloads <- SeasonBootstrap
  FixturePayloads <- SeasonFixtures
  StatusPayloads <- OneStatus
  LivePayloads <- SeasonLive
  LiveWindow = 2
  InitialTables <- NewDatabase
  MaxTime = 4
  MaxFeed = 3
INVARIANT SnapshotsCoverRows
PROPERTIES FeedExplainsSnapshots OnlyFullFixturesDelete LiveFixturesProtected
