CONSTANTS
  Dirs = {d1, d2, d3}
  Inodes = {i1, i2}
  NoDir = NoDir
  NoInode = NoInode
  Homes = {h1, h2}
  Bins = {b1, b2}
  NoBin = NoBin
  LinkBin = LinkBin
  NoHome = NoHome
  MaxMeddling = 3
  JsonClients = {json}
  TomlClients = {toml}
  Edits = {e}
  Commands = {p1, p2}
  NoFile = NoFile
  NoRecord = NoRecord
  MaxRuns = 3
  MaxOutside = 1
  MaxDeaths = 1
  Handlers = {c1, c2, c3}
  MaxIds = 3
  MaxSessions = 2
  Rows = {1, 2, 3, 4, 5}
  PageSize = 2
  Slack = 1
  MaxPeers = 3
  Minters = {k1, k2, k3}
  NoKey = NoKey
  MaxEntries = 3
  TotalBytes = 2
  EntryLimit = 2
  ReadChunk = 2
  MaxSize = 3
SPECIFICATION HomeSpec
INVARIANTS HomeTypeOK OneHome ActsInOneHome PublishedIsOurs EditsSurvive SessionsAreBounded DrainReportsWhatItDid LoadIsBoundedAndWhole
PROPERTIES ChosenOnce
CHECK_DEADLOCK FALSE
