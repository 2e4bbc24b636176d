SPECIFICATION PartsSpec
CONSTANTS
  Contexts <- MCContexts
  Others = {"ext"}
  MaxAdapters = 2
  MaxCalls = 3
  MaxRestarts = 1
  MaxChanges = 1
  MaxRequests = 1
  i1 = i1
  i2 = i2
  i3 = i3
  i4 = i4
  i5 = i5
  Items = {i1, i2, i3, i4, i5}
  MaxRank = 2
  Colors = {0, 8, 16777215}
  Pauses = {0, 500}
  HandwaveMax = 1
  PocketMin = 2
  MaxBroadcasts = 2
  MaxStarts = 2
  Views <- MCViews
  PerSentence = 2
  IntermediatePos = TRUE
  MaxReports = 2
  Tables <- MCTables
  Default <- MCDefault
  GpsFiles <- MCGpsFiles
  SapFiles <- MCSapFiles
  Updates <- MCUpdates
  Devices <- MCDevices
  Valid = {"RANDOM_WALK"}
  Updatable = {"GPS_LOCK"}
CHECK_DEADLOCK FALSE
INVARIANTS
  ModemFollows EveryAdapterIsReached RequestIsOnItsWay
  TreeIsHeap LedFollowsSources WaveIsShort ListenerFollowsDisplay
  SentencesAgree ConfigCounts
PROPERTY ImplementsRankPool
