SPECIFICATION FairSpec
CONSTANTS
  Tag = {0, 1}
  WatchTag = 0
  NWords = 2
  WatchBeats = {1}
INVARIANTS ReadsLastWrite FlushWritesBack NeverLost DirtyWhenNewer UndefinedNotRead
PROPERTIES InitThenWrite AccessCompletes
