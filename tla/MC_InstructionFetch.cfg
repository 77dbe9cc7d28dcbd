SPECIFICATION FetchSpec
CONSTANTS
  NLines = 2
  NTags = 2
  Fill = 99
INVARIANTS FetchedFresh
