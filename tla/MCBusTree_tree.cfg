SPECIFICATION FairSpec
CONSTANTS
  r = r
  a0 = a0
  b0 = b0
  c0 = c0
  d = d
  Bus <- FiveBuses
  Nr = {0, 1, 2, 3}
  Ino = {}
  NULL = NULL
  Parent <- TheParent
  Chan <- TheChan
  MaxChanges = 5
INVARIANT TypeOK
INVARIANT OnOneList
INVARIANT LookupFindsPath
INVARIANT IdIsRank
INVARIANT PlaceDenotesBus
INVARIANT LeftOutOnlyByReuse
PROPERTY ScanShrinks
PROPERTY ScanEnds
