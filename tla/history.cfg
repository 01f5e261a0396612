SPECIFICATION TimeSpec
CONSTANTS
  Zero = 0
  Values = {0, 1}
  Keys <- TwoPageKeys
  KeyModulus = 8
  PageSize = 3
  Columns <- TwoColumns
  Ranges <- TwoRanges
  MaxJournal = 5
  MaxTime = 1
  Misuse <- Disciplined
INVARIANTS
  TypeOK
  LayoutCoherent
  ReplayFaithful
  SnapshotReplays
  RangesExact
  PresentExact
  ScanExact
PROPERTIES
  AuditGrowsByCommit
  ImplementsRowStore
  PastFixed
