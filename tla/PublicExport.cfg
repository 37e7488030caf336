SPECIFICATION Spec
CONSTANTS
  None = None
  Partial = Partial
  x = x
  y = y
  z = z
  m = m
  n = n
  h1 = h1
  h2 = h2
  e1 = e1
  e2 = e2
  Isins <- MCIsins
  Names <- MCNames
  Dates <- MCDates
  FirstFiles <- MCFirstFiles
  Revisions <- MCRevisions
  Threshold = 2
  InitialPosition = 2
  FirstPublished = 3
  MaxSyncs = 2
  Readers = {r1}
  Exporters = {e1, e2}
CHECK_DEADLOCK FALSE
SYMMETRY Symmetry
ACTION_CONSTRAINT OneKindOnFullSets
INVARIANTS
  TypeOK
  IdentityHolds
  LegacySeriesAgree
  AnspChartShowsStateInForce
  SeriesShowsOneSet
PROPERTIES
  LastExportIsKept
