SPECIFICATION FairSpec
CONSTANTS
  r1 = r1
  r2 = r2
  tracking = tracking
  table = table
  index = index
  column = column
  index2 = index2
  widen = widen
  Runners = {r1, r2}
  Statements <- MCStatements
  Rerunnable <- MCRerunnable
  Tracking = tracking
  Files <- MCFiles
  Kind <- MCKind
  TableOf <- MCTableOf
  Manifest <- MCManifest
  Prepared <- MCPrepared
  MaxBreaks = 2
INVARIANTS
  SchemaMatchesVersions
  AppliedOnceInOrder
  ValidMeansComplete
PROPERTIES
  UpToDateOrStuck
