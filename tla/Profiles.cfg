SPECIFICATION Spec
CONSTANTS
  Shapes <- MCShapes
  Bases <- MCBases
  Pairs <- MCPairs
  ValueTables <- MCValueTables
  Requests <- MCRequests
  CookieFiles <- MCCookieFiles
  CaseFold <- MCCaseFold
  DefaultCookies = TRUE
  Writable <- MCWritable
  MaxWrites = 2
INVARIANT PrecedenceKept
INVARIANT CommandCoherent
INVARIANT CanonicalInSchema
INVARIANT FilesAgree
INVARIANT InvocationsAgree
CHECK_DEADLOCK FALSE
