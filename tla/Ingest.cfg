SPECIFICATION Spec
CONSTANTS
  e = e
  f = f
  g = g
  Legacy = Legacy
  NoCode = NoCode
  NoEdge = NoEdge
  NoCache = NoCache
  Codes <- MCCodes
  Seeded = e
  Frames <- MCFrames
  Target <- MCTarget
  Names <- MCNames
  NameLen <- MCNameLen
  TTL = 2
  Latency = 1
  Limit = 51
  Schemas <- MCSchemas
  Budgets <- MCBudgets
INVARIANTS
  TypeOK
  LostOnlyToDeletion
  NothingVanishes
  FlaggedOnlyWhenChanged
  OversizedOnlyWarned
  SchemaCurrent
PROPERTIES
  StaleBound
  EdgeColumnKept
