\* One document of most sources.
SPECIFICATION Spec
CONSTANTS
  Files = {f}
  Calls = {k}
  CaseTypes = {t}
  Tiers = {}
  Labels = {}
  Callers = {p, q}
  Names = {{p, q}}
  Sizes <- MCSizes
  ParentLimit = 400
  ChildLimit = 100
  Seeds = {s1, s2}
  Batch = 2
  MaxRecords = 2
  MaxEvents = 1
  MaxPasses = 2
  MaxFaults = 1
INVARIANTS
  StoredChunksAreTheText
  PassCoversEverySource
PROPERTIES
  RerunAddsNothing
  LoneIngestHeals
SYMMETRY MCSymmetry
CHECK_DEADLOCK FALSE
