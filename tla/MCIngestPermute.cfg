SPECIFICATION Spec
CONSTANTS
  w1 = w1  w2 = w2
  MaxObject = 3  MaxObjects = 10  MinSeamPart = 2  MinAlignment = 2
  DirectAlign = 2  BounceCells = 2
  Files <- MCFiles  Contracts <- MCContracts  Inodes = {1, 2}
  Workers = {w1, w2}  HashBuffer = 2  MaxChanges = 1  MaxFaults = 1
  Importable <- MCImportable  Packaged <- MCPackaged
  NameMaps <- MCNameMaps  Adoptions <- MCAdoptions
  Derivations <- MCDerivations  MaxComposed = 2
  Planned <- PlanOnce  Recomposed <- Recompose  Readopted <- Adopt
  Derived <- Derive  Listed <- Inventory  CutBy <- RunsOf
  Streamed <- StreamRead  Decided <- Decide  Roles <- RoleBytes
CHECK_DEADLOCK FALSE
INVARIANT PermutesUndone
