SPECIFICATION Spec
CONSTANTS
  w1 = w1  w2 = w2  h1 = h1  h2 = h2
  MaxObject = 3  MaxObjects = 10  MinSeamPart = 2  MinAlignment = 2
  DirectAlign = 2  BounceCells = 2
  FoldOf <- MCFold  RankOf <- MCRank  MaxPath = 2  MaxRecords = 4
  Names = {w1, w2}  Holders = {h1, h2}  Seams <- MCSeams
  Starts <- MCStarts  Batches <- MCBatches  Leasable <- MCLeasable
  MaxAttempts = 3  MaxCalls = 4
  Planned <- PlanOnce  Resolved <- ResolveTree  Finished <- Finish
CHECK_DEADLOCK FALSE
SYMMETRY MCSymmetry
INVARIANTS InodesAccounted HeadBuilds TruncateCutsBytes SealSettles
  CloneReseals
PROPERTY SealKeepsContents
