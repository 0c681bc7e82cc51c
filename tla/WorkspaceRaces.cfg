SPECIFICATION FairSpec
CONSTANTS
  Callers = {c1}
  Places <- MCPlaces
  Root = "root"
  Outside = {"out"}
  Names <- MCNames
  Files <- MCFiles
  Outer = {"f3", "f5"}
  NoFile = NoFile
  Texts <- MCTexts
  Blocks <- MCBlocks
  Old = "old"
  Binary = "binary"
  Hole = "hole"
  MaxBytes = 2
  Rels <- MCRels
  Moves <- MCMoves
  Edits <- MCEdits
  Trees <- MCTrees
  Disk = TRUE
  MaxCalls = 2
INVARIANTS StaysInside WriteLeavesOneText ReadIsTrue
PROPERTIES CallsReturn
