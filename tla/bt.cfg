SPECIFICATION Spec
CONSTANTS
  FileLen <- TwoFiles
  PieceLen = 2
  Proc = {r1, r2}
  None = none
  MoveBack = FALSE
  RatioLimit = 1
  MaxUpload = 1
  MaxBad = 1
  MaxEdits = 2
SYMMETRY Symmetry
INVARIANTS WholeWhenSeeding KnownIsGood OneWriter
PROPERTIES UploadsCounted
CHECK_DEADLOCK FALSE
