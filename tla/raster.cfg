\* A side of 4 stands for u16::MAX: tilting a 3 by 3 image passes it.
CONSTANTS
  Resized <- MCResized
  Tilts <- MCTilts
  Qualities = {"default", "gray", "bitonal"}
  Formats = {"jpg", "png", "tif", "gif", "webp", "jp2", "pdf"}
  MaxSide = 4
SPECIFICATION Spec
INVARIANTS
  TypeOK
  QuarterTurnsExact
  CanvasHoldsTheImage
  UpsideDownAgrees
  NoColourInvented
  CornersAreWhite
CHECK_DEADLOCK FALSE
