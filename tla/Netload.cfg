\* Two sessions with different images over a lossy, damaging link.
SPECIFICATION Spec
CONSTANTS
  imgA = imgA
  imgB = imgB
  Images <- TwoImages
  Size <- MCSize
  CODERAM_SIZE = 3
  CHUNK = 2
  Retries = 2
  PASSES = 2
  Sessions = 2
  LinkCap = 2
  Lossy = TRUE
  Damaging = TRUE
  Damaged = Damaged
  Blank = Blank
  NoImage = NoImage
CHECK_DEADLOCK FALSE
INVARIANTS LoaderSound RunsAnnouncedImage
PROPERTIES HostEnds
