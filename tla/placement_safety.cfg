SPECIFICATION Spec
CONSTANTS
  NThreads = 6
  Molders = {1, 4, 5}
  Widths <- DefaultWidths
  GivenWidths <- Dividing
  SettleAfter = 2
  Modeling <- EitherModeling
  MoldTask <- EitherMold
INVARIANTS
  SettledOnWidth
  PlaceAllowed
