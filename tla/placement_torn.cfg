SPECIFICATION Spec
CONSTANTS
  NThreads = 6
  Molders = {0, 5}
  Widths <- DefaultWidths
  GivenWidths = {1}
  SettleAfter = 2
  Modeling <- OnlyModeling
  MoldTask <- OnlyMold
INVARIANT
  MembersExist
