CONSTANTS
  Name = {n1, n2}
  Part = {p1}
  Old = 1
  MaxId = 2
  MaxLog = 3
  MaxRival = 1
SPECIFICATION Spec
INVARIANTS
  ViewIsReplay
  PublishesWhatWasSeen
