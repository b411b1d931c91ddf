SPECIFICATION FairSpec
CONSTANTS
  N = 3
  SizeLen = 2
  Size <- SizeThree
  Window = 4
  Onces = {TRUE, FALSE}
INVARIANTS TypeOK NilDropsSizeOnly OnceTakesOne
PROPERTIES ImplementsChannel AllArrive
CHECK_DEADLOCK FALSE
