SPECIFICATION FairSpec
CONSTANTS
  Phases = 2
  Tries = 2
  Guests = {g1}
INVARIANTS TypeOK Unanswered LeftBehind
PROPERTIES OnlyLossEnds LostCallsEnd GuestsServed
CHECK_DEADLOCK FALSE
