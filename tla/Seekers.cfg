SPECIFICATION SeekFairSpec
CONSTANTS
  Peers = {self, a}
  Self = self
  Clients = {}
  Wanted = {self, a}
  NoPeer = NoPeer
  SubCap = 1
  MaxInFlight = 1
INVARIANTS TypeOK TrackedLeaves SeekersOK
PROPERTIES TableIsMembership Discovered PollEnds OnlyLookWaits SearchEnds
