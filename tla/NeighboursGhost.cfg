SPECIFICATION FairSpec
CONSTANTS
  Peers = {self, a}
  Self = self
  Clients = {}
  Wanted = {a}
  NoPeer = NoPeer
  SubCap = 1
  MaxInFlight = 1
PROPERTY DownIsForgotten
