SPECIFICATION Spec
CONSTANTS
  Devices <- MCDevices
  Explored <- MCExplored
  Raised <- MCRaised
  Pins = {0, 23, 161}
  Topics <- MCTopics
  Sources = {0, 1}
  Mults = {8, 20}
  Dividers = {2, 63}
INVARIANTS WritesLand BorrowedReturned PllFailureKnown RightRoutine TrimsMatchMode
PROPERTIES PllFeeds NoGlitch BootEnds
