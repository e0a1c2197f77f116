SPECIFICATION Spec
CONSTANTS
  Clients = {c1, c2}
  Main = Main
  MaxFaults = 1
  MaxLeases = 2
SYMMETRY Symmetry
INVARIANTS
  OpenIsMarked
  LockedIsClosed
  CredentialLeased
  FaultContained
PROPERTY MarkerOutlivesFault
