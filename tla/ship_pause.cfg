SPECIFICATION FairSpec
CONSTANTS
  g1 = g1
  g2 = g2
  NoShip = NoShip
  Ships = {g1, g2}
  MaxJobs = 2
  Ttl = 1
  LastTick = 4
INVARIANTS
  ForeignMarkerSurvives
  FinallyClearsMarker
PROPERTIES
  ProofIsQuiet
  WorkerResumes
