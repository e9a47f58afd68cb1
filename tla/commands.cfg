SPECIFICATION FairSpec
CHECK_DEADLOCK FALSE
CONSTANTS
  Nil = Nil
  Callers = {h1, h2}
  Deliverer = d1
  Jobs = {j1, j2}
  Contents = {o1, o2}
  Instants = {1, 2}
  MaxFaults = 1
INVARIANTS
  ProtocolTypeOK
  EffectsAreRecorded
  CitedEvidenceIsStored
PROPERTIES
  EvidenceIsWriteOnce
  CommandsAreWriteOnce
  CallsEndAndEventsArrive
