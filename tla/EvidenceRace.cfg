\* Two sessions append to and project the evidence of one mission at once.
SPECIFICATION Spec
CONSTANTS
  tra = tra
  con = con
  act = act
  e1 = e1
  e2 = e2
  e3 = e3
  Sessions = {s1, s2}
  NodeIds = {tra, con, act}
  EdgeIds = {e1, e2, e3}
  Contents = {c1}
  Batches <- BatchesRace
  Terminals <- TerminalsRace
  MaxFaults = 1
  NoContent = NoContent
INVARIANTS
  TypeOK
  EdgesAnchored
  CitationsGrounded
  QuietGraphsSound
  
  ProjectionBounded
  CyclesFound
  LineageOrdered
PROPERTIES
  EvidenceGrows
SYMMETRY SessionSymmetry
