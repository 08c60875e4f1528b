\* Closes of one period, run after run, with runs that die between two writes.
SPECIFICATION Spec
CONSTANTS
  Missions = {m1, m2}
  MaxRuns = 4
  MaxFaults = 2
  NoMission = NoMission
INVARIANTS
  ExportsStand
  LostClosesBounded
  
CHECK_DEADLOCK FALSE
