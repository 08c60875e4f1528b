\* One session, two intents, two faults anywhere.
SPECIFICATION Spec
CONSTANTS
  NoMission = NoMission
  Missions = {m1}
  Sessions = {s1}
  Intents = {"monthly-close", "reconciliation"}
  Modes = {1, 3}
  MaxFaults = 2
  MaxLog = 30
INVARIANTS
  TypeOK
  SnapshotsSound
  OneEventPerVersion
  EqualVersionsAgree
  LostEventsBounded
  CompletedKeysLogged
PROPERTIES
  WaitsHeld
  KeepsPromise
