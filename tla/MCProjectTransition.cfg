SPECIFICATION Spec
CONSTANTS
  p1 = p1
  p2 = p2
  owner = owner
  coord = coord
  learner = learner
  Projects <- MCProjects
  Users <- MCUsers
  RoleOf <- MCRoleOf
  Access <- MCAccess
  Keys = {k1, k2, k3}
  Targets = {"SCOPING", "PAUSED", "CANCELED"}
  MaxVersion = 4
  MaxRequests = 3
CHECK_DEADLOCK FALSE
INVARIANTS
  HistoryChains
  AckedIsRecorded
  AppliedAsSeen
PROPERTY
  NoReturn
SYMMETRY KeySymmetry
