SPECIFICATION StaffingSpec
CONSTANTS
  Detours = {"PAUSED"}
  learner = learner
  lead = lead
  Requests = {r1, r2}
  Prompts = {v1, v2}
  PayKeys = {k1}
  Bases = {1, 2}
  Amounts = {1, 2}
  MaxQuotes = 2
  Students = {learner}
  Leads = {lead}
  Committed <- MCCommitted
  Cap <- MCCap
  Hours = {1}
  Pays = {1}
  MaxOffers = 2
  MaxPlans = 2
  MaxVersion = 10
SYMMETRY Symmetry
CHECK_DEADLOCK FALSE
INVARIANTS
  TeamSettled
PROPERTIES
  TeamFrozen
  WorkOnCurrentPlan
