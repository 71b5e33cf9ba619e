SPECIFICATION FocusSpec
CONSTANTS
  Detours = {"DISPUTED"}
  learner = learner
  lead = lead
  Requests = {r1, r2}
  Prompts = {v1, v2}
  PayKeys = {k1}
  Bases = {1}
  Amounts = {1, 2}
  MaxQuotes = 2
  Students = {learner}
  Leads = {lead}
  Committed <- MCHours
  Cap <- MCCap
  Hours = {1}
  Pays = {1}
  MaxOffers = 2
  MaxPlans = 1
  Added = {1}
  Rounds = 1
  MaxDeliverables = 2
  MaxReviews = 2
  MaxChanges = 2
  MaxVersion = 15
SYMMETRY Symmetry
CHECK_DEADLOCK FALSE
INVARIANTS
  FundedWork
  OrdersAnswerRequests
PROPERTY
  ReleasedOnEvidence
