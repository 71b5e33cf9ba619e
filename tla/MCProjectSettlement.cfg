SPECIFICATION SettlementSpec
CONSTANTS
  learner = learner
  lead = lead
  Detours = {"DISPUTED"}
  Requests = {r1, r2}
  Prompts = {v1}
  PayKeys = {k1}
  Bases = {2}
  Amounts = {2, 3}
  MaxQuotes = 1
  Students = {learner}
  Leads = {lead}
  Committed <- MCHours
  Cap <- MCCap
  Hours = {1}
  Pays = {1, 2}
  MaxOffers = 3
  MaxPlans = 1
  Added = {1}
  Rounds = 1
  MaxDeliverables = 1
  MaxReviews = 1
  MaxChanges = 1
  Coordinators = {ann, cat}
  Admins = {ann, bob}
  PayoutAmounts = {1, 2}
  PayoutKeys = {p1, p2}
  References = {e1, e2}
  MaxAllocations = 2
  MaxVersion = 22
SYMMETRY Symmetry
CHECK_DEADLOCK FALSE
INVARIANTS
  PaidWithinFunds
  PaidOnce
PROPERTY
  CompletedIsSettled
