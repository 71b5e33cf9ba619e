SPECIFICATION PersistentSpec
CONSTANTS
  Detours = {}
  learner = learner
  lead = lead
  Requests = {r1}
  Prompts = {v1}
  PayKeys = {k1, k2}
  Bases = {1}
  Amounts = {1}
  MaxQuotes = 1
  Students = {learner}
  Leads = {lead}
  Committed <- MCHours
  Cap <- MCCap
  Hours = {1}
  Pays = {1}
  MaxOffers = 2
  MaxPlans = 1
  Added = {1}
  Rounds = 1
  MaxDeliverables = 1
  MaxReviews = 1
  MaxChanges = 1
  MaxVersion = 15
CHECK_DEADLOCK FALSE
PROPERTY
  ChangeCarriedOut
