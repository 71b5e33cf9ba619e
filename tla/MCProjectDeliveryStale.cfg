SPECIFICATION DeliverySpec
CONSTANTS
  Detours = {}
  learner = learner
  lead = lead
  Requests = {r1}
  Prompts = {v1}
  PayKeys = {k1}
  Bases = {1}
  Amounts = {1}
  MaxQuotes = 1
  Students = {learner}
  Leads = {lead}
  Committed <- MCHours
  Cap <- MCCap
  Hours = {1}
  Pays = {1}
  MaxOffers = 2
  MaxPlans = 1
  Added = {1}
  Rounds = 1
  MaxDeliverables = 2
  MaxReviews = 2
  MaxChanges = 2
  MaxVersion = 15
CHECK_DEADLOCK FALSE
INVARIANT
  ReleasedIsReviewed
