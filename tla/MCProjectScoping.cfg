SPECIFICATION ScopingSpec
CONSTANTS
  Detours = {"PAUSED", "DISPUTED", "CANCELED"}
  Requests = {r1, r2}
  Prompts = {v1, v2}
  PayKeys = {k1, k2}
  Bases = {1, 2}
  Amounts = {1}
  MaxQuotes = 2
  MaxVersion = 6
SYMMETRY Symmetry
CHECK_DEADLOCK FALSE
INVARIANTS
  TermsOnRecord
  FundingCountedOnce
