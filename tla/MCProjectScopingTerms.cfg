SPECIFICATION ScopingSpec
CONSTANTS
  Detours = {"PAUSED", "DISPUTED", "CANCELED"}
  Requests = {r1, r2}
  Prompts = {v1}
  PayKeys = {k1}
  Bases = {1, 2}
  Amounts = {1}
  MaxQuotes = 2
  MaxVersion = 6
CHECK_DEADLOCK FALSE
PROPERTY
  TermsImmutableOnceSent
