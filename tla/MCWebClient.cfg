SPECIFICATION WebSpec
CONSTANTS
  Configurations <- MCConfigurations
  ApiStatuses = {200, 403, 500}
  Accounts <- MCAccounts
  RoleOfAccount <- MCRoleOfAccount
  Queries = {"session", "offers", "projects"}
  ShPages <- MCPages
  AppEnv = "demo"
  DemoMode = TRUE
  MaxWrites = 1
  MaxShFaults = 1
  owner = owner
  coord = coord
  Tabs <- MCTabs
  TabRole <- MCTabRole
  Deposit = 1
  Receipts = {e1}
  MaxPresses = 10
  MaxOffers = 1
  MaxFaults = 1
  Texts = {"a"}
  MaxUploads = 1
  MaxSdVersion = 4
  MaxReloads = 2
  Essays = {"a", "b"}
  Weeks = 2
  MaxIpVersion = 2
  Students = {"me", "other"}
  Me = "me"
  MaxProposals = 2
  Modules = 2
  DemoFallback = TRUE
  Bodies = {"a", "b"}
  Owners = {"o1"}
  MaxKeys = 2
  MaxPosts = 3
  MaxIdFaults = 1
  MaxReviews = 3
  MaxSubmits = 2
  MaxCiReloads = 2
  Callers = {c1, c2}
  RevocationKeys = {k1}
  KeyRings = {1, 2}
  MaxCredentials = 1
  MaxChecks = 1
  SandboxHours = {10, 31}
  SandboxRates = {40, 85}
  MaxInputs = 3
  Notices = {n1}
  Jobs = {j1}
  KeySets <- MCKeySets
  MinCohort = 2
  MaxRdInputs = 3
  SuTabs = {t1, t2}
  Cohorts = {"ca", "cb"}
  ProgramOf <- MCProgramOf
  Eligible = {"ca"}
  MaxSuInputs = 6
CHECK_DEADLOCK FALSE
INVARIANTS
  AnswersAreTrue
  DataOfTheSession
  WritesAreShown
  OffersLegalMoves
  NoticeIsEarned
  
  ActedOnAsRead
  DecisionsAgree
  ReceivedIsStored
  CompleteDraftKept
  RevocationHonoured
  SandboxIsConsistent
  NoticesAreTrue
  SuppressedStaysHidden
  AppliedAsChosen
PROPERTIES
  QueryEnds
  ImplementsProtocol
  VerdictShown
  PrivacyIsTerminal
