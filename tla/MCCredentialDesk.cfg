SPECIFICATION CredentialSpec
CONSTANTS
  Callers = {c1, c2}
  RevocationKeys = {k1, k2}
  KeyRings = {1}
  MaxCredentials = 2
  MaxChecks = 0
CHECK_DEADLOCK FALSE
INVARIANT OneCredential
