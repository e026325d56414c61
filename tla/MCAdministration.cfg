\* Three requests for two permits and one gate; every operation of the
\* catalogue for one request; every defect of an assertion for two requests;
\* three requests around refreshes of the keys, with one change of them;
\* two edits of a draft with one request, one edit with two.
SPECIFICATION MCSpec
SYMMETRY Symmetry
CONSTANTS
  Parts = {"permits", "catalogue", "credentials", "refreshes", "edits", "savings"}
  k1 = k1
  k2 = k2
  r1 = r1
  r2 = r2
  r3 = r3
  Requests = {r1, r2, r3}
  Operations <- RoutedOperations
  RolesOf <- MCRoles
  MaximumConcurrent = 2
  MaximumRequests = 2
  MayCrash = TRUE
  AccessRequests = {r1, r2, r3}
  Credentials <- MCCredentials
  Keys = {k1, k2}
  Audience = "atlas"
  Issuer = "tenant"
  Humans = {"ana"}
  ServiceTokens <- MCServiceTokens
  CacheLifetime = 3
  FailureCooldown = 2
  RequestTimeout = 1
  Tolerance = 1
  MaxKeys = 2
  MaxTime = 4
  MaxRotations = 1
  Nothing = Nothing
  Days <- Weekend
  DayTimes = {"morning", "evening"}
  Reversed = "reversed"
  Blank = "blank"
  Policies <- MCPolicies
  MaxEdits = 2
  MaxEditors = 2
  MaxRequests = 1
INVARIANTS
  EffectsAreAuthorized
  AnswersAreTrue
  HandlersMatchCatalog
  PermitsBalance
  OnlyGenuineIsLetIn
  EditorKeepsPolicies
PROPERTIES
  RefreshesAreRationed
CHECK_DEADLOCK FALSE
