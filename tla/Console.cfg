SPECIFICATION ConsoleSpec
CONSTANTS
  Areas <- AllAreas
  theTheme = theTheme
  theHost = theHost
  web = web
  cache = cache
  backup = backup
\* Variables
  Scopes = {A, B}
  Names <- TwoNames
  Values = {v}
  Empty = Empty
  Unfit = Unfit
  Bad = Bad
  Null = Null
  Blank = Blank
  Absent = Absent
  NotLoaded = NotLoaded
  NoPage = NoPage
  RoleNames <- DeclaresTheme
  Awaits = TRUE
  MaxRows = 2
  MaxSaves = 1
  MaxActs = 2
\* Memberships
  Groups = {g, h}
  MaxClicks = 2
  MaxWrites = 1
\* RoleOrder
  RoleList <- ThreeRoles
  MaxRequests = 2
  MaxStrangers = 1
\* Tokens
  TokenIds = {t, u}
  Machines = {k, l}
  UseLimits = {1}
\* Approvals
  Clones = {k, l}
  Admins = {a, b}
  MaxPolls = 4
  MaxLosses = 1
\* Fleet
  FleetSize = 2
  PageSize = 1
  MaxActions = 1
\* Accounts
  People = {a, b, s, n}
  Consoles = {a, b}
  SsoUsers = {s}
  Typists = {a}
  MaxUpdates = 2
  MaxSso = 1
\* SignIn
  Calls = {k}
  MaxSessions = 2
  MaxSpoils = 2
\* Rollouts
  Hosts = {d, e}
  MaxBatches = 2
  MaxJobs = 3
  MaxGroupEdits = 1
\* Sources
  Places = {here, there}
  HttpPlaces = {there}
  Editors = {a}
  MaxEdits = 1
  MaxSyncs = 2
INVARIANTS
  ConsoleTypeOK
  TogglesAddUp TicksAreTrue MovesAddUp
  UsesAreCounted EveryTokenIsShown OneDevicePerApproval NoGhosts
  RowsAreReachable AnAdminRemains PasswordsGoWhereTyped NobodyIsThrownOut
  CanaryGoesFirst OncePerDevice EditsStand AlertedOncePerOutage
PROPERTIES
  DecisionsStand SuccessIsWhole DraftsSurvive SavesKeepTheRest
CHECK_DEADLOCK FALSE
