\* The apps, the login the hub link and the registry client behind one connection.
SPECIFICATION FairSpec
CONSTANTS
  Handlers = {h1, h2}
  Free = Free
  Loads <- SmallLoads
  Names = {1, 2, 3}
  Fold <- CaseFold
  Settings = {"v1", "v2"}
  Docs <- SmallDocs
  Files <- SmallFiles
  MaxId = 3
  MaxToken = 4
  Browsers = {b1, b2}
  Passwords = {p1}
  Default = Default
  Unset = Unset
  MaxSecret = 5
  Users = {u1, u2}
  Hubs = {hub1}
  HubTokens = {t1, t2}
  Mask = Mask
  Empty = Empty
  Callers = {poller}
  Editors = {e1, e2}
  Right = Right
  Wrong = Wrong
  Masked = Masked
  NoCred = NoCred
INVARIANTS
  TypeOK
  TargetsBelong
  UnflaggedMeansCutShort
  RevokedStaysOut
  LoginStaysValid
  LinkIsSaved
PROPERTIES
  ImplementsTable
  FailuresWriteNothing
  RequestsReturn
  CredsTakeEffect
CHECK_DEADLOCK FALSE
