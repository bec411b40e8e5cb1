SPECIFICATION MCSpec
CONSTANTS
  Key = {SERVICE_PASSWORD, SMTP, OTHER}
  Password = SERVICE_PASSWORD
  Listed = {SMTP}
  Required = {SMTP}
  MaxEdits = 2
  Proc = {p, q}
  Site = {a, b}
  Fqdn = {x, y}
  Port = {1, 2}
  None = None
  Bare = Bare
  MaxCommands = 3
SYMMETRY Interchangeable
INVARIANTS
  OnlyCoolifyParts
  FixOkConnects
  OkServes
  OwnDomain
CHECK_DEADLOCK FALSE
