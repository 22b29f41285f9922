SPECIFICATION Spec
CONSTANTS
  Client = {c1, c2}
  Request = {c1, c2}
  Beat = {c1, c2}
  Decision = {c1, c2}
  Clerk = {c1, c2}
  Thing = {x1, x2}
  User = {x1, x2}
  Ticket = {x1, x2}
  Machine = {m1, m2}
  Address = {a1, a2}
  Place = {p1, p2, p3}
  Single = {s1}
  Agent = {s1}
  Proposal = {s1}
  Change = {s1}
  MaxAsked = 3
  MaxMessages = 4
  MaxRevoked = 2
  MaxReceived = 5
  Ttl = 1
  Cooldown = 1
  Window = 1
  rateLimit = 2
  Recent = 0
  MaxNotices = 3
  MaxUpdates = 1
  MaxCycles = 3
  MaxTime = 1
  MaxOutside = 1
  MaxRows = 2
  MaxImports = 2
  MaxWrites = 1
  MaxSeats = 3
  MaxAssigned = 7
  MaxHour = 1
  MaxPlanned = 3
  MaxCalls = 3
  MaxEdits = 5
INVARIANTS
  TypeOK
  AlertsHonest
  HostsHonest
  ImportHonest
  CollisionsNoticed
PROPERTIES
  AccountsGuarded
  RegistryHonest
  DeskHonest
SYMMETRY Symmetry
CHECK_DEADLOCK FALSE
