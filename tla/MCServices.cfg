\* The gateway, workspaces, messages and accounts behind the API, part by part.
SPECIFICATION Spec
CONSTANTS
  ann = ann
  bob = bob
  r1 = r1
  r2 = r2
  r3 = r3
  x = x
  y = y
  Users = {ann, bob}
  Conns = {x, y}
  Capacity = 2
  MaxMessages = 2
  HubFailures = 1
  HubChanges = 1
  Creator = ann
  Invites = {x}
  AccessRequests = {r1, r2}
  AccessFailures = 1
  DirectRequests = {r1, r2, r3}
  DirectFailures = 1
  Rows = {r1, r2, r3}
  Processes = {x, y}
  Limit = 2
  ScheduleTime = 1
  ScheduleFailures = 2
  SearchRequests = {r1, r2, r3}
  SearchFailures = 1
  MaxStarts = 1
  Webhooks = {r1, r2}
  Workers = {x, y}
  MaxAttempts = 2
  WebhookFailures = 2
  Nodes = {1, 2, 3}
  Calls = {x}
  Addresses = {"a"}
  Circle = 2
  VirtualNodes = 2
  RingChanges = 3
  Attempts = {r1, r2, r3}
  Challenges = {x, y}
  Step = 1
  Drift = 1
  ReplayTTL = 4
  FactorTime = 4
  FactorFailures = 1
CHECK_DEADLOCK FALSE
INVARIANTS
  
  AccessAgrees
  MessagesAgree
