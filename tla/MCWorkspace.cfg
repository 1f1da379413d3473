\* The search, the notifications, the media and the pages, part by part.
CONSTANTS
  a = a
  b = b
  c = c
  none = none
  v = v
  w = w
  f = f
  g = g
  x = x
  y = y
  z = z
  Events = {x, y}
  Sources = {a, b}
  ConvOf <- EventConv
  Replies = {x}
  ReadCalls = 2
  Files = {f, g}
  Buttons = {x, y, z}
  FileOf <- ButtonFile
  PanelSize = 2
  Pictures = 2
  MaxZoom = 5
  MaxDownloads = 3
  MediaChanges = 4
  Workspaces = {w, v}
  Rooms = {a, b, c}
  HomeOf <- ConvHome
  HistorySize = 2
  MaxBoots = 2
  MaxMoves = 3
  Scopes = {x, y}
  PagesOf <- ScopePages
  SearchChanges = 3
  Photos = {ph}
  Names = {nm}
  UserName = nm
  Presences = {"active", "away"}
  Cards = {card}
  Kinds = {k}
  ProfileCalls = 3
  Messages = {m}
  Conversations = {a}
  Members = {ot}
  ListCalls = 3
  TopAttempt = 2
  HubCalls = 3
  Widths = {0, 24, 30}
  DefaultWidth = 24
  Columns = {a, b}
  Tasks = {x, y, z}
  Channels = {a}
  DMs = {b}
  MaxVisits = 2
  MaxItems = 2
SPECIFICATION Spec
CHECK_DEADLOCK FALSE
INVARIANTS
  NotificationsAgree
  DownloadsLeave
  TabAgrees
  PagesAgree
