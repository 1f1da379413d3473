\* The browser's view of conversations, part by part.
CONSTANTS
  a = a
  b = b
  none = none
  words = words
  e1 = e1
  e2 = e2
  e3 = e3
  w1 = w1
  w2 = w2
  Channels = {a}
  DMs = {b}
  PageSize = 1
  MaxMessages = 2
  HistoryCalls = 2
  MaxDrops = 1
  MaxEvents = 1
  Rooms = {a, b}
  Phrases = {words}
  Blank = blank
  Files = {f}
  ValidFiles = {f}
  MaxSends = 1
  Users = {me, ot}
  Me = me
  Messages = {m}
  Emojis = {e1, e2}
  MaxChanges = 2
  ReactionCalls = 2
  MaxNews = 1
  PanelCalls = 2
  MaxMoves = 1
  Texts = {w1, w2}
  FirstText = w1
  MaxEdits = 2
  MaxListings = 1
  MaxSaves = 3
SPECIFICATION Spec
CHECK_DEADLOCK FALSE
INVARIANTS
  HistoryAgrees
  UnreadIsUnseen
  ComposerAgrees
  BubbleAgrees
  PanelsAgree
  WritingAgrees
PROPERTY
  KeepsShown
