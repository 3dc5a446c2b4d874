CONSTANTS
  Mentions <- SomeMentions
  Answers <- SomeAnswers
  MaxComments = 3
  MaxIds = 3
  MaxResets = 1
  MaxCrashes = 1
  Commands = {"first", "second"}
  Calls = {"small", "large"}
  Price <- Prices
  Reported = {2}
  CostLimit = 1
  MaxStream = 3
  Hooks = {"h1", "h2"}
  Items = {"a"}
  CheckWait = 8
  Transit = 1
  Callers = {"k1", "k2"}
  ToolCalls <- Tools
  Targets = {"own", "another"}
  OwnCard = "own"
  Active = {"ann", "bob"}
  Email <- Emails
  NameHas <- NamesHave
  Spots = {"b1", "b2", "doing"}
  Columns = {"doing"}
  Title <- Titles
  BoardOf <- Boards
  Edited = {"ann"}
  MaxPosts = 1
  Users = {"ann", "eve"}
  TrustedUsers = {"ann"}
  Words = {"w1", "w2"}
  MaxChanges = 2
  MaxWire = 2
  People = {"claude", "ann"}
  Accounts = {"work", "home"}
  HomesOf <- Homes
  Invites = {"work"}
  Cards = {"c1", "c2"}
  TurnTimeout = 2
  Grace = 1
  CardMentions = {"a", "b", "d"}
  CardOf <- OnCard
  Trusted = {"a", "d"}
  MaxEvents = 2
  MaxStops = 2
SPECIFICATION PartsSpec
INVARIANTS
  PartsTypeOK
  RunsWithItsState
  SocketIsOwn
  VerdictFollowsStream
  UsageKept
  NothingLeftBehind
  TakenIsDelivered
  DoneAsSaid
  WorkIsProven
  MentionGetsWorkOrNotice
  WakeupKept
  ConfigIsOfOneUser
  CookieIsBots
  OpenLogKept
  NoMentionLost
  QueuedOnceInOrder
  NotModifiedMissesNothing
  SessionKnowsItsCard
  HandledIsTaken
PROPERTY MailKept
CHECK_DEADLOCK FALSE
