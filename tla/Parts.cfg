CONSTANTS
  house = house
  cabin = cabin
  None = None
  NoPanel = NoPanel
  Entries = {house, cabin}
  Graphed = {house}
  MayFail = {house}
  MaxSetups = 2
  MaxChanges = 2
  Answer <- Lights
  Garbled = "garbled"
  EmptyDeltas = FALSE
  Watchable = {"door", "light"}
  Values = {"on", "off", "unknown"}
  Ignored = {"unknown"}
  MinInterval = 2
  MaxClock = 2
  Requests = {"refresh", "create", "read", "admin"}
  ProbeOf <- EachItsOwn
  MailAdmins = {}
  Habits = {"lamp"}
  DayLength = 4
  Bucket = 2
  Weekdays = {0, 1}
  MinDays = 2
  MinOccurrences = 2
  Retention = 5
  MaxObservations = 4
  Skew = 1
  MaxMoment = 8
  MaxRecorded = 5
  HomeEntities = {"lamp", "fan"}
  HomeDevices = {"hub"}
  HomeAreas = {"hall", "attic"}
  Nowhere = "nowhere"
  IncludeAll = FALSE
  MaxEdits = 1
  Updaters = {"u1", "u2"}
  Installs = {"i1", "i2"}
  Archive <- ThreeReleases
  VersionFile = "const"
  MaxRestarts = 1
SPECIFICATION PartsSpec
INVARIANTS
  PartsTypeOK
  OnlyFailedSetupsLeak RunsItsOptions PanelResolves
  SaysTheAnswer
  ReasonIsTrue ToldItsOwnReason
  Supported OneIdEach
  SnapshotIsClosed
  NotifiesWhole BusyWhileInstalling
PROPERTIES
  OptionsTakeEffect
  OneSessionPerInterval
  PrunedToTheWindow
CHECK_DEADLOCK FALSE
