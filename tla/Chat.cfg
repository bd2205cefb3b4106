CONSTANTS
  RigMenus <- MCRigMenus
  MaxLog = 4
  EventRetention = 3
  SeenCapacity = 3
  Nothing = Nothing
  Classes = {"error", "log"}
  Prints = {"e1", "e2", "e3", "l1"}
  Class <- MCClass
  Capacity <- MCCapacity
  Refill <- MCRefill
  RepeatInterval = 3
  MaxFingerprints = 3
  MaxInstant = 7
  NotAccepted = NotAccepted
  Keys = {k1, k2}
  MaxKeys = 2
  MaxRefused = 1
  NoticeInterval = 1
  MaxCount = 2
  MaxDropped = 3
  MaxEpoch = 2
  Channels = {c1, c2}
  MaxReports = 2
  MaxAttempts = 2
  MaxDoubts = 1
  NoChannel = NoChannel
  SequenceMenus <- MCSequences
  NoOutput = NoOutput
  NoTarget = NoTarget
  MaxDepth = 2
  MaxItems = 2
  Unsaid = Unsaid
  MaxImages = 3
  ImageRetention = 2
  MaxTime = 2
  Cooldown = 2
  MinDelay = 1
  Quiet = 1
  MaxDelay = 2
  Grace = 1
  Night = 2
  MaxPoints = 2
  MaxSummaries = 1
  Options <- MCOptions
  Frames <- MCFrames
  Never = Never
  StatusCells <- MCCells
  MaxPosts = 3
  BotChannels = {c1, c2}
  MaxSendAttempts = 4
  MaxTries = 6
  Absent = Absent
  ViewTrees <- MCViewTrees
  ViewEvents <- MCViewEvents
  MaxChanges = 3
  MaxShown = 2
  FailedItems = {f1}
  Unnamed = Unnamed
  NoFailure = NoFailure
INIT ChatInit
NEXT ChatNext
INVARIANTS AnnouncedOnce RevokedStateIsGone NoticesAreTrue ReportedOnce OutputsPostedOnce UpdatesAreTrue BoundaryHolds OneFreshStatus EachOnItsOwn NothingWithheldIsShown EndsAreHonest
PROPERTIES RepeatsSuppressed AcknowledgedWhenDelivered
CHECK_DEADLOCK FALSE
