CONSTANTS
  MaxImages = 3
  ImageRetention = 2
  MaxTime = 2
  Cooldown = 2
  MinDelay = 1
  Quiet = 1
  MaxDelay = 2
  Grace = 1
  Night = 2
  MaxPoints = 2
  MaxSummaries = 1
  Options <- MCOptions
  Frames <- MCFrames
  Never = Never
SPECIFICATION ImagePostsSpec
PROPERTIES BaselineSeedsThePlot
CHECK_DEADLOCK FALSE
