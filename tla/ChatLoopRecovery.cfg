CONSTANTS
  Updater = Updater
  Bot = Bot
  Callers = {Updater, Bot}
  Ids = {1, 2, 3, 4}
  MaxStalls = 1
  NoId = NoId
  Threshold = 3
SPECIFICATION FairChatLoopSpec
PROPERTIES BackOnceItAnswers
CHECK_DEADLOCK FALSE
