SPECIFICATION Spec
CONSTANTS
  RetryMax = 1
  Calls <- AllCalls
  Packets <- AllPackets
  MaxInbox = 1
INVARIANTS   TimerSparesCreate
PROPERTIES AnswerIsTaken
