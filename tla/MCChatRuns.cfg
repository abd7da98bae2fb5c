\* One run, two pages with queues of two, a back queue of one, three payloads.
CONSTANTS
  r1 = r1
  s1 = s1
  s2 = s2
  Run = {r1}
  Stream = {s1, s2}
  NoRun = NoRun
  BackQueueSize = 1
  SubscriberQueueSize = 2
  MaxPayloads = 3
SPECIFICATION Spec
CHECK_DEADLOCK FALSE
INVARIANTS
  TypeOK
  SubscriberLacksNothing
  TranscriptExact
  OverMeansGone
PROPERTIES
  EveryAnswerIsSent
  EveryStreamEnds
