SPECIFICATION FairSpec
CONSTANTS
  p1 = p1
  t1 = t1
  t2 = t2
  Points = {p1}
  Commands <- MixedCommands
  DefaultRT <- OneRT
  SubTopics <- TwoTopics
  MaxCommands = 2
  MaxReplies = 1
  MaxLosses = 1
  MaxFailures = 1
INVARIANTS TypeOK OnePublisher InOrder
PROPERTIES Delivered SubscribedAgain EveryReplyTaken
CHECK_DEADLOCK FALSE
