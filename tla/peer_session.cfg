CONSTANTS
  MaxDisconnects = 2
  EmptyThreshold = 1
  RemoteBudget = 3
SPECIFICATION FairSpec
INVARIANTS TypeOK SocketFollowsActive ReconnectsBounded DisconnectsBounded
PROPERTIES SendEnds IntroductionSpec
CHECK_DEADLOCK FALSE
