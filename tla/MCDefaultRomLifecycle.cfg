SPECIFICATION Spec
CONSTANTS
  Channels = {1, 2}
  Ids = {1}
  NoId = NoId
  NoTime = NoTime
  NoChannel = NoChannel
  NoScreen = NoScreen
  Epoch = 3
  Horizon = 0
  Feeds <- MCFeedsOneId
PROPERTIES ImplementsLifecycle
CONSTRAINT NotificationsOn
