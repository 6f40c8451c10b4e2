SPECIFICATION Spec
CONSTANTS
  Channels = {1}
  Ids = {1, 2}
  NoId = NoId
  NoTime = NoTime
  NoChannel = NoChannel
  NoScreen = NoScreen
  Epoch = 10
  Horizon = 2
  Feeds <- MCFeedsTwoIds
INVARIANTS TypeOK StatesMatchData ScreenShowsWanted
PROPERTIES ChangesOnTime ImplementsLifecycle
