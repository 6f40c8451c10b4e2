SPECIFICATION FairSpec
CONSTANTS
  Channels = {1}
  Ids = {1, 2}
  NoId = NoId
  NoTime = NoTime
  NoChannel = NoChannel
  NoScreen = NoScreen
  Epoch = 3
  Horizon = 1
  Feeds <- MCFeedsTwoIds
PROPERTIES ActiveAnnounced
