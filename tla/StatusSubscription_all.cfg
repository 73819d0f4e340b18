SPECIFICATION Spec
CONSTANTS
  None = None
  Values <- Statuses
  Unannounced <- SeenByUser
  Capacity = 2
  MaxChanges = 2
  MaxPushes = 4
CHECK_DEADLOCK FALSE
INVARIANT TypeOK EveryEventDelivered TimeoutHonest
PROPERTY FollowsFeed Converges
