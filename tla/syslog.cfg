CONSTANTS
  once = once  follow = follow
  Size = 5
  Lengths <- MCLengths
  Readers <- MCReaders
  Followers <- MCFollowers
  MaxMessages = 3
  MaxKills = 1
SPECIFICATION FairSpec
INVARIANTS TypeOK Apart WholeMessages PrintsAll FollowsInOrder
PROPERTIES Logged CatchesUp
CHECK_DEADLOCK FALSE
