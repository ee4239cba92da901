CONSTANTS
  u1 = u1
  u2 = u2
  t1 = t1
  t2 = t2
  None = None
  Users = {u1, u2}
  Threads = {t1, t2}
  MaxRequests = 3
  MaxFaults = 1
  Blogs = {1, 2, 3, 4, 5}
  PageSize = 2
  StartTime = 1
  MaxTime = 2
  Reader = u1
  FeedsAtStart <- FourOfOneTime
  InfosAtStart <- OneOrBoth
  LikersAtStart = {u2}
SPECIFICATION FairBlogsSpec
INVARIANTS
  BlogsTypeOK
  SetFollowsRows
  CountersNotBelowRows
  LikesWithinSlips
  ScrollComplete
PROPERTIES
  ScrollEnds
CHECK_DEADLOCK FALSE
