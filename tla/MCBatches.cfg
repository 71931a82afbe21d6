SPECIFICATION FairSpec
CONSTANTS
  Products = {1, 2}
  High = {1, 2}
  Batches = {b1, b2}
  Manual = {}
  Users = {su}
  Admins = {su}
  Reviewers = {su}
  Approvers = {su}
  Nobody = Nobody
  Crashes = FALSE
  MaxPosts = 1
CHECK_DEADLOCK FALSE
INVARIANTS TypeOK OneActive NoDeadlock
PROPERTIES BatchEnds
