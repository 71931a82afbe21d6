SPECIFICATION FairSpec
CONSTANTS
  Products = {1}
  High = {1}
  Batches = {b1}
  Manual = {b1}
  Users = {rev, app, su}
  Admins = {su}
  Reviewers = {rev}
  Approvers = {app}
  Nobody = Nobody
  Crashes = TRUE
  MaxPosts = 2
CHECK_DEADLOCK FALSE
INVARIANTS Audited
PROPERTIES AllAreTold
