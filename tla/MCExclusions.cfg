SPECIFICATION FairSpec
CONSTANTS
  Exclusions = {x1}
  Findings = {f1}
  Inside = {f1}
  Types = {"white_list", "black_list", "zero_day"}
  Scopes = {FALSE}
  EditTypes = {}
  EditStatuses = {}
  StalePages = FALSE
  MaxFailures = 1
INVARIANTS ListedWasAccepted
PROPERTIES DueExpires CoveredIsListed
