SPECIFICATION FairSpec
CONSTANTS
  Findings = {f1}
  RAs = {r1, r2}
  Users = {dev, com, con1}
  Privileged = {}
  Maintainers = {}
  Leaders = {}
  Contacts = {con1}
  Reviewers = {}
  Approvers = {}
  ComplianceTeam = {com}
  Compliance = {f1}
  Acceptors = 2
  Limit = 1
  Sla = 1
  DefaultDays = 1
  HeadsUp = 1
  EditDays = {2}
  Reactivate = {TRUE}
  LongTerm = {TRUE, FALSE}
  StalePages = TRUE
  MaxDay = 1
INVARIANTS TypeOK StatusCoherent AbandonedIsFree LimitHolds
PROPERTIES ExpiryReopens
