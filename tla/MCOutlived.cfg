SPECIFICATION Spec
CONSTANTS
  Findings = {f1}
  RAs = {r1}
  Users = {dev, con1}
  Privileged = {}
  Maintainers = {}
  Leaders = {}
  Contacts = {con1}
  Reviewers = {}
  Approvers = {}
  ComplianceTeam = {}
  Compliance = {}
  Acceptors = 1
  Limit = 1
  Sla = 1
  DefaultDays = 1
  HeadsUp = 1
  EditDays = {0}
  Reactivate = {TRUE}
  LongTerm = {FALSE}
  StalePages = FALSE
  MaxDay = 1
INVARIANTS ExpiredIsReactivated
