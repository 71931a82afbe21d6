SPECIFICATION Spec
CONSTANTS
  Findings = {f1, f2}
  RAs = {r1}
  Users = {con1, con2, rev, app, com}
  Privileged = {}
  Maintainers = {}
  Leaders = {}
  Contacts = {con1, con2}
  Reviewers = {rev}
  Approvers = {app}
  ComplianceTeam = {com}
  Compliance = {f2}
  Acceptors = 2
  Limit = 1
  Sla = 1
  DefaultDays = 1
  HeadsUp = 1
  EditDays = {0}
  Reactivate = {TRUE}
  LongTerm = {TRUE, FALSE}
  StalePages = FALSE
  MaxDay = 1
SYMMETRY ContactSymmetry
INVARIANTS AcceptedIsGoverned
PROPERTIES GrantNeedsAuthority RegisterSpec
