SPECIFICATION FairSpec
CONSTANTS
  Transfers = {t1}
  Findings = {f1}
  Copies = {c1}
  c1 = c1
  Acceptances = {a1}
  EditTo = {"running"}
  Failing = {t1}
  CopyOf <- OneCopy
PROPERTIES AcceptanceEnds
