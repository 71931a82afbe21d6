SPECIFICATION FairSpec
CONSTANTS
  Endpoints = {e1}
  Senders = {s1, s2}
  Repair = 1
  Day = 2
INVARIANTS OutagesAreDated
PROPERTIES TakenBack HealthyAgain FlakyIsRetired
