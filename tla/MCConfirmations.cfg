SPECIFICATION Spec
CONSTANTS
  Users = {con1, con2, con3}
  Recipients = {con1, con2}
  Findings = {f1, f2}
  Decisions = {d1, d2}
  Sends = {s1, s2}
  Acceptors = 2
  Nobody = Nobody
  Life = 1
  MaxDay = 1
  MaxActs = 3
SYMMETRY MCSymmetry
CHECK_DEADLOCK FALSE
INVARIANTS AcceptedByEnough SuccessIsWhole SendDelivers FullIsInHand
PROPERTIES ConfirmationStands
