------------------------ MODULE RiskAcceptanceProofs ------------------------
(***************************************************************************)
(* Proofs about RiskAcceptance, for any set of findings, acceptances and   *)
(* users and any number of acceptors: types, coherence, what governs an    *)
(* accepted finding, who decides, how often a finding may be assumed, and   *)
(* how the flow looks to one who keeps the register.                        *)
(***************************************************************************)
EXTENDS RiskAcceptance, FiniteSetTheorems, TLAPS

-----------------------------------------------------------------------------
(***************************************************************************)
(* The rows that the handlers save.                                        *)
(***************************************************************************)

\* Every handler that acts on the finding alone writes a row of the right
\* type.
LEMMA RowTypes ==
    ASSUME NEW x \in Row
    PROVE  /\ PendingRow(x) \in Row
           /\ ReviewedRow(x) \in Row
           /\ DeclinedRow(x) \in Row
           /\ ReleasedRow(x) \in Row
           /\ ExpiredRow(x) \in Row
           /\ ReinstatedRow(x) \in Row
           /\ ClosedRow(x) \in Row
           /\ ReopenedRow(x) \in Row
           /\ MitigatedRow(x) \in Row
           /\ ReportedRow(x) \in Row
<1>1. PendingRow(x) \in Row /\ ReviewedRow(x) \in Row
  BY DEF Row, RiskStatus, PendingRow, ReviewedRow
<1>2. DeclinedRow(x) \in Row /\ ReleasedRow(x) \in Row
  BY DEF Row, RiskStatus, DeclinedRow, ReleasedRow, Save
<1>3. ExpiredRow(x) \in Row
  BY DEF Row, RiskStatus, ExpiredRow, Save
<1>4. ReinstatedRow(x) \in Row /\ MitigatedRow(x) \in Row
  BY DEF Row, RiskStatus, ReinstatedRow, MitigatedRow
<1>5. ClosedRow(x) \in Row /\ ReopenedRow(x) \in Row
  BY DEF Row, RiskStatus, ClosedRow, ReopenedRow, UnacceptedRow, Save
<1>6. ReportedRow(x) \in Row
  BY DEF Row, RiskStatus, ReportedRow, Save
<1> QED  BY <1>1, <1>2, <1>3, <1>4, <1>5, <1>6

\* So does every handler that records who decided.
LEMMA DecisionTypes ==
    ASSUME NEW x \in Row
    PROVE  /\ \A u \in Users : AcceptedRow(x, u) \in Row
           /\ \A u \in Users : ConfirmedRow(x, u) \in Row
           /\ \A by \in SUBSET Users : SucceededRow(x, by) \in Row
<1>1. \A u \in Users : AcceptedRow(x, u) \in Row
  BY DEF Row, RiskStatus, AcceptedRow, Save
<1>2. \A u \in Users : ConfirmedRow(x, u) \in Row
  BY DEF Row, RiskStatus, ConfirmedRow
<1>3. \A by \in SUBSET Users : SucceededRow(x, by) \in Row
  BY DEF Row, RiskStatus, SucceededRow
<1> QED  BY <1>1, <1>2, <1>3

\* Every handler that acts on the finding alone leaves a coherent row.
LEMMA RowCoherence ==
    ASSUME NEW x \in Row, Coherent(x)
    PROVE  /\ Coherent(PendingRow(x))
           /\ Coherent(ReviewedRow(x))
           /\ Coherent(DeclinedRow(x))
           /\ Coherent(ReleasedRow(x))
           /\ Coherent(ExpiredRow(x))
           /\ Coherent(ReinstatedRow(x))
           /\ Coherent(ClosedRow(x))
           /\ Coherent(ReopenedRow(x))
           /\ Coherent(MitigatedRow(x))
           /\ Coherent(ReportedRow(x))
<1>1. Coherent(PendingRow(x)) /\ Coherent(ReviewedRow(x))
  BY DEF Row, Coherent, PendingRow, ReviewedRow
<1>2. Coherent(DeclinedRow(x)) /\ Coherent(ReleasedRow(x))
  BY DEF Row, Coherent, DeclinedRow, ReleasedRow, Save
<1>3. Coherent(ExpiredRow(x))
  BY DEF Row, Coherent, ExpiredRow, Save
<1>4. Coherent(ReinstatedRow(x)) /\ Coherent(MitigatedRow(x))
  BY DEF Row, Coherent, ReinstatedRow, MitigatedRow
<1>5. Coherent(ClosedRow(x)) /\ Coherent(ReopenedRow(x))
  BY DEF Row, Coherent, ClosedRow, ReopenedRow, UnacceptedRow, Save
<1>6. Coherent(ReportedRow(x))
  BY DEF Row, Coherent, ReportedRow, Save
<1> QED  BY <1>1, <1>2, <1>3, <1>4, <1>5, <1>6

\* So does every handler that records who decided.
LEMMA DecisionCoherence ==
    ASSUME NEW x \in Row, Coherent(x)
    PROVE  /\ \A u \in Users : Coherent(AcceptedRow(x, u))
           /\ \A u \in Users : Coherent(ConfirmedRow(x, u))
           /\ \A by \in SUBSET Users : Coherent(SucceededRow(x, by))
<1>1. \A u \in Users : Coherent(AcceptedRow(x, u))
  BY DEF Row, Coherent, AcceptedRow, Save
<1>2. \A u \in Users : Coherent(ConfirmedRow(x, u))
  BY DEF Row, Coherent, ConfirmedRow
<1>3. \A by \in SUBSET Users : Coherent(SucceededRow(x, by))
  BY DEF Row, Coherent, SucceededRow
<1> QED  BY <1>1, <1>2, <1>3

-----------------------------------------------------------------------------
(***************************************************************************)
(* Typing.                                                                 *)
(***************************************************************************)

\* Making acceptors of a finding known keeps every column in its type.
LEMMA SucceedTypes ==
    ASSUME TypeOK, NEW r \in RAs, NEW f \in Findings, NEW by \in SUBSET Users,
           Succeed(r, f, by)
    PROVE  TypeOK'
<1>1. finding' \in [Findings -> Row]
  <2>1. finding[f] \in Row
    BY DEF TypeOK
  <2>2. SucceededRow(finding[f], by) \in Row
    BY <2>1, DecisionTypes
  <2> QED  BY <2>2 DEF TypeOK, Succeed
<1>2. RenewedExpiration(r) \in Nat
  <2>1. today + Sla \in Nat /\ ra[r].expiration \in Nat
    BY NumbersAssumption DEF TypeOK, Acceptance
  <2> QED  BY <2>1 DEF RenewedExpiration
<1>3. ra' \in [RAs -> Acceptance]
  <2>1. [ra[r] EXCEPT !.expiration = RenewedExpiration(r)] \in Acceptance
    BY <1>2 DEF TypeOK, Acceptance
  <2> QED  BY <2>1 DEF TypeOK, Succeed
<1> QED  BY <1>1, <1>3 DEF TypeOK, Succeed

LEMMA ExpireTypes ==
    ASSUME TypeOK, NEW r \in RAs, Expire(r)
    PROVE  TypeOK'
<1>1. finding' \in [Findings -> Row]
  BY RowTypes DEF TypeOK, Expire
<1>2. ra' \in [RAs -> Acceptance]
  BY ZenonT(30) DEF TypeOK, Expire, Acceptance
<1>3. notice' \subseteq RAs \X {"expired", "heads-up"}
  <2>1. Notify(r, "expired", finding') \subseteq {<<r, "expired">>}
    BY DEF Notify
  <2> QED  BY <2>1 DEF Expire
<1> QED  BY <1>1, <1>2, <1>3 DEF TypeOK, Expire

LEMMA ReinstateTypes ==
    ASSUME TypeOK, NEW r \in RAs, NEW row \in Acceptance, Reinstate(r, row)
    PROVE  TypeOK'
<1>1. finding' \in [Findings -> Row]
  BY RowTypes DEF TypeOK, Reinstate
<1>2. today + DefaultDays \in Nat
  BY NumbersAssumption DEF TypeOK
<1>3. ra' \in [RAs -> Acceptance]
  <2>1. [row EXCEPT !.expiration = IF row.handled THEN today + DefaultDays ELSE @,
                    !.handled = FALSE, !.warned = FALSE] \in Acceptance
    BY <1>2 DEF Acceptance
  <2> QED  BY <2>1 DEF TypeOK, Reinstate
<1> QED  BY <1>1, <1>3 DEF TypeOK, Reinstate

LEMMA InitTypes == Init => TypeOK
<1>1. NewFinding \in Row
  BY DEF NewFinding, Row, RiskStatus
<1>2. NoAcceptance \in Acceptance
  BY DEF NoAcceptance, Acceptance
<1> QED  BY <1>1, <1>2 DEF Init, TypeOK

LEMMA NextTypes == TypeOK /\ [Next]_vars => TypeOK'
<1> SUFFICES ASSUME TypeOK, [Next]_vars PROVE TypeOK'
  OBVIOUS
<1>1. CASE OpenForm
  BY <1>1 DEF OpenForm, TypeOK
<1>2. ASSUME NEW r \in RAs, OpenPage(r) PROVE TypeOK'
  <2>1. page' \subseteq RAs \X Findings
    BY <1>2 DEF OpenPage
  <2> QED  BY <1>2, <2>1 DEF OpenPage, TypeOK
<1>3. ASSUME NEW r \in RAs, Delete(r) PROVE TypeOK'
  <2>1. finding' \in [Findings -> Row]
    BY <1>3, RowTypes DEF Delete, TypeOK
  <2>2. ra' \in [RAs -> Acceptance]
    BY <1>3 DEF Delete, TypeOK, Acceptance, NoAcceptance
  <2> QED  BY <1>3, <2>1, <2>2 DEF Delete, TypeOK
<1>4. ASSUME NEW r \in RAs, ExpireNow(r) \/ ExpireDue(r) PROVE TypeOK'
  BY <1>4, ExpireTypes DEF ExpireNow, ExpireDue
<1>5. ASSUME NEW r \in RAs, Warn(r) PROVE TypeOK'
  <2>1. Notify(r, "heads-up", finding) \subseteq {<<r, "heads-up">>}
    BY DEF Notify
  <2>2. notice' \subseteq RAs \X {"expired", "heads-up"}
    BY <1>5, <2>1 DEF Warn
  <2>3. ra' \in [RAs -> Acceptance]
    BY <1>5 DEF Warn, TypeOK, Acceptance
  <2> QED  BY <1>5, <2>2, <2>3 DEF Warn, TypeOK
<1>6. ASSUME NEW r \in RAs, ReinstateNow(r) PROVE TypeOK'
  <2>1. ra[r] \in Acceptance
    BY DEF TypeOK
  <2> QED  BY <1>6, <2>1, ReinstateTypes DEF ReinstateNow
<1>7. ASSUME NEW r \in RAs, NEW day \in EditDays, NEW b \in Reactivate,
             Edit(r, day, b)
      PROVE  TypeOK'
  <2> DEFINE row == [ra[r] EXCEPT !.expiration = day, !.reactivate = b]
  <2>1. row \in Acceptance
    <3>1. day \in Nat /\ b \in BOOLEAN
      BY NumbersAssumption, FlagsAssumption
    <3> QED  BY <3>1 DEF TypeOK, Acceptance
  <2>2. CASE day # ra[r].expiration
    BY <1>7, <2>1, <2>2, ReinstateTypes DEF Edit
  <2>3. CASE day = ra[r].expiration
    <3>1. ra' = [ra EXCEPT ![r] = row]
      BY <1>7, <2>3 DEF Edit
    <3>2. ra' \in [RAs -> Acceptance]
      BY <2>1, <3>1 DEF TypeOK
    <3> QED  BY <1>7, <2>3, <3>2 DEF Edit, TypeOK
  <2> QED  BY <2>2, <2>3
<1>8. ASSUME NEW u \in Users, NEW r \in RAs, NEW S \in SUBSET Findings,
             NEW f \in Findings, NEW lt \in LongTerm, NEW day \in EditDays,
             Request(u, r, f, S, lt, day)
      PROVE  TypeOK'
  <2>1. finding' \in [Findings -> Row]
    BY <1>8, RowTypes, DecisionTypes DEF Request, TypeOK
  <2>2. day \in Nat /\ lt \in BOOLEAN /\ today + Sla \in Nat
    BY NumbersAssumption, FlagsAssumption DEF TypeOK
  <2>3. ra' \in [RAs -> Acceptance]
    BY <1>8, <2>2 DEF Request, TypeOK, Acceptance
  <2> QED  BY <1>8, <2>1, <2>3 DEF Request, TypeOK
<1>9. ASSUME NEW u \in Users, NEW r \in RAs, NEW S \in SUBSET Findings,
             AddFindings(u, r, S)
      PROVE  TypeOK'
  <2>1. finding' \in [Findings -> Row]
    BY <1>9, RowTypes DEF AddFindings, TypeOK
  <2>2. ra' \in [RAs -> Acceptance]
    BY <1>9 DEF AddFindings, TypeOK, Acceptance
  <2> QED  BY <1>9, <2>1, <2>2 DEF AddFindings, TypeOK
<1>10. ASSUME NEW u \in Users, NEW r \in RAs, NEW f \in Findings,
              AcceptDirectly(u, r, f) \/ Approve(u, r, f)
       PROVE  TypeOK'
  BY <1>10, SucceedTypes DEF AcceptDirectly, Approve
<1>11. ASSUME NEW u \in Users, NEW r \in RAs, NEW f \in Findings,
              Confirm(u, r, f)
       PROVE  TypeOK'
  <2> DEFINE by == finding[f].accepted_by \cup {u}
  <2>1. finding[f] \in Row /\ by \in SUBSET Users
    BY DEF TypeOK, Row
  <2>2. CASE Cardinality(by) = Acceptors
    BY <1>11, <2>1, <2>2, SucceedTypes DEF Confirm
  <2>3. CASE Cardinality(by) # Acceptors
    BY <1>11, <2>1, <2>3, DecisionTypes DEF Confirm, TypeOK
  <2> QED  BY <2>2, <2>3
<1>12. ASSUME NEW u \in Users, NEW r \in RAs, NEW f \in Findings,
              Review(u, r, f)
       PROVE  TypeOK'
  BY <1>12, RowTypes DEF Review, TypeOK
<1>13. ASSUME NEW r \in RAs, NEW f \in Findings, Decline(r, f)
       PROVE  TypeOK'
  BY <1>13, RowTypes DEF Decline, TypeOK
<1>14. ASSUME NEW r \in RAs, NEW f \in Findings, RemoveFinding(r, f)
       PROVE  TypeOK'
  <2>1. finding' \in [Findings -> Row]
    BY <1>14, RowTypes DEF RemoveFinding, TypeOK
  <2>2. ra' \in [RAs -> Acceptance]
    BY <1>14 DEF RemoveFinding, TypeOK, Acceptance
  <2> QED  BY <1>14, <2>1, <2>2 DEF RemoveFinding, TypeOK
<1>15. ASSUME NEW f \in Findings, Close(f) \/ Reopen(f) PROVE TypeOK'
  <2>1. finding' \in [Findings -> Row]
    BY <1>15, RowTypes DEF Close, Reopen, TypeOK
  <2>2. LeaveAll(f) \in [RAs -> Acceptance]
    BY DEF LeaveAll, TypeOK, Acceptance
  <2> QED  BY <1>15, <2>1, <2>2 DEF Close, Reopen, TypeOK
<1>16. ASSUME NEW f \in Findings, NEW b \in BOOLEAN, Reimport(f, b)
       PROVE  TypeOK'
  BY <1>16, RowTypes DEF Reimport, TypeOK
<1>17. CASE Tick
  BY <1>17 DEF Tick, TypeOK
<1>18. CASE UNCHANGED vars
  BY <1>18 DEF vars, TypeOK
<1> QED
  BY <1>1, <1>2, <1>3, <1>4, <1>5, <1>6, <1>7, <1>8, <1>9, <1>10, <1>11,
     <1>12, <1>13, <1>14, <1>15, <1>16, <1>17, <1>18 DEF Next

\* Every state that the flow reaches is well typed.
THEOREM Typing == Spec => []TypeOK
BY InitTypes, NextTypes, PTL DEF Spec

-----------------------------------------------------------------------------
(***************************************************************************)
(* Coherence of the status columns.                                        *)
(***************************************************************************)

LEMMA InitCoherence == Init => StatusCoherent
<1>1. Coherent(NewFinding)
  BY DEF Coherent, NewFinding
<1> QED  BY <1>1 DEF Init, StatusCoherent

LEMMA SucceedCoherence ==
    ASSUME TypeOK, StatusCoherent, NEW r \in RAs, NEW f \in Findings,
           NEW by \in SUBSET Users, Succeed(r, f, by)
    PROVE  StatusCoherent'
<1>1. finding[f] \in Row /\ Coherent(finding[f])
  BY DEF TypeOK, StatusCoherent
<1>2. Coherent(SucceededRow(finding[f], by))
  BY <1>1, DecisionCoherence
<1> QED  BY <1>2 DEF TypeOK, StatusCoherent, Succeed

LEMMA NextCoherence == TypeOK /\ StatusCoherent /\ [Next]_vars => StatusCoherent'
<1> SUFFICES ASSUME TypeOK, StatusCoherent, [Next]_vars PROVE StatusCoherent'
  OBVIOUS
<1> USE DEF StatusCoherent
<1>1. CASE UNCHANGED finding
  BY <1>1
<1>2. \A f \in Findings : finding[f] \in Row /\ Coherent(finding[f])
  BY DEF TypeOK
<1>3. ASSUME NEW r \in RAs, Delete(r) PROVE StatusCoherent'
  BY <1>2, <1>3, RowCoherence DEF Delete
<1>4. ASSUME NEW r \in RAs, Expire(r) PROVE StatusCoherent'
  BY <1>2, <1>4, RowCoherence DEF Expire
<1>5. ASSUME NEW r \in RAs, NEW row, Reinstate(r, row) PROVE StatusCoherent'
  BY <1>2, <1>5, RowCoherence DEF Reinstate
<1>6. ASSUME NEW r \in RAs, NEW day \in EditDays, NEW b \in Reactivate,
             Edit(r, day, b)
      PROVE  StatusCoherent'
  BY <1>1, <1>5, <1>6 DEF Edit
<1>7. ASSUME NEW u \in Users, NEW r \in RAs, NEW S \in SUBSET Findings,
             NEW f \in Findings, NEW lt \in LongTerm, NEW day \in EditDays,
             Request(u, r, f, S, lt, day)
      PROVE  StatusCoherent'
  BY <1>2, <1>7, RowCoherence, DecisionCoherence DEF Request
<1>8. ASSUME NEW u \in Users, NEW r \in RAs, NEW S \in SUBSET Findings,
             AddFindings(u, r, S)
      PROVE  StatusCoherent'
  BY <1>2, <1>8, RowCoherence DEF AddFindings
<1>9. ASSUME NEW u \in Users, NEW r \in RAs, NEW f \in Findings,
             AcceptDirectly(u, r, f) \/ Approve(u, r, f)
      PROVE  StatusCoherent'
  BY <1>9, SucceedCoherence DEF AcceptDirectly, Approve
<1>10. ASSUME NEW u \in Users, NEW r \in RAs, NEW f \in Findings,
              Confirm(u, r, f)
       PROVE  StatusCoherent'
  <2> DEFINE by == finding[f].accepted_by \cup {u}
  <2>1. by \in SUBSET Users
    BY <1>2 DEF Row
  <2>2. CASE Cardinality(by) = Acceptors
    BY <1>10, <2>1, <2>2, SucceedCoherence DEF Confirm
  <2>3. CASE Cardinality(by) # Acceptors
    <3>1. Coherent(ConfirmedRow(finding[f], u))
      BY <1>2, DecisionCoherence
    <3> QED  BY <1>2, <1>10, <2>3, <3>1 DEF Confirm, TypeOK
  <2> QED  BY <2>2, <2>3
<1>11. ASSUME NEW u \in Users, NEW r \in RAs, NEW f \in Findings,
              Review(u, r, f)
       PROVE  StatusCoherent'
  BY <1>2, <1>11, RowCoherence DEF Review, TypeOK
<1>12. ASSUME NEW r \in RAs, NEW f \in Findings,
              Decline(r, f) \/ RemoveFinding(r, f)
       PROVE  StatusCoherent'
  BY ZenonT(30), <1>2, <1>12, RowCoherence DEF Decline, RemoveFinding, TypeOK
<1>13. ASSUME NEW f \in Findings, Close(f) \/ Reopen(f) PROVE StatusCoherent'
  BY <1>2, <1>13, RowCoherence DEF Close, Reopen, TypeOK
<1>14. ASSUME NEW f \in Findings, NEW b \in BOOLEAN, Reimport(f, b)
       PROVE  StatusCoherent'
  BY <1>2, <1>14, RowCoherence DEF Reimport, TypeOK
<1> QED
  BY <1>1, <1>3, <1>4, <1>5, <1>6, <1>7, <1>8, <1>9, <1>10, <1>11, <1>12,
     <1>13, <1>14
  DEF Next, vars, OpenForm, OpenPage, Warn, Tick, ExpireNow, ExpireDue,
      ReinstateNow

\* A finding is open exactly when it is neither mitigated nor accepted, in
\* every order of decisions, expirations, closings and reimports, and even
\* when stale pages are submitted.
THEOREM Coherence == Spec => []StatusCoherent
<1>1. Init => TypeOK /\ StatusCoherent
  BY InitTypes, InitCoherence
<1>2. TypeOK /\ StatusCoherent /\ [Next]_vars => (TypeOK /\ StatusCoherent)'
  BY NextTypes, NextCoherence
<1> QED  BY <1>1, <1>2, PTL DEF Spec

-----------------------------------------------------------------------------
(***************************************************************************)
(* Accepted findings are governed.                                         *)
(***************************************************************************)

\* What the handlers do to the flag of one finding.
LEMMA RowFlags ==
    ASSUME NEW x \in Row
    PROVE  /\ PendingRow(x).risk_accepted = x.risk_accepted
           /\ ReviewedRow(x).risk_accepted = x.risk_accepted
           /\ \A u \in Users : ConfirmedRow(x, u).risk_accepted = x.risk_accepted
           /\ MitigatedRow(x).risk_accepted = x.risk_accepted
           /\ ReportedRow(x).risk_accepted = x.risk_accepted
           /\ ExpiredRow(x).risk_accepted => x.risk_accepted
           /\ ~DeclinedRow(x).risk_accepted
           /\ ~ReleasedRow(x).risk_accepted
           /\ ~ClosedRow(x).risk_accepted
           /\ ~ReopenedRow(x).risk_accepted
<1>1. /\ PendingRow(x).risk_accepted = x.risk_accepted
      /\ ReviewedRow(x).risk_accepted = x.risk_accepted
  BY DEF Row, PendingRow, ReviewedRow
<1>2. \A u \in Users : ConfirmedRow(x, u).risk_accepted = x.risk_accepted
  BY DEF Row, ConfirmedRow
<1>3. /\ MitigatedRow(x).risk_accepted = x.risk_accepted
      /\ ReportedRow(x).risk_accepted = x.risk_accepted
  BY DEF Row, MitigatedRow, ReportedRow, Save
<1>4. ExpiredRow(x).risk_accepted => x.risk_accepted
  BY DEF Row, ExpiredRow, Save
<1>5. ~DeclinedRow(x).risk_accepted /\ ~ReleasedRow(x).risk_accepted
  BY DEF Row, DeclinedRow, ReleasedRow, Save
<1>6. ~ClosedRow(x).risk_accepted /\ ~ReopenedRow(x).risk_accepted
  BY DEF Row, ClosedRow, ReopenedRow, UnacceptedRow, Save
<1> QED  BY <1>1, <1>2, <1>3, <1>4, <1>5, <1>6

\* Pages are submitted as they were rendered.
FreshPages == offered = {} /\ page = {}

Governed(f) == \E r \in RAs : ra[r].live /\ f \in ra[r].findings

AllGoverned == \A f \in Findings : finding[f].risk_accepted => Governed(f)

LEMMA AllGovernedDef == AllGoverned <=> AcceptedIsGoverned
BY DEF AllGoverned, Governed, AcceptedIsGoverned, Governing, Live

GovernedInv == FreshPages /\ AllGoverned

\* An accepted finding stays governed when its flag was set before, or is set
\* inside an acceptance, and no acceptance loses it.
LEMMA SucceedGoverned ==
    ASSUME TypeOK, GovernedInv, NEW r \in RAs, NEW f \in Findings,
           NEW by \in SUBSET Users, r \in Live, Reachable(r, f), Succeed(r, f, by)
    PROVE  GovernedInv'
<1>1. f \in ra[r].findings /\ ra[r].live
  BY DEF GovernedInv, FreshPages, Reachable, Live
<1>2. /\ finding' = [finding EXCEPT ![f] = SucceededRow(@, by)]
      /\ \A s \in RAs : ra'[s].live = ra[s].live /\ ra'[s].findings = ra[s].findings
      /\ UNCHANGED <<offered, page>>
  BY DEF Succeed, TypeOK, Acceptance
<1>3. ASSUME NEW g \in Findings, finding'[g].risk_accepted PROVE Governed(g)'
  <2>1. CASE g = f
    BY <1>1, <1>2, <2>1 DEF Governed
  <2>2. CASE g # f
    BY <1>2, <1>3, <2>2 DEF Governed, GovernedInv, AllGoverned, TypeOK
  <2> QED  BY <2>1, <2>2
<1> QED  BY <1>2, <1>3 DEF GovernedInv, FreshPages, AllGoverned

LEMMA ExpireGoverned ==
    ASSUME TypeOK, GovernedInv, NEW r \in RAs, Expire(r)
    PROVE  GovernedInv'
<1>1. /\ \A s \in RAs : ra'[s].live = ra[s].live /\ ra'[s].findings = ra[s].findings
      /\ UNCHANGED <<offered, page>>
  BY DEF Expire, TypeOK, Acceptance
<1>2. ASSUME NEW g \in Findings, finding'[g].risk_accepted
      PROVE  finding[g].risk_accepted
  BY <1>2, RowFlags DEF Expire, TypeOK
<1> QED  BY <1>1, <1>2 DEF GovernedInv, FreshPages, AllGoverned, Governed

LEMMA ReinstateGoverned ==
    ASSUME TypeOK, GovernedInv, NEW r \in Live, NEW row \in Acceptance,
           row.live = ra[r].live, row.findings = ra[r].findings, Reinstate(r, row)
    PROVE  GovernedInv'
<1>1. r \in RAs /\ ra[r].live
  BY DEF Live
<1>2. /\ \A s \in RAs : ra'[s].live = ra[s].live /\ ra'[s].findings = ra[s].findings
      /\ UNCHANGED <<offered, page>>
  BY <1>1 DEF Reinstate, TypeOK, Acceptance
<1>3. ASSUME NEW g \in Findings, finding'[g].risk_accepted PROVE Governed(g)'
  <2>1. CASE g \in ra[r].findings
    BY <1>1, <1>2, <2>1 DEF Governed
  <2>2. CASE g \notin ra[r].findings
    <3>1. finding'[g] = finding[g]
      BY <2>2 DEF Reinstate
    <3> QED  BY <1>2, <1>3, <3>1 DEF Governed, GovernedInv, AllGoverned
  <2> QED  BY <2>1, <2>2
<1> QED  BY <1>2, <1>3 DEF GovernedInv, FreshPages, AllGoverned

LEMMA NextGoverned ==
    ASSUME ~StalePages, TypeOK, GovernedInv, [Next]_vars
    PROVE  GovernedInv'
<1> USE DEF GovernedInv, FreshPages, AllGoverned
<1>1. ASSUME UNCHANGED <<offered, page>>,
             \A f \in Findings : finding'[f].risk_accepted => finding[f].risk_accepted,
             \A s \in RAs : ra[s].live => ra'[s].live /\ ra[s].findings \subseteq ra'[s].findings
      PROVE  GovernedInv'
  BY <1>1 DEF Governed
<1>2. ASSUME NEW f \in Findings, UNCHANGED <<offered, page>>,
             ~finding'[f].risk_accepted,
             \A g \in Findings \ {f} : finding'[g] = finding[g],
             \A s \in RAs : /\ ra'[s].live = ra[s].live
                            /\ ra[s].findings \ {f} \subseteq ra'[s].findings
      PROVE  GovernedInv'
  BY <1>2 DEF Governed
<1>3. CASE OpenForm \/ \E r \in RAs : OpenPage(r)
  BY <1>3 DEF OpenForm, OpenPage
<1>4. ASSUME NEW r \in RAs, Delete(r) PROVE GovernedInv'
  <2>1. ASSUME NEW g \in Findings, finding'[g].risk_accepted PROVE Governed(g)'
    <3>1. g \notin ra[r].findings
      BY <1>4, <2>1, RowFlags DEF Delete, TypeOK
    <3>2. finding[g].risk_accepted
      BY <1>4, <2>1, <3>1 DEF Delete
    <3>3. PICK s \in RAs : ra[s].live /\ g \in ra[s].findings
      BY <3>2 DEF Governed
    <3>4. ra'[s] = ra[s]
      BY <1>4, <3>1, <3>3 DEF Delete, TypeOK
    <3> QED  BY <3>3, <3>4 DEF Governed
  <2> QED  BY <1>4, <2>1 DEF Delete
<1>5. ASSUME NEW r \in RAs, Warn(r) PROVE GovernedInv'
  BY <1>1, <1>5 DEF Warn, TypeOK, Acceptance
<1>6. ASSUME NEW r \in RAs, ExpireNow(r) \/ ExpireDue(r) PROVE GovernedInv'
  BY <1>6, ExpireGoverned DEF ExpireNow, ExpireDue
<1>7. ASSUME NEW r \in RAs, ReinstateNow(r) PROVE GovernedInv'
  <2>1. ra[r] \in Acceptance
    BY DEF TypeOK
  <2> QED  BY <1>7, <2>1, ReinstateGoverned DEF ReinstateNow
<1>8. ASSUME NEW r \in RAs, NEW day \in EditDays, NEW b \in Reactivate,
             Edit(r, day, b)
      PROVE  GovernedInv'
  <2> DEFINE row == [ra[r] EXCEPT !.expiration = day, !.reactivate = b]
  <2>1. row \in Acceptance /\ row.live = ra[r].live /\ row.findings = ra[r].findings
    <3>1. day \in Nat /\ b \in BOOLEAN
      BY NumbersAssumption, FlagsAssumption
    <3> QED  BY <3>1 DEF TypeOK, Acceptance
  <2>2. CASE day # ra[r].expiration
    BY <1>8, <2>1, <2>2, ReinstateGoverned DEF Edit
  <2>3. CASE day = ra[r].expiration
    <3>1. ra' = [ra EXCEPT ![r] = row] /\ UNCHANGED <<finding, offered, page>>
      BY <1>8, <2>3 DEF Edit
    <3>2. \A s \in RAs : ra[s].live => ra'[s].live /\ ra[s].findings \subseteq ra'[s].findings
      BY <2>1, <3>1 DEF TypeOK
    <3> QED  BY <1>1, <3>1, <3>2
  <2> QED  BY <2>2, <2>3
<1>9. ASSUME NEW u \in Users, NEW r \in RAs, NEW S \in SUBSET Findings,
             NEW f \in Findings, NEW lt \in LongTerm, NEW day \in EditDays,
             Request(u, r, f, S, lt, day)
      PROVE  GovernedInv'
  <2>1. /\ ra'[r].live /\ ra'[r].findings = S /\ UNCHANGED <<offered, page>>
        /\ \A s \in RAs : ra[s].live => ra'[s] = ra[s]
        /\ \A g \in Findings \ S : finding'[g] = finding[g]
    BY <1>9 DEF Request, TypeOK
  <2> QED  BY <2>1 DEF Governed
<1>10. ASSUME NEW u \in Users, NEW r \in RAs, NEW S \in SUBSET Findings,
              AddFindings(u, r, S)
       PROVE  GovernedInv'
  <2>1. \A g \in Findings : finding'[g].risk_accepted => finding[g].risk_accepted
    BY <1>10, RowFlags DEF AddFindings, TypeOK
  <2>2. \A s \in RAs : ra[s].live => ra'[s].live /\ ra[s].findings \subseteq ra'[s].findings
    BY <1>10 DEF AddFindings, TypeOK, Acceptance
  <2> QED  BY <1>1, <1>10, <2>1, <2>2 DEF AddFindings
<1>11. ASSUME NEW u \in Users, NEW r \in RAs, NEW f \in Findings,
              AcceptDirectly(u, r, f) \/ Approve(u, r, f)
       PROVE  GovernedInv'
  BY <1>11, SucceedGoverned DEF AcceptDirectly, Approve, Decidable
<1>12. ASSUME NEW u \in Users, NEW r \in RAs, NEW f \in Findings,
              Confirm(u, r, f)
       PROVE  GovernedInv'
  <2> DEFINE by == finding[f].accepted_by \cup {u}
  <2>1. by \in SUBSET Users
    BY DEF TypeOK, Row
  <2>2. CASE Cardinality(by) = Acceptors
    BY <1>12, <2>1, <2>2, SucceedGoverned DEF Confirm, Decidable
  <2>3. CASE Cardinality(by) # Acceptors
    BY <1>1, <1>12, <2>3, RowFlags DEF Confirm, TypeOK
  <2> QED  BY <2>2, <2>3
<1>13. ASSUME NEW u \in Users, NEW r \in RAs, NEW f \in Findings,
              Review(u, r, f)
       PROVE  GovernedInv'
  <2>1. finding' = [finding EXCEPT ![f] = ReviewedRow(finding[f])]
    BY <1>13 DEF Review
  <2>2. finding \in [Findings -> Row]
    BY DEF TypeOK
  <2>3. \A g \in Findings : finding'[g].risk_accepted => finding[g].risk_accepted
    BY <2>1, <2>2, RowFlags
  <2> QED  BY <1>1, <1>13, <2>3 DEF Review
<1>14. ASSUME NEW r \in RAs, NEW f \in Findings, Decline(r, f)
       PROVE  GovernedInv'
  <2>1. /\ finding' = [finding EXCEPT ![f] = DeclinedRow(finding[f])]
        /\ UNCHANGED <<ra, offered, page>>
    BY <1>14 DEF Decline
  <2>2. finding \in [Findings -> Row]
    BY DEF TypeOK
  <2>3. /\ ~finding'[f].risk_accepted
        /\ \A g \in Findings \ {f} : finding'[g] = finding[g]
    BY <2>1, <2>2, RowFlags
  <2> QED  BY <1>2, <2>1, <2>3
<1>15. ASSUME NEW r \in RAs, NEW f \in Findings, RemoveFinding(r, f)
       PROVE  GovernedInv'
  <2>1. \A s \in RAs : /\ ra'[s].live = ra[s].live
                       /\ ra[s].findings \ {f} \subseteq ra'[s].findings
    BY <1>15 DEF RemoveFinding, TypeOK, Acceptance
  <2>2. /\ UNCHANGED <<offered, page>> /\ ~finding'[f].risk_accepted
        /\ \A g \in Findings \ {f} : finding'[g] = finding[g]
    BY <1>15, RowFlags DEF RemoveFinding, TypeOK
  <2> QED  BY <1>2, <2>1, <2>2
<1>16. ASSUME NEW f \in Findings, Close(f) \/ Reopen(f) PROVE GovernedInv'
  <2>1. \A s \in RAs : /\ ra'[s].live = ra[s].live
                       /\ ra[s].findings \ {f} \subseteq ra'[s].findings
    BY <1>16 DEF Close, Reopen, LeaveAll, TypeOK, Acceptance
  <2>2. /\ UNCHANGED <<offered, page>> /\ ~finding'[f].risk_accepted
        /\ \A g \in Findings \ {f} : finding'[g] = finding[g]
    BY <1>16, RowFlags DEF Close, Reopen, TypeOK
  <2> QED  BY <1>2, <2>1, <2>2
<1>17. ASSUME NEW f \in Findings, NEW b \in BOOLEAN, Reimport(f, b)
       PROVE  GovernedInv'
  BY <1>1, <1>17, RowFlags DEF Reimport, TypeOK
<1>18. CASE Tick \/ UNCHANGED vars
  BY <1>1, <1>18 DEF Tick, vars
<1> QED
  BY <1>3, <1>4, <1>5, <1>6, <1>7, <1>8, <1>9, <1>10, <1>11, <1>12, <1>13,
     <1>14, <1>15, <1>16, <1>17, <1>18 DEF Next

\* As long as every page is submitted as it was rendered, an accepted finding
\* belongs to an existing acceptance.
THEOREM Governance ==
    ASSUME ~StalePages
    PROVE  Spec => []AcceptedIsGoverned
<1>1. Init => TypeOK /\ GovernedInv
  <2>1. ~NewFinding.risk_accepted
    BY DEF NewFinding
  <2> QED
    BY <2>1, InitTypes DEF Init, GovernedInv, FreshPages, AllGoverned
<1>2. TypeOK /\ GovernedInv /\ [Next]_vars => (TypeOK /\ GovernedInv)'
  BY NextTypes, NextGoverned
<1>3. GovernedInv => AcceptedIsGoverned
  BY AllGovernedDef DEF GovernedInv
<1> QED  BY <1>1, <1>2, <1>3, PTL DEF Spec

-----------------------------------------------------------------------------
(***************************************************************************)
(* Findings that keep the status of an acceptance they have lost.          *)
(***************************************************************************)

\* The row of a finding under acceptance, and of one that lost it.
Holds(x) == x.risk_status = "Risk Accepted" /\ x.risk_accepted
Abandoned(x) == x.risk_status = "Risk Accepted" /\ ~x.risk_accepted

\* Only closing and reopening abandon a finding.
LEMMA RowAbandoned ==
    ASSUME NEW x \in Row
    PROVE  /\ ~Abandoned(PendingRow(x))
           /\ ~Abandoned(ReviewedRow(x))
           /\ ~Abandoned(DeclinedRow(x))
           /\ ~Abandoned(ReleasedRow(x))
           /\ \A u \in Users : ~Abandoned(AcceptedRow(x, u))
           /\ \A u \in Users : Abandoned(ConfirmedRow(x, u)) => Abandoned(x)
           /\ \A by \in SUBSET Users : Abandoned(SucceededRow(x, by)) => Abandoned(x)
           /\ Abandoned(ExpiredRow(x)) => Abandoned(x)
           /\ Abandoned(ReinstatedRow(x)) => Abandoned(x)
           /\ Abandoned(MitigatedRow(x)) => Abandoned(x)
           /\ Abandoned(ReportedRow(x)) => Abandoned(x)
           /\ ~x.risk_accepted /\ Abandoned(ClosedRow(x)) => Abandoned(x)
           /\ ~x.risk_accepted /\ Abandoned(ReopenedRow(x)) => Abandoned(x)
<1> USE DEF Abandoned, Row
<1>1. ~Abandoned(PendingRow(x)) /\ ~Abandoned(ReviewedRow(x))
  BY DEF PendingRow, ReviewedRow
<1>2. ~Abandoned(DeclinedRow(x)) /\ ~Abandoned(ReleasedRow(x))
  BY DEF DeclinedRow, ReleasedRow, Save
<1>3. \A u \in Users : ~Abandoned(AcceptedRow(x, u))
  BY DEF AcceptedRow, Save
<1>4. \A u \in Users : Abandoned(ConfirmedRow(x, u)) => Abandoned(x)
  BY DEF ConfirmedRow
<1>5. \A by \in SUBSET Users : Abandoned(SucceededRow(x, by)) => Abandoned(x)
  BY DEF SucceededRow
<1>6. Abandoned(ExpiredRow(x)) => Abandoned(x)
  BY DEF ExpiredRow, Save
<1>7. /\ Abandoned(ReinstatedRow(x)) => Abandoned(x)
      /\ Abandoned(MitigatedRow(x)) => Abandoned(x)
  BY DEF ReinstatedRow, MitigatedRow
<1>8. Abandoned(ReportedRow(x)) => Abandoned(x)
  BY DEF ReportedRow, Save
<1>9. /\ ~x.risk_accepted /\ Abandoned(ClosedRow(x)) => Abandoned(x)
      /\ ~x.risk_accepted /\ Abandoned(ReopenedRow(x)) => Abandoned(x)
  BY DEF ClosedRow, ReopenedRow, UnacceptedRow, Save
<1> QED  BY <1>1, <1>2, <1>3, <1>4, <1>5, <1>6, <1>7, <1>8, <1>9

\* Only a decision or a reinstatement puts a finding under acceptance.
LEMMA RowHolds ==
    ASSUME NEW x \in Row
    PROVE  /\ ~Holds(PendingRow(x))
           /\ ~Holds(ReviewedRow(x))
           /\ ~Holds(DeclinedRow(x))
           /\ ~Holds(ReleasedRow(x))
           /\ ~Holds(ClosedRow(x))
           /\ ~Holds(ReopenedRow(x))
           /\ \A u \in Users : Holds(ConfirmedRow(x, u)) => Holds(x)
           /\ Holds(ExpiredRow(x)) => Holds(x)
           /\ Holds(ReinstatedRow(x)) => Holds(x) \/ Abandoned(x)
           /\ Holds(MitigatedRow(x)) => Holds(x)
           /\ Holds(ReportedRow(x)) => Holds(x)
           /\ \A u \in Users : AcceptedRow(x, u).accepted_by = {u}
           /\ \A by \in SUBSET Users :
                 Holds(SucceededRow(x, by)) =>
                     Holds(x) \/ SucceededRow(x, by).accepted_by = by
<1> USE DEF Holds, Row
<1>1. ~Holds(PendingRow(x)) /\ ~Holds(ReviewedRow(x))
  BY DEF PendingRow, ReviewedRow
<1>2. ~Holds(DeclinedRow(x)) /\ ~Holds(ReleasedRow(x))
  BY DEF DeclinedRow, ReleasedRow, Save
<1>3. ~Holds(ClosedRow(x)) /\ ~Holds(ReopenedRow(x))
  BY RowFlags
<1>4. \A u \in Users : Holds(ConfirmedRow(x, u)) => Holds(x)
  BY DEF ConfirmedRow
<1>5. Holds(ExpiredRow(x)) => Holds(x)
  BY DEF ExpiredRow, Save
<1>6. Holds(ReinstatedRow(x)) => Holds(x) \/ Abandoned(x)
  BY DEF ReinstatedRow, Abandoned
<1>7. /\ Holds(MitigatedRow(x)) => Holds(x)
      /\ Holds(ReportedRow(x)) => Holds(x)
  BY DEF MitigatedRow, ReportedRow, Save
<1>8. \A u \in Users : AcceptedRow(x, u).accepted_by = {u}
  BY DEF AcceptedRow, Save
<1>9. \A by \in SUBSET Users :
         Holds(SucceededRow(x, by)) =>
             Holds(x) \/ SucceededRow(x, by).accepted_by = by
  BY DEF SucceededRow
<1> QED  BY <1>1, <1>2, <1>3, <1>4, <1>5, <1>6, <1>7, <1>8, <1>9

-----------------------------------------------------------------------------
(***************************************************************************)
(* A finding that lost its acceptance belongs to none.                     *)
(***************************************************************************)

\* What the handlers of an acceptance share: they abandon no finding, and
\* enrol none but those whose rows they have just written anew.
LEMMA StillFree ==
    ASSUME AbandonedIsFree,
           \A g \in Findings : Abandoned(finding'[g]) => Abandoned(finding[g]),
           \A s \in RAs : ra'[s].findings \subseteq ra[s].findings
    PROVE  AbandonedIsFree'
BY DEF AbandonedIsFree, Abandoned

LEMMA SucceedFree ==
    ASSUME TypeOK, AbandonedIsFree, NEW r \in RAs, NEW f \in Findings,
           NEW by \in SUBSET Users, Succeed(r, f, by)
    PROVE  AbandonedIsFree'
<1>1. /\ finding' = [finding EXCEPT ![f] = SucceededRow(finding[f], by)]
      /\ \A s \in RAs : ra'[s].findings = ra[s].findings
  BY DEF Succeed, TypeOK, Acceptance
<1>2. finding \in [Findings -> Row]
  BY DEF TypeOK
<1>3. \A g \in Findings : Abandoned(finding'[g]) => Abandoned(finding[g])
  BY <1>1, <1>2, RowAbandoned
<1> QED  BY <1>1, <1>3, StillFree

LEMMA ExpireFree ==
    ASSUME TypeOK, AbandonedIsFree, NEW r \in RAs, Expire(r)
    PROVE  AbandonedIsFree'
<1>1. \A s \in RAs : ra'[s].findings = ra[s].findings
  BY DEF Expire, TypeOK, Acceptance
<1>2. \A g \in Findings : Abandoned(finding'[g]) => Abandoned(finding[g])
  BY RowAbandoned DEF Expire, TypeOK
<1> QED  BY <1>1, <1>2, StillFree

LEMMA ReinstateFree ==
    ASSUME TypeOK, AbandonedIsFree, NEW r \in RAs, NEW row \in Acceptance,
           row.findings = ra[r].findings, Reinstate(r, row)
    PROVE  AbandonedIsFree'
<1>1. \A s \in RAs : ra'[s].findings = ra[s].findings
  BY DEF Reinstate, TypeOK, Acceptance
<1>2. \A g \in Findings : Abandoned(finding'[g]) => Abandoned(finding[g])
  BY RowAbandoned DEF Reinstate, TypeOK
<1> QED  BY <1>1, <1>2, StillFree

LEMMA NextFree == TypeOK /\ AbandonedIsFree /\ [Next]_vars => AbandonedIsFree'
<1> SUFFICES ASSUME TypeOK, AbandonedIsFree, [Next]_vars PROVE AbandonedIsFree'
  OBVIOUS
<1>1. finding \in [Findings -> Row]
  BY DEF TypeOK
<1>2. CASE UNCHANGED <<finding, ra>>
  BY <1>2 DEF AbandonedIsFree
<1>3. ASSUME NEW r \in RAs, Delete(r) PROVE AbandonedIsFree'
  <2>1. \A s \in RAs : ra'[s].findings \subseteq ra[s].findings
    BY <1>3 DEF Delete, TypeOK, Acceptance, NoAcceptance
  <2>2. \A g \in Findings : Abandoned(finding'[g]) => Abandoned(finding[g])
    BY <1>1, <1>3, RowAbandoned DEF Delete
  <2> QED  BY <2>1, <2>2, StillFree
<1>4. ASSUME NEW r \in RAs, Warn(r) PROVE AbandonedIsFree'
  BY <1>4, StillFree DEF Warn, TypeOK, Acceptance
<1>5. ASSUME NEW r \in RAs, ExpireNow(r) \/ ExpireDue(r) PROVE AbandonedIsFree'
  BY <1>5, ExpireFree DEF ExpireNow, ExpireDue
<1>6. ASSUME NEW r \in RAs, ReinstateNow(r) PROVE AbandonedIsFree'
  <2>1. ra[r] \in Acceptance
    BY DEF TypeOK
  <2> QED  BY <1>6, <2>1, ReinstateFree DEF ReinstateNow
<1>7. ASSUME NEW r \in RAs, NEW day \in EditDays, NEW b \in Reactivate,
             Edit(r, day, b)
      PROVE  AbandonedIsFree'
  <2> DEFINE row == [ra[r] EXCEPT !.expiration = day, !.reactivate = b]
  <2>1. row \in Acceptance /\ row.findings = ra[r].findings
    <3>1. day \in Nat /\ b \in BOOLEAN
      BY NumbersAssumption, FlagsAssumption
    <3> QED  BY <3>1 DEF TypeOK, Acceptance
  <2>2. CASE day # ra[r].expiration
    BY <1>7, <2>1, <2>2, ReinstateFree DEF Edit
  <2>3. CASE day = ra[r].expiration
    <3>1. ra' = [ra EXCEPT ![r] = row] /\ UNCHANGED finding
      BY <1>7, <2>3 DEF Edit
    <3>2. \A s \in RAs : ra'[s].findings \subseteq ra[s].findings
      BY <2>1, <3>1 DEF TypeOK
    <3> QED  BY <3>1, <3>2, StillFree
  <2> QED  BY <2>2, <2>3
<1>8. ASSUME NEW u \in Users, NEW r \in RAs, NEW S \in SUBSET Findings,
             NEW f \in Findings, NEW lt \in LongTerm, NEW day \in EditDays,
             Request(u, r, f, S, lt, day)
      PROVE  AbandonedIsFree'
  <2>1. /\ \A s \in RAs : ra'[s].findings \subseteq ra[s].findings \cup S
        /\ \A g \in Findings : g \notin S => finding'[g] = finding[g]
    BY <1>8 DEF Request, TypeOK, Acceptance
  <2>2. \A g \in S : Abandoned(finding'[g]) => FALSE
    BY <1>1, <1>8, RowAbandoned DEF Request
  <2> QED  BY <2>1, <2>2 DEF AbandonedIsFree, Abandoned
<1>9. ASSUME NEW u \in Users, NEW r \in RAs, NEW S \in SUBSET Findings,
             AddFindings(u, r, S)
      PROVE  AbandonedIsFree'
  <2>1. /\ \A s \in RAs : ra'[s].findings \subseteq ra[s].findings \cup S
        /\ \A g \in Findings : g \notin S => finding'[g] = finding[g]
    BY <1>9 DEF AddFindings, TypeOK, Acceptance
  <2>2. \A g \in S : Abandoned(finding'[g]) => FALSE
    BY <1>1, <1>9, RowAbandoned DEF AddFindings
  <2> QED  BY <2>1, <2>2 DEF AbandonedIsFree, Abandoned
<1>10. ASSUME NEW u \in Users, NEW r \in RAs, NEW f \in Findings,
              AcceptDirectly(u, r, f) \/ Approve(u, r, f)
       PROVE  AbandonedIsFree'
  BY <1>10, SucceedFree DEF AcceptDirectly, Approve
<1>11. ASSUME NEW u \in Users, NEW r \in RAs, NEW f \in Findings,
              Confirm(u, r, f)
       PROVE  AbandonedIsFree'
  <2> DEFINE by == finding[f].accepted_by \cup {u}
  <2>1. by \in SUBSET Users
    BY <1>1 DEF Row
  <2>2. CASE Cardinality(by) = Acceptors
    BY <1>11, <2>1, <2>2, SucceedFree DEF Confirm
  <2>3. CASE Cardinality(by) # Acceptors
    <3>1. finding' = [finding EXCEPT ![f] = ConfirmedRow(finding[f], u)] /\ UNCHANGED ra
      BY <1>11, <2>3 DEF Confirm
    <3>2. \A g \in Findings : Abandoned(finding'[g]) => Abandoned(finding[g])
      BY <1>1, <3>1, RowAbandoned
    <3> QED  BY <3>1, <3>2, StillFree
  <2> QED  BY <2>2, <2>3
<1>12. ASSUME NEW u \in Users, NEW r \in RAs, NEW f \in Findings,
              Review(u, r, f)
       PROVE  AbandonedIsFree'
  <2>1. finding' = [finding EXCEPT ![f] = ReviewedRow(finding[f])] /\ UNCHANGED ra
    BY <1>12 DEF Review
  <2>2. \A g \in Findings : Abandoned(finding'[g]) => Abandoned(finding[g])
    BY <1>1, <2>1, RowAbandoned
  <2> QED  BY <2>1, <2>2, StillFree
<1>13. ASSUME NEW r \in RAs, NEW f \in Findings, Decline(r, f)
       PROVE  AbandonedIsFree'
  <2>1. finding' = [finding EXCEPT ![f] = DeclinedRow(finding[f])] /\ UNCHANGED ra
    BY <1>13 DEF Decline
  <2>2. \A g \in Findings : Abandoned(finding'[g]) => Abandoned(finding[g])
    BY <1>1, <2>1, RowAbandoned
  <2> QED  BY <2>1, <2>2, StillFree
<1>14. ASSUME NEW r \in RAs, NEW f \in Findings, RemoveFinding(r, f)
       PROVE  AbandonedIsFree'
  <2>1. finding' = [finding EXCEPT ![f] = ReleasedRow(finding[f])]
    BY <1>14 DEF RemoveFinding
  <2>2. \A g \in Findings : Abandoned(finding'[g]) => Abandoned(finding[g])
    BY <1>1, <2>1, RowAbandoned
  <2>3. \A s \in RAs : ra'[s].findings \subseteq ra[s].findings
    BY <1>14 DEF RemoveFinding, TypeOK, Acceptance
  <2> QED  BY <2>2, <2>3, StillFree
<1>15. ASSUME NEW f \in Findings, Close(f) \/ Reopen(f) PROVE AbandonedIsFree'
  <2>1. \A g \in Findings \ {f} : finding'[g] = finding[g]
    BY <1>1, <1>15 DEF Close, Reopen
  <2>2. CASE finding[f].risk_accepted
    <3>1. ra' = LeaveAll(f)
      BY <1>15, <2>2 DEF Close, Reopen
    <3>2. \A s \in RAs : ra'[s].findings = ra[s].findings \ {f}
      BY <3>1 DEF LeaveAll, TypeOK, Acceptance
    <3> QED  BY <2>1, <3>2 DEF AbandonedIsFree
  <2>3. CASE ~finding[f].risk_accepted
    <3>1. UNCHANGED ra
      BY <1>15, <2>3 DEF Close, Reopen
    <3>2. Abandoned(finding'[f]) => Abandoned(finding[f])
      BY <1>1, <1>15, <2>3, RowAbandoned DEF Close, Reopen
    <3> QED  BY <2>1, <3>1, <3>2 DEF AbandonedIsFree, Abandoned
  <2> QED  BY <2>2, <2>3
<1>16. ASSUME NEW f \in Findings, NEW b \in BOOLEAN, Reimport(f, b)
       PROVE  AbandonedIsFree'
  <2>1. \A g \in Findings : Abandoned(finding'[g]) => Abandoned(finding[g])
    BY <1>1, <1>16, RowAbandoned DEF Reimport
  <2> QED  BY <1>16, <2>1, StillFree DEF Reimport
<1> QED
  BY <1>2, <1>3, <1>4, <1>5, <1>6, <1>7, <1>8, <1>9, <1>10, <1>11, <1>12,
     <1>13, <1>14, <1>15, <1>16
  DEF Next, vars, OpenForm, OpenPage, Tick

\* A finding that kept the status of an acceptance it lost belongs to no
\* acceptance, stale pages included: reinstating an acceptance cannot turn
\* that status back into an accepted risk.
THEOREM Abandonment == Spec => []AbandonedIsFree
<1>1. Init => TypeOK /\ AbandonedIsFree
  <2>1. NewFinding.risk_status = "Risk Active"
    BY DEF NewFinding
  <2> QED  BY <2>1, InitTypes DEF Init, AbandonedIsFree
<1>2. TypeOK /\ AbandonedIsFree /\ [Next]_vars => (TypeOK /\ AbandonedIsFree)'
  BY NextTypes, NextFree
<1> QED  BY <1>1, <1>2, PTL DEF Spec

-----------------------------------------------------------------------------
(***************************************************************************)
(* Who accepts a finding.                                                  *)
(***************************************************************************)

\* The acceptance of finding f in this step is the work of those who may.
Warranted(f) ==
    \/ \E u \in Users : finding'[f].accepted_by = {u} /\ Alone(u, f)
    \/ Cardinality(finding'[f].accepted_by) = Acceptors

AllWarranted == \A f \in Findings : Granted(f) => Warranted(f)

\* A step grants nothing when whatever is under acceptance after it was so
\* before.
LEMMA NothingGranted ==
    ASSUME \A f \in Findings : Holds(finding'[f]) => Holds(finding[f])
    PROVE  AllWarranted
BY DEF AllWarranted, Granted, Holds

\* The acceptors that a decision makes known are the ones it was made with.
LEMMA SucceedGrants ==
    ASSUME TypeOK, NEW r \in RAs, NEW f \in Findings, NEW by \in SUBSET Users,
           Succeed(r, f, by),
           \/ \E u \in Users : by = {u} /\ Alone(u, f)
           \/ Cardinality(by) = Acceptors
    PROVE  AllWarranted
<1>1. finding' = [finding EXCEPT ![f] = SucceededRow(finding[f], by)]
  BY DEF Succeed
<1>2. finding \in [Findings -> Row]
  BY DEF TypeOK
<1>3. ASSUME NEW g \in Findings, Granted(g) PROVE Warranted(g)
  <2>1. Holds(finding'[g]) /\ ~Holds(finding[g])
    BY <1>3 DEF Granted, Holds
  <2>2. g = f
    BY <1>1, <1>2, <2>1
  <2>3. finding'[f] = SucceededRow(finding[f], by)
    BY <1>1, <1>2
  <2>4. finding'[f].accepted_by = by
    BY <1>2, <2>1, <2>2, <2>3, RowHolds
  <2> QED  BY <2>2, <2>4 DEF Warranted
<1> QED  BY <1>3 DEF AllWarranted

\* Reinstating an acceptance grants nothing: no finding in it is abandoned.
LEMMA ReinstateGrants ==
    ASSUME TypeOK, AbandonedIsFree, NEW r \in RAs, NEW row,
           row.findings = ra[r].findings, Reinstate(r, row)
    PROVE  AllWarranted
<1>1. ASSUME NEW f \in Findings, Holds(finding'[f]) PROVE Holds(finding[f])
  <2>1. CASE f \in ra[r].findings
    <3>1. ~Abandoned(finding[f])
      BY <2>1 DEF AbandonedIsFree, Abandoned
    <3> QED  BY <1>1, <3>1, RowHolds DEF Reinstate, TypeOK
  <2>2. CASE f \notin ra[r].findings
    BY <1>1, <2>2 DEF Reinstate
  <2> QED  BY <2>1, <2>2
<1> QED  BY <1>1, NothingGranted

LEMMA NextGrants == TypeOK /\ AbandonedIsFree /\ Next => AllWarranted
<1> SUFFICES ASSUME TypeOK, AbandonedIsFree, Next PROVE AllWarranted
  OBVIOUS
<1>1. finding \in [Findings -> Row]
  BY DEF TypeOK
<1>2. CASE UNCHANGED finding
  BY <1>2, NothingGranted
<1>3. ASSUME NEW r \in RAs, Delete(r) PROVE AllWarranted
  BY <1>1, <1>3, RowHolds, NothingGranted DEF Delete
<1>4. ASSUME NEW r \in RAs, Expire(r) PROVE AllWarranted
  BY <1>1, <1>4, RowHolds, NothingGranted DEF Expire
<1>5. ASSUME NEW r \in RAs, ReinstateNow(r) PROVE AllWarranted
  BY <1>5, ReinstateGrants DEF ReinstateNow
<1>6. ASSUME NEW r \in RAs, NEW day \in EditDays, NEW b \in Reactivate,
             Edit(r, day, b)
      PROVE  AllWarranted
  <2> DEFINE row == [ra[r] EXCEPT !.expiration = day, !.reactivate = b]
  <2>1. row.findings = ra[r].findings
    BY DEF TypeOK, Acceptance
  <2> QED  BY <1>2, <1>6, <2>1, ReinstateGrants DEF Edit
<1>7. ASSUME NEW u \in Users, NEW r \in RAs, NEW S \in SUBSET Findings,
             NEW f \in Findings, NEW lt \in LongTerm, NEW day \in EditDays,
             Request(u, r, f, S, lt, day)
      PROVE  AllWarranted
  <2>1. CASE u \notin Authority /\ (NeedsAcceptors(u) \/ lt)
    <3>1. finding' = [g \in Findings |-> IF g \in S THEN PendingRow(finding[g])
                                                    ELSE finding[g]]
      BY <1>7, <2>1 DEF Request
    <3> QED  BY <1>1, <3>1, RowHolds, NothingGranted
  <2>2. CASE ~(u \notin Authority /\ (NeedsAcceptors(u) \/ lt))
    <3>1. finding' = [g \in Findings |-> IF g \in S THEN AcceptedRow(finding[g], u)
                                                    ELSE finding[g]]
      BY <1>7, <2>2 DEF Request
    <3>2. \A g \in Findings : Alone(u, g)
      BY <2>2 DEF Alone, HasRole, NeedsAcceptors
    <3>3. ASSUME NEW g \in Findings, Granted(g) PROVE Warranted(g)
      <4>1. g \in S
        BY <3>1, <3>3 DEF Granted
      <4>2. finding'[g].accepted_by = {u}
        BY <1>1, <3>1, <4>1, RowHolds
      <4> QED  BY <3>2, <4>2 DEF Warranted
    <3> QED  BY <3>3 DEF AllWarranted
  <2> QED  BY <2>1, <2>2
<1>8. ASSUME NEW u \in Users, NEW r \in RAs, NEW S \in SUBSET Findings,
             AddFindings(u, r, S)
      PROVE  AllWarranted
  BY <1>1, <1>8, RowHolds, NothingGranted DEF AddFindings
<1>9. ASSUME NEW u \in Users, NEW r \in RAs, NEW f \in Findings,
             AcceptDirectly(u, r, f)
      PROVE  AllWarranted
  <2>1. Alone(u, f) /\ Succeed(r, f, {u})
    BY <1>9 DEF AcceptDirectly, Direct, Alone
  <2> QED  BY <2>1, SucceedGrants
<1>10. ASSUME NEW u \in Users, NEW r \in RAs, NEW f \in Findings,
              Approve(u, r, f)
       PROVE  AllWarranted
  <2>1. Alone(u, f) /\ Succeed(r, f, {u})
    BY <1>10 DEF Approve, Alone
  <2> QED  BY <2>1, SucceedGrants
<1>11. ASSUME NEW u \in Users, NEW r \in RAs, NEW f \in Findings,
              Confirm(u, r, f)
       PROVE  AllWarranted
  <2> DEFINE by == finding[f].accepted_by \cup {u}
  <2>1. by \in SUBSET Users
    BY <1>1 DEF Row
  <2>2. CASE Cardinality(by) = Acceptors
    BY <1>11, <2>1, <2>2, SucceedGrants DEF Confirm
  <2>3. CASE Cardinality(by) # Acceptors
    <3>1. finding' = [finding EXCEPT ![f] = ConfirmedRow(finding[f], u)]
      BY <1>11, <2>3 DEF Confirm
    <3>2. \A g \in Findings : Holds(finding'[g]) => Holds(finding[g])
      BY <1>1, <3>1, RowHolds
    <3> QED  BY <3>2, NothingGranted
  <2> QED  BY <2>2, <2>3
<1>12. ASSUME NEW u \in Users, NEW r \in RAs, NEW f \in Findings,
              Review(u, r, f)
       PROVE  AllWarranted
  <2>1. finding' = [finding EXCEPT ![f] = ReviewedRow(finding[f])]
    BY <1>12 DEF Review
  <2>2. \A g \in Findings : Holds(finding'[g]) => Holds(finding[g])
    BY <1>1, <2>1, RowHolds
  <2> QED  BY <2>2, NothingGranted
<1>13. ASSUME NEW r \in RAs, NEW f \in Findings, Decline(r, f)
       PROVE  AllWarranted
  <2>1. finding' = [finding EXCEPT ![f] = DeclinedRow(finding[f])]
    BY <1>13 DEF Decline
  <2>2. \A g \in Findings : Holds(finding'[g]) => Holds(finding[g])
    BY <1>1, <2>1, RowHolds
  <2> QED  BY <2>2, NothingGranted
<1>14. ASSUME NEW r \in RAs, NEW f \in Findings, RemoveFinding(r, f)
       PROVE  AllWarranted
  <2>1. finding' = [finding EXCEPT ![f] = ReleasedRow(finding[f])]
    BY <1>14 DEF RemoveFinding
  <2>2. \A g \in Findings : Holds(finding'[g]) => Holds(finding[g])
    BY <1>1, <2>1, RowHolds
  <2> QED  BY <2>2, NothingGranted
<1>15. ASSUME NEW f \in Findings, Close(f) \/ Reopen(f) PROVE AllWarranted
  <2>1. \A g \in Findings : Holds(finding'[g]) => Holds(finding[g])
    BY <1>1, <1>15, RowHolds DEF Close, Reopen
  <2> QED  BY <2>1, NothingGranted
<1>16. ASSUME NEW f \in Findings, NEW b \in BOOLEAN, Reimport(f, b)
       PROVE  AllWarranted
  <2>1. \A g \in Findings : Holds(finding'[g]) => Holds(finding[g])
    BY <1>1, <1>16, RowHolds DEF Reimport
  <2> QED  BY <2>1, NothingGranted
<1> QED
  BY <1>2, <1>3, <1>4, <1>5, <1>6, <1>7, <1>8, <1>9, <1>10, <1>11, <1>12,
     <1>13, <1>14, <1>15, <1>16
  DEF Next, OpenForm, OpenPage, Warn, Tick, ExpireNow, ExpireDue

\* A finding becomes "Risk Accepted" only by someone who may decide alone, by
\* an approver after a review, or with the full number of acceptors, stale
\* pages included.
THEOREM Authorisation == Spec => GrantNeedsAuthority
<1>1. TypeOK /\ AbandonedIsFree /\ [Next]_vars => [AllWarranted]_vars
  BY NextGrants
<1>2. [AllWarranted]_vars
      => [\A f \in Findings : Granted(f) =>
             \/ \E u \in Users : finding'[f].accepted_by = {u} /\ Alone(u, f)
             \/ Cardinality(finding'[f].accepted_by) = Acceptors]_vars
  BY DEF AllWarranted, Warranted
<1> QED
  BY <1>1, <1>2, Typing, Abandonment, PTL DEF Spec, GrantNeedsAuthority

-----------------------------------------------------------------------------
(***************************************************************************)
(* How often a finding is assumed.                                         *)
(***************************************************************************)

\* The acceptances of finding f that count for the limit.
Plain(f) == {r \in Governing(f) : ~ra[r].long_term}

\* Plain acceptances, as conditions on one acceptance.
LEMMA PlainDef ==
    ASSUME NEW f
    PROVE  Plain(f) = {r \in RAs : /\ ra[r].live /\ f \in ra[r].findings
                                   /\ ~ra[r].long_term}
BY DEF Plain, Governing, Live

LEMMA FiniteGoverning ==
    ASSUME NEW f PROVE IsFiniteSet(Governing(f)) /\ IsFiniteSet(Plain(f))
<1>1. Governing(f) \subseteq RAs /\ Plain(f) \subseteq RAs
  BY DEF Plain, Governing, Live
<1> QED  BY <1>1, RAsAssumption, FS_Subset

Limited == \A f \in Findings : Cardinality(Plain(f)) <= Limit

\* No more acceptances, no more assumptions.
LEMMA FewerPlain ==
    ASSUME Limited, \A f \in Findings : Plain(f)' \subseteq Plain(f)
    PROVE  Limited'
<1>1. ASSUME NEW f \in Findings PROVE Cardinality(Plain(f)') <= Limit
  <2>1. IsFiniteSet(Plain(f)) /\ Plain(f)' \subseteq Plain(f)
    BY <1>1, FiniteGoverning
  <2>2. /\ Cardinality(Plain(f)') <= Cardinality(Plain(f))
        /\ IsFiniteSet(Plain(f)')
    BY <2>1, FS_Subset
  <2>3. /\ Cardinality(Plain(f)) \in Nat /\ Cardinality(Plain(f)') \in Nat
        /\ Cardinality(Plain(f)) <= Limit
    BY <2>1, <2>2, FS_CardinalityType DEF Limited
  <2> QED  BY <2>2, <2>3, NumbersAssumption
<1> QED  BY <1>1 DEF Limited

\* An acceptance more, under abuse_control, and by someone without a role.
LEMMA OneMorePlain ==
    ASSUME Authority = {}, Acceptors # 0, NEW f, NEW u, NEW r,
           MayAssume(u, f, FALSE), Plain(f)' \subseteq Governing(f) \cup {r}
    PROVE  Cardinality(Plain(f)') <= Limit
<1>1. Cardinality(Governing(f)) < Limit
  BY DEF MayAssume, HasRole
<1>2. /\ IsFiniteSet(Governing(f)) /\ Cardinality(Governing(f)) \in Nat
      /\ IsFiniteSet(Governing(f) \cup {r})
      /\ Cardinality(Governing(f) \cup {r}) <= Cardinality(Governing(f)) + 1
  <2> DEFINE G == Governing(f)
  <2>1. IsFiniteSet(G)
    BY FiniteGoverning
  <2>2. Cardinality(G) \in Nat
    BY <2>1, FS_CardinalityType
  <2>3. /\ IsFiniteSet(G \cup {r})
        /\ Cardinality(G \cup {r}) = IF r \in G THEN Cardinality(G)
                                               ELSE Cardinality(G) + 1
    <3> HIDE DEF G
    <3> QED  BY <2>1, FS_AddElement
  <2> QED  BY <2>1, <2>2, <2>3
<1>3. /\ IsFiniteSet(Plain(f)')
      /\ Cardinality(Plain(f)') <= Cardinality(Governing(f) \cup {r})
  BY <1>2, FS_Subset
<1>4. /\ Cardinality(Plain(f)') \in Nat
      /\ Cardinality(Governing(f) \cup {r}) \in Nat
  BY <1>2, <1>3, FS_CardinalityType
<1> QED  BY <1>1, <1>2, <1>3, <1>4, NumbersAssumption

\* A step that enrols no finding and makes no acceptance short term.
LEMMA NoneEnrolled ==
    ASSUME Limited,
           \A s \in RAs : /\ ra'[s].findings \subseteq ra[s].findings
                          /\ ra'[s].live => ra[s].live
                          /\ ra'[s].live /\ ~ra'[s].long_term => ~ra[s].long_term
    PROVE  Limited'
<1>1. ASSUME NEW f \in Findings PROVE Plain(f)' \subseteq Plain(f)
  BY <1>1 DEF Plain, Governing, Live
<1> QED  BY <1>1, FewerPlain

\* A step that enrols the findings S in acceptance r, and nothing else.
LEMMA SomeEnrolled ==
    ASSUME TypeOK, Limited, Authority = {}, Acceptors # 0,
           NEW r \in RAs, NEW S \in SUBSET Findings, NEW u,
           ra'[r].live, ra'[r].findings \subseteq S \cup (IF ra[r].live THEN ra[r].findings ELSE {}),
           ra[r].live => ra'[r].long_term = ra[r].long_term,
           \A s \in RAs \ {r} : ra'[s] = ra[s],
           \A g \in S : MayAssume(u, g, ra'[r].long_term)
    PROVE  Limited'
<1>1. ASSUME NEW f \in Findings, f \notin S \/ ra'[r].long_term
      PROVE  Plain(f)' \subseteq Plain(f)
  BY <1>1 DEF Plain, Governing, Live
<1>2. ASSUME NEW f \in Findings PROVE Cardinality(Plain(f)') <= Limit
  <2>1. CASE f \notin S \/ ra'[r].long_term
    <3>1. IsFiniteSet(Plain(f)) /\ Plain(f)' \subseteq Plain(f)
      BY <1>1, <2>1, FiniteGoverning
    <3>2. /\ Cardinality(Plain(f)') <= Cardinality(Plain(f))
          /\ IsFiniteSet(Plain(f)')
      BY <3>1, FS_Subset
    <3>3. /\ Cardinality(Plain(f)) \in Nat /\ Cardinality(Plain(f)') \in Nat
          /\ Cardinality(Plain(f)) <= Limit
      BY <3>1, <3>2, FS_CardinalityType DEF Limited
    <3> QED  BY <3>2, <3>3, NumbersAssumption
  <2>2. CASE f \in S /\ ~ra'[r].long_term
    <3>1. MayAssume(u, f, FALSE)
      BY <2>2 DEF MayAssume
    <3>2. Plain(f)' \subseteq Governing(f) \cup {r}
      BY DEF Plain, Governing, Live
    <3> QED  BY <3>1, <3>2, OneMorePlain
  <2> QED  BY <2>1, <2>2
<1> QED  BY <1>2 DEF Limited

LEMMA ReinstateLimited ==
    ASSUME TypeOK, Limited, NEW r \in Live, NEW row \in Acceptance,
           row.live = ra[r].live, row.findings = ra[r].findings,
           row.long_term = ra[r].long_term, Reinstate(r, row)
    PROVE  Limited'
<1>1. \A s \in RAs : /\ ra'[s].findings = ra[s].findings
                     /\ ra'[s].live = ra[s].live
                     /\ ra'[s].long_term = ra[s].long_term
  BY DEF Reinstate, TypeOK, Acceptance, Live
<1> QED  BY <1>1, NoneEnrolled

LEMMA NextLimited ==
    ASSUME Authority = {}, Acceptors # 0, TypeOK, Limited, [Next]_vars
    PROVE  Limited'
<1>1. CASE UNCHANGED ra
  BY <1>1, NoneEnrolled
<1>2. ASSUME NEW r \in RAs, Delete(r) PROVE Limited'
  BY <1>2, NoneEnrolled DEF Delete, TypeOK, Acceptance, NoAcceptance
<1>3. ASSUME NEW r \in RAs, Warn(r) PROVE Limited'
  BY <1>3, NoneEnrolled DEF Warn, TypeOK, Acceptance
<1>4. ASSUME NEW r \in RAs, Expire(r) PROVE Limited'
  BY <1>4, NoneEnrolled DEF Expire, TypeOK, Acceptance
<1>5. ASSUME NEW r \in RAs, ReinstateNow(r) PROVE Limited'
  <2>1. ra[r] \in Acceptance
    BY DEF TypeOK
  <2> QED  BY <1>5, <2>1, ReinstateLimited DEF ReinstateNow
<1>6. ASSUME NEW r \in RAs, NEW day \in EditDays, NEW b \in Reactivate,
             Edit(r, day, b)
      PROVE  Limited'
  <2> DEFINE row == [ra[r] EXCEPT !.expiration = day, !.reactivate = b]
  <2>1. /\ row \in Acceptance /\ row.live = ra[r].live
        /\ row.findings = ra[r].findings /\ row.long_term = ra[r].long_term
    <3>1. day \in Nat /\ b \in BOOLEAN
      BY NumbersAssumption, FlagsAssumption
    <3> QED  BY <3>1 DEF TypeOK, Acceptance
  <2>2. CASE day # ra[r].expiration
    BY <1>6, <2>1, <2>2, ReinstateLimited DEF Edit
  <2>3. CASE day = ra[r].expiration
    <3>1. ra' = [ra EXCEPT ![r] = row]
      BY <1>6, <2>3 DEF Edit
    <3>2. \A s \in RAs : /\ ra'[s].findings = ra[s].findings
                         /\ ra'[s].live = ra[s].live
                         /\ ra'[s].long_term = ra[s].long_term
      BY <2>1, <3>1 DEF TypeOK
    <3> QED  BY <3>2, NoneEnrolled
  <2> QED  BY <2>2, <2>3
<1>7. ASSUME NEW u \in Users, NEW r \in RAs, NEW S \in SUBSET Findings,
             NEW f \in Findings, NEW lt \in LongTerm, NEW day \in EditDays,
             Request(u, r, f, S, lt, day)
      PROVE  Limited'
  <2>1. /\ ~ra[r].live /\ ra'[r].live /\ ra'[r].findings = S
        /\ ra'[r].long_term = lt
        /\ \A s \in RAs \ {r} : ra'[s] = ra[s]
        /\ \A g \in S : MayAssume(u, g, lt)
    BY <1>7 DEF Request, TypeOK
  <2> QED  BY <2>1, SomeEnrolled
<1>8. ASSUME NEW u \in Users, NEW r \in RAs, NEW S \in SUBSET Findings,
             AddFindings(u, r, S)
      PROVE  Limited'
  <2>1. /\ ra[r].live /\ ra'[r].live /\ ra'[r].findings = ra[r].findings \cup S
        /\ ra'[r].long_term = ra[r].long_term
        /\ \A s \in RAs \ {r} : ra'[s] = ra[s]
        /\ \A g \in S : MayAssume(u, g, ra[r].long_term)
    BY <1>8 DEF AddFindings, Live, TypeOK, Acceptance
  <2> QED  BY <2>1, SomeEnrolled
<1>9. ASSUME NEW r \in RAs, NEW f \in Findings, NEW by, Succeed(r, f, by)
      PROVE  Limited'
  BY <1>9, NoneEnrolled DEF Succeed, TypeOK, Acceptance
<1>10. ASSUME NEW r \in RAs, NEW f \in Findings, RemoveFinding(r, f)
       PROVE  Limited'
  BY <1>10, NoneEnrolled DEF RemoveFinding, TypeOK, Acceptance
<1>11. ASSUME NEW f \in Findings, Close(f) \/ Reopen(f) PROVE Limited'
  BY <1>11, NoneEnrolled DEF Close, Reopen, LeaveAll, TypeOK, Acceptance
<1> QED
  BY ZenonT(30), <1>1, <1>2, <1>3, <1>4, <1>5, <1>6, <1>7, <1>8, <1>9, <1>10, <1>11
  DEF Next, vars, OpenForm, OpenPage, AcceptDirectly, Approve, Confirm, Review,
      Decline, Reimport, Tick, ExpireNow, ExpireDue

\* Where no one has a privileged role, no finding is assumed more than Limit
\* times outside long term acceptances, whatever pages are submitted.
THEOREM Limitation == Spec => []LimitHolds
<1>1. Limited /\ Authority = {} /\ Acceptors # 0 => LimitHolds
  BY DEF Limited, LimitHolds, Plain
<1>2. ~(Authority = {} /\ Acceptors # 0) => LimitHolds
  BY DEF LimitHolds
<1>3. CASE Authority = {} /\ Acceptors # 0
  <2>1. Init => TypeOK /\ Limited
    <3>1. ASSUME Init, NEW f \in Findings PROVE Cardinality(Plain(f)) <= Limit
      <4>1. Plain(f) = {}
        BY <3>1, PlainDef DEF Init, NoAcceptance
      <4> QED  BY <4>1, FS_EmptySet, NumbersAssumption
    <3> QED  BY <3>1, InitTypes DEF Limited
  <2>2. TypeOK /\ Limited /\ [Next]_vars => (TypeOK /\ Limited)'
    BY <1>3, NextTypes, NextLimited
  <2>3. Limited => LimitHolds
    BY <1>1, <1>3
  <2> QED  BY <2>1, <2>2, <2>3, PTL DEF Spec
<1>4. CASE ~(Authority = {} /\ Acceptors # 0)
  BY <1>2, <1>4, PTL
<1> QED  BY <1>3, <1>4

-----------------------------------------------------------------------------
(***************************************************************************)
(* RiskAcceptance implements RiskRegister, for any findings, acceptances   *)
(* and people: each step of the flow is a step of the register or none.    *)
(* First, where each handler puts the finding.                             *)
(***************************************************************************)

LEMMA RowPlaces ==
    ASSUME NEW x \in Row, Coherent(x)
    PROVE  /\ x.active <=> Where(x) = "open"
           /\ Where(PendingRow(x)) = Where(x)
           /\ Where(ReviewedRow(x)) = Where(x)
           /\ Where(DeclinedRow(x)) = "open"
           /\ Where(ReleasedRow(x)) = "open"
           /\ Where(ExpiredRow(x)) \in {Where(x), "open"}
           /\ Where(ReinstatedRow(x)) = IF x.active THEN "accepted" ELSE Where(x)
           /\ Where(ClosedRow(x)) = "closed"
           /\ Where(ReopenedRow(x)) = "open"
           /\ Where(MitigatedRow(x)) = "closed"
           /\ Where(ReportedRow(x)) = IF x.risk_accepted THEN "accepted" ELSE "open"
<1>1. x.active <=> Where(x) = "open"
  BY DEF Row, Coherent, Where
<1>2. Where(PendingRow(x)) = Where(x) /\ Where(ReviewedRow(x)) = Where(x)
  BY DEF Row, Where, PendingRow, ReviewedRow
<1>3. Where(DeclinedRow(x)) = "open" /\ Where(ReleasedRow(x)) = "open"
  BY DEF Row, Coherent, Where, DeclinedRow, ReleasedRow, Save
<1>4. Where(ExpiredRow(x)) \in {Where(x), "open"}
  BY DEF Row, Coherent, Where, ExpiredRow, Save
<1>5. Where(ReinstatedRow(x)) = IF x.active THEN "accepted" ELSE Where(x)
  BY DEF Row, Coherent, Where, ReinstatedRow
<1>6. Where(ClosedRow(x)) = "closed" /\ Where(ReopenedRow(x)) = "open"
  BY DEF Row, Coherent, Where, ClosedRow, ReopenedRow, UnacceptedRow, Save
<1>7. Where(MitigatedRow(x)) = "closed"
  BY DEF Row, Where, MitigatedRow
<1>8. Where(ReportedRow(x)) = IF x.risk_accepted THEN "accepted" ELSE "open"
  BY DEF Row, Coherent, Where, ReportedRow, Save
<1> QED  BY <1>1, <1>2, <1>3, <1>4, <1>5, <1>6, <1>7, <1>8

LEMMA DecisionPlaces ==
    ASSUME NEW x \in Row, Coherent(x)
    PROVE  /\ \A u \in Users : Where(AcceptedRow(x, u)) =
                  IF Where(x) = "closed" THEN "closed" ELSE "accepted"
           /\ \A u \in Users : Where(ConfirmedRow(x, u)) = Where(x)
           /\ \A by \in SUBSET Users : Where(SucceededRow(x, by)) =
                  IF x.active THEN "accepted" ELSE Where(x)
<1>1. \A u \in Users : Where(AcceptedRow(x, u)) =
          IF Where(x) = "closed" THEN "closed" ELSE "accepted"
  BY DEF Row, Where, AcceptedRow, Save
<1>2. \A u \in Users : Where(ConfirmedRow(x, u)) = Where(x)
  BY DEF Row, Where, ConfirmedRow
<1>3. \A by \in SUBSET Users : Where(SucceededRow(x, by)) =
          IF x.active THEN "accepted" ELSE Where(x)
  BY DEF Row, Coherent, Where, SucceededRow
<1> QED  BY <1>1, <1>2, <1>3

-----------------------------------------------------------------------------
(***************************************************************************)
(* Steps of the register, finding by finding.                              *)
(***************************************************************************)
RegisterStep == Register!Next \/ UNCHANGED <<Listed, Covered>>

\* Nothing that people see changes.
LEMMA Unseen ==
    ASSUME \A f \in Findings : Where(finding'[f]) = Where(finding[f]),
           \A f \in Findings : Governing(f)' = Governing(f)
    PROVE  RegisterStep
BY DEF RegisterStep, Listed, Covered

\* Findings S that are in acceptance r leave for a place, the others stay.
LEMMA Moved ==
    ASSUME NEW r \in Live, NEW S \in SUBSET ra[r].findings, S \subseteq Findings,
           NEW where \in {"open", "accepted"},
           where = "accepted" => \A f \in S : Where(finding[f]) = "open",
           where = "open" => \A f \in S : Where(finding[f]) # "open",
           \A f \in S : Where(finding'[f]) = where,
           \A f \in Findings \ S : Where(finding'[f]) = Where(finding[f]),
           \A f \in Findings : Governing(f)' = Governing(f)
    PROVE  RegisterStep
<1>1. \A f \in S : r \in Covered[f]
  BY DEF Covered, Governing
<1>2. Covered' = Covered
  BY DEF Covered
<1>3. Register!Set(S, where)
  BY DEF Register!Set, Listed
<1>4. r \in RAs
  BY DEF Live
<1>5. Register!Accept(r, S) \/ Register!Withdraw(r, S)
  BY <1>1, <1>2, <1>3 DEF Register!Accept, Register!Withdraw, Listed
<1> QED  BY <1>4, <1>5 DEF RegisterStep, Register!Next

\* Findings S leave acceptance r and are open.
LEMMA Left ==
    ASSUME NEW r \in Live, NEW S \in SUBSET Findings, S \subseteq ra[r].findings,
           \A f \in S : Where(finding'[f]) = "open",
           \A f \in Findings \ S : Where(finding'[f]) = Where(finding[f]),
           \A f \in S : Governing(f)' = Governing(f) \ {r},
           \A f \in Findings \ S : Governing(f)' = Governing(f)
    PROVE  RegisterStep
<1>1. \A f \in S : r \in Covered[f]
  BY DEF Covered, Governing
<1>2. Covered' = [f \in Findings |-> IF f \in S THEN Covered[f] \ {r} ELSE Covered[f]]
  BY DEF Covered
<1>3. Register!Set(S, "open")
  BY DEF Register!Set, Listed
<1>4. r \in RAs
  BY DEF Live
<1>5. Register!Leave(r, S)
  BY <1>1, <1>2, <1>3 DEF Register!Leave
<1> QED  BY <1>4, <1>5 DEF RegisterStep, Register!Next

\* Findings S join acceptance r, as a request or accepted at once.
LEMMA Joined ==
    ASSUME NEW r \in RAs, NEW S \in SUBSET Findings,
           \A f \in S : Governing(f)' = Governing(f) \cup {r},
           \A f \in Findings \ S : Governing(f)' = Governing(f),
           \A f \in Findings \ S : Where(finding'[f]) = Where(finding[f]),
           \/ \A f \in S : Where(finding'[f]) = Where(finding[f])
           \/ \A f \in S : Where(finding'[f]) =
                  IF Where(finding[f]) = "closed" THEN "closed" ELSE "accepted"
    PROVE  RegisterStep
<1>1. Covered' = [f \in Findings |-> IF f \in S THEN Covered[f] \cup {r} ELSE Covered[f]]
  BY DEF Covered
<1>2. CASE \A f \in S : Where(finding'[f]) = Where(finding[f])
  <2>1. UNCHANGED Listed
    BY <1>2 DEF Listed
  <2>2. Register!Join(r, S)
    BY <1>1, <2>1 DEF Register!Join
  <2> QED  BY <2>2 DEF RegisterStep, Register!Next
<1>3. CASE \A f \in S : Where(finding'[f]) =
               IF Where(finding[f]) = "closed" THEN "closed" ELSE "accepted"
  <2>1. Register!Set({f \in S : Listed[f] # "closed"}, "accepted")
    BY <1>3 DEF Register!Set, Listed
  <2>2. Register!Join(r, S)
    BY <1>1, <2>1 DEF Register!Join
  <2> QED  BY <2>2 DEF RegisterStep, Register!Next
<1> QED  BY <1>2, <1>3

\* One finding is fixed or found again.
LEMMA MovedAlone ==
    ASSUME NEW f \in Findings,
           \/ Where(finding'[f]) \in {"open", "closed"}
           \/ /\ Where(finding'[f]) = "accepted" /\ Where(finding[f]) = "closed"
              /\ Governing(f) # {} /\ Governing(f)' = Governing(f),
           Governing(f)' \in {Governing(f), {}},
           \A g \in Findings \ {f} : Where(finding'[g]) = Where(finding[g]),
           \A g \in Findings \ {f} : Governing(g)' = Governing(g)
    PROVE  RegisterStep
<1>1. Covered' \in {Covered, [Covered EXCEPT ![f] = {}]}
  BY DEF Covered
<1>2. Register!Set({f}, Where(finding'[f]))
  BY DEF Register!Set, Listed
<1>3. Register!Close(f) \/ Register!Reopen(f)
  <2>1. CASE Where(finding'[f]) = "closed"
    BY <1>1, <1>2, <2>1 DEF Register!Close
  <2>2. CASE Where(finding'[f]) = "open"
    BY <1>1, <1>2, <2>2 DEF Register!Reopen
  <2>3. CASE /\ Where(finding'[f]) = "accepted" /\ Where(finding[f]) = "closed"
             /\ Governing(f) # {} /\ Governing(f)' = Governing(f)
    <3>1. Listed[f] = "closed" /\ Covered[f] # {}
      BY <2>3 DEF Listed, Covered
    <3>2. UNCHANGED Covered
      BY <2>3 DEF Covered
    <3> QED  BY <1>2, <2>3, <3>1, <3>2 DEF Register!Reopen
  <2> QED  BY <2>1, <2>2, <2>3
<1> QED  BY <1>3 DEF RegisterStep, Register!Next

-----------------------------------------------------------------------------
(***************************************************************************)
(* Each step of the flow.                                                  *)
(***************************************************************************)

\* What the proofs of RiskAcceptance establish of every reachable state.
FlowInv == TypeOK /\ StatusCoherent /\ GovernedInv

\* A row of Risk_Acceptance that keeps its findings keeps what it governs.
LEMMA SameCover ==
    ASSUME \A s \in RAs : ra'[s].live = ra[s].live /\ ra'[s].findings = ra[s].findings
    PROVE  \A f \in Findings : Governing(f)' = Governing(f)
BY DEF Governing, Live

LEMMA SucceedStep ==
    ASSUME FlowInv, NEW r \in Live, NEW f \in Findings, NEW by \in SUBSET Users,
           Reachable(r, f), Succeed(r, f, by)
    PROVE  RegisterStep
<1>1. f \in ra[r].findings /\ finding[f] \in Row /\ Coherent(finding[f])
  BY DEF FlowInv, GovernedInv, FreshPages, Reachable, TypeOK, StatusCoherent
<1>2. /\ finding' = [finding EXCEPT ![f] = SucceededRow(finding[f], by)]
      /\ \A s \in RAs : ra'[s].live = ra[s].live /\ ra'[s].findings = ra[s].findings
  BY DEF Succeed, FlowInv, TypeOK, Acceptance
<1>3. \A g \in Findings : Governing(g)' = Governing(g)
  BY <1>2, SameCover
<1>4. /\ finding'[f] = SucceededRow(finding[f], by)
      /\ \A g \in Findings \ {f} : finding'[g] = finding[g]
  BY <1>2 DEF FlowInv, TypeOK
<1>5. Where(finding'[f]) = IF finding[f].active THEN "accepted" ELSE Where(finding[f])
  BY <1>1, <1>4, DecisionPlaces
<1>6. CASE finding[f].active
  <2>1. Where(finding[f]) = "open"
    BY <1>1, <1>6, RowPlaces
  <2>2. Where(finding'[f]) = "accepted"
    BY <1>5, <1>6
  <2> QED  BY <1>1, <1>3, <1>4, <2>1, <2>2, Moved
<1>7. CASE ~finding[f].active
  BY <1>3, <1>4, <1>5, <1>7, Unseen
<1> QED  BY <1>6, <1>7

LEMMA ExpireStep ==
    ASSUME FlowInv, NEW r \in Live, Expire(r)
    PROVE  RegisterStep
<1> DEFINE S == {f \in Findings : /\ ra[r].reactivate /\ f \in ra[r].findings
                                  /\ Where(finding'[f]) # Where(finding[f])}
<1>1. \A f \in Findings : finding[f] \in Row /\ Coherent(finding[f])
  BY DEF FlowInv, TypeOK, StatusCoherent
<1>2. \A s \in RAs : ra'[s].live = ra[s].live /\ ra'[s].findings = ra[s].findings
  BY DEF Expire, FlowInv, TypeOK, Acceptance
<1>3. \A f \in Findings : Governing(f)' = Governing(f)
  BY <1>2, SameCover
<1>4. \A f \in Findings : Where(finding'[f]) \in {Where(finding[f]), "open"}
  BY <1>1, RowPlaces DEF Expire
<1>5. \A f \in Findings \ S : Where(finding'[f]) = Where(finding[f])
  BY DEF Expire
<1>6. \A f \in S : Where(finding'[f]) = "open" /\ Where(finding[f]) # "open"
  BY <1>4
<1>7. S \in SUBSET ra[r].findings /\ S \subseteq Findings
  OBVIOUS
<1> HIDE DEF S
<1> QED  BY <1>3, <1>5, <1>6, <1>7, Moved

LEMMA ReinstateStep ==
    ASSUME FlowInv, NEW r \in Live, NEW row \in Acceptance,
           row.live = ra[r].live, row.findings = ra[r].findings, Reinstate(r, row)
    PROVE  RegisterStep
<1> DEFINE S == {f \in Findings : /\ row.handled /\ f \in ra[r].findings
                                  /\ finding[f].active}
<1>1. \A f \in Findings : finding[f] \in Row /\ Coherent(finding[f])
  BY DEF FlowInv, TypeOK, StatusCoherent
<1>2. \A s \in RAs : ra'[s].live = ra[s].live /\ ra'[s].findings = ra[s].findings
  BY DEF Live, Reinstate, FlowInv, TypeOK, Acceptance
<1>3. \A f \in Findings : Governing(f)' = Governing(f)
  BY <1>2, SameCover
<1>4. \A f \in S : Where(finding'[f]) = "accepted" /\ Where(finding[f]) = "open"
  BY <1>1, RowPlaces DEF Reinstate
<1>5. \A f \in Findings \ S : Where(finding'[f]) = Where(finding[f])
  BY <1>1, RowPlaces DEF Reinstate
<1>6. S \in SUBSET ra[r].findings /\ S \subseteq Findings
  OBVIOUS
<1> HIDE DEF S
<1> QED  BY <1>3, <1>4, <1>5, <1>6, Moved

LEMMA FlowStep ==
    ASSUME ~StalePages, FlowInv, [Next]_vars
    PROVE  RegisterStep
<1>1. /\ \A f \in Findings : finding[f] \in Row /\ Coherent(finding[f])
      /\ finding \in [Findings -> Row] /\ page = {} /\ TypeOK
  BY DEF FlowInv, TypeOK, StatusCoherent, GovernedInv, FreshPages
<1>2. ASSUME UNCHANGED <<finding, ra>> PROVE RegisterStep
  BY <1>2 DEF RegisterStep, Listed, Covered, Governing, Live
<1>3. CASE OpenForm \/ (\E r \in RAs : OpenPage(r)) \/ Tick \/ UNCHANGED vars
  BY <1>2, <1>3 DEF OpenForm, OpenPage, Tick, vars
<1>4. ASSUME NEW r \in RAs, Delete(r) PROVE RegisterStep
  <2>1. \A f \in ra[r].findings \cap Findings : Where(finding'[f]) = "open"
    BY <1>1, <1>4, RowPlaces DEF Delete
  <2>2. \A f \in Findings \ ra[r].findings : Where(finding'[f]) = Where(finding[f])
    BY <1>4 DEF Delete
  <2>3. r \in Live /\ ra[r].findings \in SUBSET Findings
    BY <1>1, <1>4 DEF Delete, TypeOK, Acceptance
  <2>4. ~ra'[r].live /\ \A s \in RAs \ {r} : ra'[s] = ra[s]
    BY <1>1, <1>4 DEF Delete, TypeOK, NoAcceptance
  <2>5. \A f \in Findings : Governing(f)' = Governing(f) \ {r}
    BY <2>4 DEF Governing, Live
  <2>6. \A f \in Findings \ ra[r].findings : Governing(f)' = Governing(f)
    BY <2>5 DEF Governing
  <2> QED  BY <2>1, <2>2, <2>3, <2>5, <2>6, Left
<1>5. ASSUME NEW r \in RAs, Warn(r) PROVE RegisterStep
  <2>1. \A s \in RAs : ra'[s].live = ra[s].live /\ ra'[s].findings = ra[s].findings
    BY <1>1, <1>5 DEF Warn, TypeOK, Acceptance
  <2>2. \A f \in Findings : Governing(f)' = Governing(f)
    BY <2>1, SameCover
  <2> QED  BY <1>5, <2>2, Unseen DEF Warn
<1>6. ASSUME NEW r \in RAs, ExpireNow(r) \/ ExpireDue(r) PROVE RegisterStep
  BY <1>6, ExpireStep DEF ExpireNow, ExpireDue, Due
<1>7. ASSUME NEW r \in RAs, ReinstateNow(r) PROVE RegisterStep
  <2>1. ra[r] \in Acceptance
    BY <1>1 DEF TypeOK
  <2> QED  BY <1>7, <2>1, ReinstateStep DEF ReinstateNow
<1>8. ASSUME NEW r \in RAs, NEW day \in EditDays, NEW b \in Reactivate,
             Edit(r, day, b)
      PROVE  RegisterStep
  <2> DEFINE row == [ra[r] EXCEPT !.expiration = day, !.reactivate = b]
  <2>1. row \in Acceptance /\ row.live = ra[r].live /\ row.findings = ra[r].findings
    <3>1. day \in Nat /\ b \in BOOLEAN
      BY NumbersAssumption, FlagsAssumption
    <3> QED  BY <1>1, <3>1 DEF TypeOK, Acceptance
  <2>2. CASE day # ra[r].expiration
    BY <1>8, <2>1, <2>2, ReinstateStep DEF Edit
  <2>3. CASE day = ra[r].expiration
    <3>1. ra' = [ra EXCEPT ![r] = row] /\ UNCHANGED finding
      BY <1>8, <2>3 DEF Edit
    <3>2. \A s \in RAs : ra'[s].live = ra[s].live /\ ra'[s].findings = ra[s].findings
      BY <1>1, <2>1, <3>1 DEF TypeOK
    <3>3. \A f \in Findings : Governing(f)' = Governing(f)
      BY <3>2, SameCover
    <3> QED  BY <3>1, <3>3, Unseen
  <2> QED  BY <2>2, <2>3
<1>9. ASSUME NEW u \in Users, NEW r \in RAs, NEW S \in SUBSET Findings,
             NEW f \in Findings, NEW lt \in LongTerm, NEW day \in EditDays,
             Request(u, r, f, S, lt, day)
      PROVE  RegisterStep
  <2>1. /\ ~ra[r].live /\ ra'[r].live /\ ra'[r].findings = S
        /\ \A s \in RAs \ {r} : ra'[s] = ra[s]
    BY <1>1, <1>9 DEF Request, TypeOK
  <2>2. \A g \in S : Governing(g)' = Governing(g) \cup {r}
    BY <2>1 DEF Governing, Live
  <2>3. \A g \in Findings \ S : Governing(g)' = Governing(g)
    BY <2>1 DEF Governing, Live
  <2>4. \A g \in Findings \ S : Where(finding'[g]) = Where(finding[g])
    BY <1>9 DEF Request
  <2>5. CASE u \notin Authority /\ (NeedsAcceptors(u) \/ lt)
    <3>1. \A g \in S : finding'[g] = PendingRow(finding[g])
      BY <1>9, <2>5 DEF Request
    <3>2. \A g \in S : Where(finding'[g]) = Where(finding[g])
      BY <1>1, <3>1, RowPlaces
    <3> QED  BY <2>2, <2>3, <2>4, <3>2, Joined
  <2>6. CASE ~(u \notin Authority /\ (NeedsAcceptors(u) \/ lt))
    <3>1. \A g \in S : finding'[g] = AcceptedRow(finding[g], u)
      BY <1>9, <2>6 DEF Request
    <3>2. \A g \in S : Where(finding'[g]) =
             IF Where(finding[g]) = "closed" THEN "closed" ELSE "accepted"
      BY <1>1, <3>1, DecisionPlaces
    <3> QED  BY <2>2, <2>3, <2>4, <3>2, Joined
  <2> QED  BY <2>5, <2>6
<1>10. ASSUME NEW u \in Users, NEW r \in RAs, NEW S \in SUBSET Findings,
              AddFindings(u, r, S)
       PROVE  RegisterStep
  <2>1. /\ ra[r].live /\ ra'[r].live /\ ra'[r].findings = ra[r].findings \cup S
        /\ \A s \in RAs \ {r} : ra'[s] = ra[s]
    BY <1>1, <1>10 DEF AddFindings, Live, TypeOK, Acceptance
  <2>2. \A g \in S : Governing(g)' = Governing(g) \cup {r}
    BY <2>1 DEF Governing, Live
  <2>3. \A g \in Findings \ S : Governing(g)' = Governing(g)
    BY <2>1 DEF Governing, Live
  <2>4. \A g \in Findings : Where(finding'[g]) = Where(finding[g])
    BY <1>1, <1>10, RowPlaces DEF AddFindings
  <2> QED  BY <2>2, <2>3, <2>4, Joined
<1>11. ASSUME NEW u \in Users, NEW r \in RAs, NEW f \in Findings,
              AcceptDirectly(u, r, f) \/ Approve(u, r, f)
       PROVE  RegisterStep
  BY <1>11, SucceedStep DEF AcceptDirectly, Approve, Decidable
<1>12. ASSUME NEW u \in Users, NEW r \in RAs, NEW f \in Findings,
              Confirm(u, r, f)
       PROVE  RegisterStep
  <2> DEFINE by == finding[f].accepted_by \cup {u}
  <2>1. by \in SUBSET Users
    BY <1>1 DEF Row
  <2>2. CASE Cardinality(by) = Acceptors
    BY <1>12, <2>1, <2>2, SucceedStep DEF Confirm, Decidable
  <2>3. CASE Cardinality(by) # Acceptors
    <3>1. /\ UNCHANGED ra
          /\ finding' = [finding EXCEPT ![f] = ConfirmedRow(finding[f], u)]
      BY <1>12, <2>3 DEF Confirm
    <3>2. \A g \in Findings : Where(finding'[g]) = Where(finding[g])
      BY <1>1, <3>1, DecisionPlaces
    <3>3. \A g \in Findings : Governing(g)' = Governing(g)
      BY <3>1 DEF Governing, Live
    <3> QED  BY <3>2, <3>3, Unseen
  <2> QED  BY <2>2, <2>3
<1>13. ASSUME NEW u \in Users, NEW r \in RAs, NEW f \in Findings,
              Review(u, r, f)
       PROVE  RegisterStep
  <2>1. UNCHANGED ra /\ finding' = [finding EXCEPT ![f] = ReviewedRow(finding[f])]
    BY <1>13 DEF Review
  <2>2. \A g \in Findings : Where(finding'[g]) = Where(finding[g])
    BY <1>1, <2>1, RowPlaces
  <2>3. \A g \in Findings : Governing(g)' = Governing(g)
    BY <2>1 DEF Governing, Live
  <2> QED  BY <2>2, <2>3, Unseen
<1>14. ASSUME NEW r \in RAs, NEW f \in Findings, Decline(r, f)
       PROVE  RegisterStep
  <2>1. UNCHANGED ra /\ finding' = [finding EXCEPT ![f] = DeclinedRow(finding[f])]
    BY <1>14 DEF Decline
  <2>2. /\ Where(finding'[f]) = "open"
        /\ \A g \in Findings \ {f} : finding'[g] = finding[g]
    BY <1>1, <2>1, RowPlaces
  <2>3. \A g \in Findings : Governing(g)' = Governing(g)
    BY <2>1 DEF Governing, Live
  <2>4. r \in Live /\ f \in ra[r].findings
    BY <1>1, <1>14 DEF Decline, Clickable, HasButtons
  <2>5. CASE Where(finding[f]) = "open"
    BY <2>2, <2>3, <2>5, Unseen
  <2>6. CASE Where(finding[f]) # "open"
    BY <2>2, <2>3, <2>4, <2>6, Moved
  <2> QED  BY <2>5, <2>6
<1>15. ASSUME NEW r \in RAs, NEW f \in Findings, RemoveFinding(r, f)
       PROVE  RegisterStep
  <2>1. finding' = [finding EXCEPT ![f] = ReleasedRow(finding[f])]
    BY <1>15 DEF RemoveFinding
  <2>2. /\ Where(finding'[f]) = "open"
        /\ \A g \in Findings \ {f} : finding'[g] = finding[g]
    BY <1>1, <2>1, RowPlaces
  <2>3. /\ ra'[r].findings = ra[r].findings \ {f}
        /\ \A s \in RAs : ra'[s].live = ra[s].live
        /\ \A s \in RAs \ {r} : ra'[s] = ra[s]
    BY <1>1, <1>15 DEF RemoveFinding, TypeOK, Acceptance
  <2>4. Governing(f)' = Governing(f) \ {r}
    BY <2>3 DEF Governing, Live
  <2>5. \A g \in Findings \ {f} : Governing(g)' = Governing(g)
    BY <2>3 DEF Governing, Live
  <2>6. r \in Live /\ f \in ra[r].findings
    BY <1>1, <1>15 DEF RemoveFinding, Clickable, HasButtons
  <2>7. /\ {f} \in SUBSET Findings /\ {f} \subseteq ra[r].findings
        /\ \A g \in {f} : Where(finding'[g]) = "open"
        /\ \A g \in Findings \ {f} : Where(finding'[g]) = Where(finding[g])
        /\ \A g \in {f} : Governing(g)' = Governing(g) \ {r}
    BY <2>2, <2>4, <2>6
  <2> QED  BY <2>5, <2>6, <2>7, Left
<1>16. ASSUME NEW f \in Findings, Close(f) \/ Reopen(f) PROVE RegisterStep
  <2>1. \/ finding' = [finding EXCEPT ![f] = ClosedRow(finding[f])]
        \/ finding' = [finding EXCEPT ![f] = ReopenedRow(finding[f])]
    BY <1>16 DEF Close, Reopen
  <2>2. /\ Where(finding'[f]) \in {"open", "closed"}
        /\ \A g \in Findings \ {f} : finding'[g] = finding[g]
    BY <1>1, <2>1, RowPlaces
  <2>3. ra' = ra \/ ra' = LeaveAll(f)
    BY <1>16 DEF Close, Reopen
  <2>4. ASSUME ra' = LeaveAll(f)
        PROVE  /\ Governing(f)' = {}
               /\ \A g \in Findings \ {f} : Governing(g)' = Governing(g)
    <3>1. \A s \in RAs : /\ ra'[s].live = ra[s].live
                          /\ ra'[s].findings = ra[s].findings \ {f}
      BY <1>1, <2>4 DEF LeaveAll, TypeOK, Acceptance
    <3> QED  BY <3>1 DEF Governing, Live
  <2>5. ASSUME ra' = ra PROVE \A g \in Findings : Governing(g)' = Governing(g)
    BY <2>5 DEF Governing, Live
  <2>6. /\ Governing(f)' \in {Governing(f), {}}
        /\ \A g \in Findings \ {f} : Governing(g)' = Governing(g)
    BY <2>3, <2>4, <2>5
  <2> QED  BY <2>2, <2>6, MovedAlone
<1>17. ASSUME NEW f \in Findings, NEW b \in BOOLEAN, Reimport(f, b)
       PROVE  RegisterStep
  <2>1. \A g \in Findings : Governing(g)' = Governing(g)
    BY <1>17 DEF Reimport, Governing, Live
  <2>2. /\ \/ finding'[f] = ReportedRow(finding[f])
           \/ finding'[f] = MitigatedRow(finding[f])
        /\ \A g \in Findings \ {f} : finding'[g] = finding[g]
    BY <1>1, <1>17 DEF Reimport
  <2>3. CASE finding'[f] = MitigatedRow(finding[f])
    <3>1. Where(finding'[f]) = "closed"
      BY <1>1, <2>3, RowPlaces
    <3> QED  BY <2>1, <2>2, <3>1, MovedAlone
  <2>4. CASE finding'[f] = ReportedRow(finding[f])
    <3>1. Where(finding'[f]) = IF finding[f].risk_accepted THEN "accepted" ELSE "open"
      BY <1>1, <2>4, RowPlaces
    <3>2. CASE ~finding[f].risk_accepted
      BY <2>1, <2>2, <3>1, <3>2, MovedAlone
    <3>3. CASE finding[f].risk_accepted /\ ~finding[f].is_mitigated
      <4>1. Where(finding[f]) = "accepted"
        BY <3>3 DEF Where
      <4> QED  BY <2>1, <2>2, <3>1, <3>3, <4>1, Unseen
    <3>4. CASE finding[f].risk_accepted /\ finding[f].is_mitigated
      <4>1. Where(finding[f]) = "closed"
        BY <3>4 DEF Where
      <4>2. Governing(f) # {}
        BY <3>4 DEF FlowInv, GovernedInv, AllGoverned, Governed, Governing, Live
      <4> QED  BY <2>1, <2>2, <3>1, <3>4, <4>1, <4>2, MovedAlone
    <3> QED  BY <3>2, <3>3, <3>4, <1>1 DEF Row
  <2> QED  BY <2>2, <2>3, <2>4
<1> QED
  BY <1>3, <1>4, <1>5, <1>6, <1>7, <1>8, <1>9, <1>10, <1>11, <1>12, <1>13,
     <1>14, <1>15, <1>16, <1>17 DEF Next

-----------------------------------------------------------------------------
LEMMA InitRegister == Init => Register!Init
<1>1. Where(NewFinding) = "open"
  BY DEF Where, NewFinding
<1>2. ASSUME Init PROVE \A f \in Findings : Governing(f) = {}
  BY <1>2 DEF Init, Governing, Live, NoAcceptance
<1> QED  BY <1>1, <1>2 DEF Init, Register!Init, Listed, Covered

\* The flow implements the register that people read, for any findings,
\* acceptances, people and numbers, as long as pages are submitted as rendered.
THEOREM Refinement ==
    ASSUME ~StalePages
    PROVE  Spec => RegisterSpec
<1>1. Init => FlowInv
  <2>1. ~NewFinding.risk_accepted
    BY DEF NewFinding
  <2> QED
    BY <2>1, InitTypes, InitCoherence
    DEF Init, FlowInv, GovernedInv, FreshPages, AllGoverned
<1>2. FlowInv /\ [Next]_vars => FlowInv'
  BY NextTypes, NextCoherence, NextGoverned DEF FlowInv
<1>3. FlowInv /\ [Next]_vars => [Register!Next]_(Register!vars)
  BY FlowStep DEF RegisterStep, Register!vars
<1> QED  BY <1>1, <1>2, <1>3, InitRegister, PTL DEF Spec, RegisterSpec, Register!Spec

=============================================================================
