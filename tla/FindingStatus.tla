--------------------------- MODULE FindingStatus ---------------------------
(***************************************************************************)
(* The status columns of one row of the table of findings, and what each   *)
(* handler of the risk acceptance flow does to them when it calls          *)
(* finding.save().  The module has no state: RiskAcceptance keeps one such  *)
(* row per finding.                                                         *)
(*                                                                          *)
(* is_mitigated stands for is_mitigated and mitigated, which the pre-save  *)
(* signal keeps in step.  No finding is a false positive or out of scope.   *)
(***************************************************************************)

CONSTANT Users    \* accounts with Permissions.Risk_Acceptance

RiskStatus == {"Risk Active", "Risk Pending", "Risk Reviewed",
               "Risk Accepted", "Risk Rejected", "Risk Expired"}

Row == [active        : BOOLEAN,
        is_mitigated  : BOOLEAN,
        risk_accepted : BOOLEAN,
        risk_status   : RiskStatus,
        accepted_by   : SUBSET Users]

\* A finding as the importers create it.
NewFinding == [active        |-> TRUE,
               is_mitigated  |-> FALSE,
               risk_accepted |-> FALSE,
               risk_status   |-> "Risk Active",
               accepted_by   |-> {}]

-----------------------------------------------------------------------------
\* Seeded fault: the signal leaves the marks of a closed finding as they are.
SaveAsGiven(old, new) == new

\* finding.save(): the pre-save signal compares the row that was loaded with
\* the one about to be written, and a finding that becomes active loses every
\* mark of being closed.
Save(old, new) ==
    IF new.active /\ ~old.active
    THEN [new EXCEPT !.is_mitigated = FALSE]
    ELSE new

-----------------------------------------------------------------------------
(***************************************************************************)
(* Requests and decisions.                                                 *)
(***************************************************************************)

\* ra_helper.add_findings_to_risk_pending.  The names of earlier acceptors
\* stay: the reset is written to another attribute (acceptend_by).
PendingRow(x) == [x EXCEPT !.risk_status = "Risk Pending"]

\* ra_helper.add_findings_to_risk_acceptance, by user u.
AcceptedRow(x, u) ==
    Save(x, [x EXCEPT !.active = FALSE,
                      !.risk_accepted = TRUE,
                      !.risk_status = "Risk Accepted",
                      !.accepted_by = {u}])

\* rp_helper.risk_accepted_succesfully on a row whose acceptors are now `by`.
\* A finding that is not active is not saved, its new acceptors included.
SucceededRow(x, by) ==
    IF ~x.active THEN x
    ELSE [x EXCEPT !.active = FALSE,
                   !.risk_accepted = TRUE,
                   !.risk_status = "Risk Accepted",
                   !.accepted_by = by]

\* rp_helper.risk_acceptante_pending, one more acceptor, not the last.
ConfirmedRow(x, u) ==
    [x EXCEPT !.accepted_by = @ \cup {u},
              !.risk_status = IF @ = "Risk Rejected" THEN "Risk Pending" ELSE @]

\* rp_helper.risk_acceptante_pending, first step of a long term acceptance.
ReviewedRow(x) == [x EXCEPT !.risk_status = "Risk Reviewed"]

\* rp_helper.risk_acceptance_decline.
DeclinedRow(x) ==
    Save(x, [x EXCEPT !.active = TRUE,
                      !.risk_accepted = FALSE,
                      !.risk_status = "Risk Rejected",
                      !.accepted_by = {}])

\* Seeded fault: the finding leaves the acceptance and stays accepted.
DetachedRow(x) == [x EXCEPT !.risk_status = "Risk Active", !.accepted_by = {}]

\* rp_helper.delete and rp_helper.remove_finding_from_risk_acceptance.
ReleasedRow(x) ==
    Save(x, [x EXCEPT !.active = TRUE,
                      !.risk_accepted = FALSE,
                      !.risk_status = "Risk Active",
                      !.accepted_by = {}])

-----------------------------------------------------------------------------
(***************************************************************************)
(* Expiration and reinstatement.                                           *)
(***************************************************************************)

\* Seeded fault: the findings to reactivate are picked by their risk_status,
\* which a reinstatement does not restore.
ExpiredRowIfAccepted(x) ==
    IF x.risk_status # "Risk Accepted" THEN x
    ELSE IF x.is_mitigated THEN [x EXCEPT !.risk_status = "Risk Expired"]
    ELSE Save(x, [x EXCEPT !.active = TRUE,
                           !.risk_accepted = FALSE,
                           !.risk_status = "Risk Active",
                           !.accepted_by = {}])

\* ra_helper.expire_now with reactivate_expired, one finding.
ExpiredRow(x) ==
    CASE x.active /\ x.risk_status = "Risk Active" -> x
      [] x.is_mitigated -> [x EXCEPT !.risk_status = "Risk Expired"]
      [] OTHER -> Save(x, [x EXCEPT !.active = TRUE,
                                    !.risk_accepted = FALSE,
                                    !.risk_status = "Risk Active",
                                    !.accepted_by = {}])

\* ra_helper.reinstate, one finding.
ReinstatedRow(x) ==
    IF x.active
    THEN [x EXCEPT !.active = FALSE, !.risk_accepted = TRUE]
    ELSE x

-----------------------------------------------------------------------------
(***************************************************************************)
(* Closing, reopening and reimporting.                                     *)
(***************************************************************************)

\* Seeded fault: a mitigated finding keeps the flag, as in rp_helper.risk_unaccept.
UnacceptedRowIfOpen(x) ==
    IF x.risk_accepted /\ ~x.is_mitigated
    THEN [x EXCEPT !.active = TRUE, !.risk_accepted = FALSE]
    ELSE x

\* ra_helper.risk_unaccept: risk_status and accepted_by stay as they are.
UnacceptedRow(x) ==
    IF x.risk_accepted
    THEN [x EXCEPT !.active = @ \/ ~x.is_mitigated, !.risk_accepted = FALSE]
    ELSE x

\* views.close_finding.
ClosedRow(x) ==
    Save(x, UnacceptedRow([x EXCEPT !.active = FALSE, !.is_mitigated = TRUE]))

\* views.reopen_finding.
ReopenedRow(x) ==
    Save(x, UnacceptedRow([x EXCEPT !.active = TRUE, !.is_mitigated = FALSE]))

\* The scanner no longer reports the finding: close_old_findings.
MitigatedRow(x) ==
    IF x.is_mitigated THEN x
    ELSE [x EXCEPT !.active = FALSE, !.is_mitigated = TRUE]

\* The scanner reports the finding again: process_matched_finding.
ReportedRow(x) ==
    CASE x.risk_accepted -> [x EXCEPT !.is_mitigated = FALSE]
      [] ~x.risk_accepted /\ x.is_mitigated ->
            Save(x, [x EXCEPT !.active = TRUE, !.is_mitigated = FALSE])
      [] OTHER -> x

-----------------------------------------------------------------------------
\* What the status columns of a row must say together: a finding is on the
\* list of open findings unless it is mitigated or its risk is accepted.
Coherent(x) == x.active <=> ~x.is_mitigated /\ ~x.risk_accepted

=============================================================================
