--------------------------- MODULE RiskAcceptance ---------------------------
(***************************************************************************)
(* The risk acceptance flow of one engagement with RISK_PENDING enabled:   *)
(* requests, confirmations, rejections, long term reviews, removal,        *)
(* expiration by hand and by the scheduled job, reinstatement, and the      *)
(* closing, reopening and reimporting of the findings meanwhile.  Each     *)
(* action is one HTTP request, or one iteration of a scheduled job.         *)
(*                                                                          *)
(* The findings are of one severity and none is a duplicate; the product    *)
(* has full, and not simple, risk acceptance.                               *)
(***************************************************************************)
EXTENDS FindingStatus, Integers, FiniteSets

CONSTANTS
    Findings,        \* findings of the engagement
    RAs,             \* identities of Risk_Acceptance rows
    Privileged,      \* superusers and roles with exclusive permissions
    Maintainers,     \* members whose role is in ROLE_ALLOWED_TO_ACCEPT_RISKS
    Leaders,         \* members whose role is in the rule's "roles"
    Contacts,        \* contacts of the product for this severity
    Reviewers,       \* group Reviewer_Risk
    Approvers,       \* group Approvers_Risk
    ComplianceTeam,  \* group Compliance
    Compliance,      \* findings whose impact is in COMPLIANCE_FILTER_RISK
    Acceptors,       \* number_acceptors of the rule
    Limit,           \* LIMIT_ASSUMPTION_OF_VULNERABILITY
    Sla,             \* days of RiskAcceptanceExpiration
    DefaultDays,     \* risk_acceptance_form_default_days
    HeadsUp,         \* risk_acceptance_notify_before_expiration
    EditDays,        \* expiration days a person may type into a form
    Reactivate,      \* values a person may give to reactivate_expired
    LongTerm,        \* values a person may give to long_term_acceptance
    StalePages,      \* pages may be submitted after their content changed
    MaxDay           \* the clock stops there

ASSUME UsersAssumption ==
    /\ Privileged \subseteq Users /\ Maintainers \subseteq Users
    /\ Leaders \subseteq Users /\ Contacts \subseteq Users
    /\ Reviewers \subseteq Users /\ Approvers \subseteq Users
    /\ ComplianceTeam \subseteq Users
ASSUME FindingsAssumption ==
    /\ IsFiniteSet(Findings) /\ Compliance \subseteq Findings
ASSUME RAsAssumption == IsFiniteSet(RAs)
ASSUME NumbersAssumption ==
    /\ Acceptors \in Nat /\ Limit \in Nat /\ Sla \in Nat
    /\ DefaultDays \in Nat /\ HeadsUp \in Nat /\ MaxDay \in Nat
    /\ EditDays \subseteq Nat
ASSUME FlagsAssumption ==
    /\ Reactivate \subseteq BOOLEAN /\ LongTerm \subseteq BOOLEAN
    /\ StalePages \in BOOLEAN

VARIABLES
    finding,   \* status columns of each finding
    ra,        \* rows of Risk_Acceptance
    today,     \* the date
    offered,   \* findings listed in a request form that is still open
    page,      \* buttons of a risk acceptance page that is still open
    notice     \* notifications of expiration sent by the last step

vars == <<finding, ra, today, offered, page, notice>>

-----------------------------------------------------------------------------
Acceptance == [live       : BOOLEAN,      \* the row exists
               findings   : SUBSET Findings,
               long_term  : BOOLEAN,
               reactivate : BOOLEAN,
               expiration : Nat,
               handled    : BOOLEAN,      \* expiration_date_handled is set
               warned     : BOOLEAN]      \* expiration_date_warned is set

NoAcceptance == [live |-> FALSE, findings |-> {}, long_term |-> FALSE,
                 reactivate |-> FALSE, expiration |-> 0,
                 handled |-> FALSE, warned |-> FALSE]

Live == {r \in RAs : ra[r].live}

\* finding.risk_acceptance_set
Governing(f) == {r \in Live : f \in ra[r].findings}

Init ==
    /\ finding = [f \in Findings |-> NewFinding]
    /\ ra = [r \in RAs |-> NoAcceptance]
    /\ today = 0
    /\ offered = {}
    /\ page = {}
    /\ notice = {}

-----------------------------------------------------------------------------
(***************************************************************************)
(* Who may do what.                                                        *)
(***************************************************************************)

\* is_superuser, role_has_exclusive_permissions or ROLE_ALLOWED_TO_ACCEPT_RISKS
Authority == Privileged \cup Maintainers

\* is_rol_permissions_risk_acceptance
HasRole(u) == u \in Authority \/ Acceptors = 0

\* rule_risk_acceptance_according_to_critical
NeedsAcceptors(u) == Acceptors # 0 /\ u \notin Leaders

\* get_risk_acceptance_pending: the form is given to this user for finding f.
GetsForm(u, f) == HasRole(u) \/ f \in Compliance \/ NeedsAcceptors(u)

\* is_permissions_risk_acceptance
Permitted(u, f) ==
    \/ u \in Privileged
    \/ /\ finding[f].active /\ ~finding[f].is_mitigated
       /\ \/ u \in Reviewers \cup Approvers /\ ~finding[f].risk_accepted
          \/ IF \E r \in Governing(f) : ra[r].long_term
             THEN u \in Contacts
             ELSE \/ u \in Maintainers
                  \/ /\ ~finding[f].risk_accepted
                     /\ \/ u \in Contacts
                        \/ f \in Compliance /\ u \in ComplianceTeam

\* Seeded fault: one assumption too many.
MayAssumeOnceMore(u, f, longTerm) ==
    HasRole(u) \/ longTerm \/ Cardinality(Governing(f)) <= Limit

\* limit_assumption_of_vulnerability under abuse_control
MayAssume(u, f, longTerm) ==
    HasRole(u) \/ longTerm \/ Cardinality(Governing(f)) < Limit

\* rules_for_direct_acceptance
Direct(u, r, f) ==
    ~ra[r].long_term /\ (HasRole(u) \/ f \in Compliance)

-----------------------------------------------------------------------------
(***************************************************************************)
(* Pages.  A form or a page is computed when it is rendered; the handlers  *)
(* do not compute it again when it is submitted.                           *)
(***************************************************************************)

\* add_risk_acceptance_pending and view_edit_risk_acceptance: the choices.
Offerable(f) ==
    /\ finding[f].active /\ ~finding[f].risk_accepted
    /\ finding[f].risk_status \in {"Risk Active", "Risk Expired"}

OpenForm ==
    /\ StalePages
    /\ offered' = {f \in Findings : Offerable(f)}
    /\ notice' = {}
    /\ UNCHANGED <<finding, ra, today, page>>

Offered(f) == Offerable(f) \/ f \in offered

\* Accept, Reject and Remove buttons of view_risk_acceptance.
HasButtons(r, f) == f \in ra[r].findings /\ \E u \in Users : Permitted(u, f)

OpenPage(r) ==
    /\ StalePages
    /\ r \in Live
    /\ page' = {<<r, f>> : f \in {g \in Findings : HasButtons(r, g)}}
    /\ notice' = {}
    /\ UNCHANGED <<finding, ra, today, offered>>

Clickable(r, f) == HasButtons(r, f) \/ <<r, f>> \in page

-----------------------------------------------------------------------------
(***************************************************************************)
(* Requests.                                                               *)
(***************************************************************************)

\* post_risk_acceptance_pending: user u asks for a new acceptance of the
\* findings S.  The form was opened from finding f.
Request(u, r, f, S, longTerm, day) ==
    /\ ~ra[r].live
    /\ GetsForm(u, f)
    /\ S # {} /\ \A g \in S : Offered(g) /\ MayAssume(u, g, longTerm)
    /\ ra' = [ra EXCEPT ![r] =
                [live |-> TRUE, findings |-> S, long_term |-> longTerm,
                 reactivate |-> TRUE,
                 expiration |-> IF longTerm THEN day ELSE today + Sla,
                 handled |-> FALSE, warned |-> FALSE]]
    /\ finding' = [g \in Findings |->
                     IF g \notin S THEN finding[g]
                     ELSE IF u \notin Authority /\ (NeedsAcceptors(u) \/ longTerm)
                          THEN PendingRow(finding[g])
                          ELSE AcceptedRow(finding[g], u)]
    /\ notice' = {}
    /\ UNCHANGED <<today, offered, page>>

\* view_edit_risk_acceptance, "add_findings": the findings S join an
\* acceptance, whether it has expired or not.
AddFindings(u, r, S) ==
    /\ r \in Live
    /\ S # {} /\ \A g \in S : Offered(g) /\ MayAssume(u, g, ra[r].long_term)
    /\ ra' = [ra EXCEPT ![r].findings = @ \cup S]
    /\ finding' = [g \in Findings |-> IF g \in S THEN PendingRow(finding[g])
                                                 ELSE finding[g]]
    /\ notice' = {}
    /\ UNCHANGED <<today, offered, page>>

-----------------------------------------------------------------------------
(***************************************************************************)
(* Decisions on one finding.  accept_or_reject_risk_bulk is a sequence of  *)
(* them, each with its own commit.                                         *)
(***************************************************************************)

\* Accept buttons, and the bulk accept, which reads the findings anew.
Reachable(r, f) == f \in ra[r].findings \/ <<r, f>> \in page

\* Seeded fault: the days are counted backwards.
RenewedExpirationBackwards(r) ==
    IF ~ra[r].long_term /\ ~ra[r].handled THEN today - Sla ELSE ra[r].expiration

\* update_expiration_risk_accepted
RenewedExpiration(r) ==
    IF ~ra[r].long_term /\ ~ra[r].handled
       /\ \A f \in ra[r].findings :
             finding[f].risk_status \notin {"Risk Accepted", "Risk Expired"}
    THEN today + Sla
    ELSE ra[r].expiration

\* risk_accepted_succesfully, once the acceptors of the finding are `by`.
Succeed(r, f, by) ==
    /\ finding' = [finding EXCEPT ![f] = SucceededRow(@, by)]
    /\ ra' = IF finding[f].active
             THEN [ra EXCEPT ![r].expiration = RenewedExpiration(r)]
             ELSE ra
    /\ notice' = {}
    /\ UNCHANGED <<today, offered, page>>

\* rules_for_direct_acceptance: before any look at the status of the request.
AcceptDirectly(u, r, f) ==
    /\ r \in Live /\ Reachable(r, f)
    /\ Direct(u, r, f)
    /\ Succeed(r, f, {u})

\* What risk_acceptante_pending requires when the acceptance is not direct.
Decidable(u, r, f) ==
    /\ r \in Live /\ Reachable(r, f)
    /\ ~Direct(u, r, f)
    /\ finding[f].risk_status \in {"Risk Pending", "Risk Rejected", "Risk Reviewed"}
    /\ finding[f].active /\ ~finding[f].is_mitigated
    /\ Permitted(u, f)

\* risk_acceptante_pending: one more acceptor, maybe the last that is needed.
Confirm(u, r, f) ==
    /\ Decidable(u, r, f) /\ ~ra[r].long_term
    /\ u \notin finding[f].accepted_by
    /\ Cardinality(finding[f].accepted_by) < Acceptors
    /\ LET by == finding[f].accepted_by \cup {u}
       IN  IF Cardinality(by) = Acceptors
           THEN Succeed(r, f, by)
           ELSE /\ finding' = [finding EXCEPT ![f] = ConfirmedRow(@, u)]
                /\ notice' = {}
                /\ UNCHANGED <<ra, today, offered, page>>

\* risk_acceptante_pending, first step of a long term acceptance.
Review(u, r, f) ==
    /\ Decidable(u, r, f) /\ ra[r].long_term
    /\ finding[f].risk_status = "Risk Pending"
    /\ finding' = [finding EXCEPT ![f] = ReviewedRow(@)]
    /\ notice' = {}
    /\ UNCHANGED <<ra, today, offered, page>>

\* Seeded fault: whoever may review a long term acceptance may approve it.
ApproveByReviewer(u, r, f) ==
    /\ Decidable(u, r, f) /\ ra[r].long_term
    /\ finding[f].risk_status = "Risk Reviewed"
    /\ Succeed(r, f, {u})

\* risk_acceptante_pending, second step of a long term acceptance.
Approve(u, r, f) ==
    /\ Decidable(u, r, f) /\ ra[r].long_term
    /\ finding[f].risk_status = "Risk Reviewed"
    /\ u \in Approvers
    /\ Succeed(r, f, {u})

\* risk_acceptance_decline
Decline(r, f) ==
    /\ r \in Live /\ Clickable(r, f)
    /\ finding[f].risk_status \in {"Risk Accepted", "Risk Pending", "Risk Reviewed"}
    /\ finding' = [finding EXCEPT ![f] = DeclinedRow(@)]
    /\ notice' = {}
    /\ UNCHANGED <<ra, today, offered, page>>

\* rp_helper.remove_finding_from_risk_acceptance
RemoveFinding(r, f) ==
    /\ r \in Live /\ Clickable(r, f)
    /\ ra' = [ra EXCEPT ![r].findings = @ \ {f}]
    /\ finding' = [finding EXCEPT ![f] = ReleasedRow(@)]
    /\ notice' = {}
    /\ UNCHANGED <<today, offered, page>>

\* rp_helper.delete.  A page of the acceptance answers 404 from now on.
Delete(r) ==
    /\ r \in Live
    /\ finding' = [f \in Findings |-> IF f \in ra[r].findings
                                      THEN ReleasedRow(finding[f])
                                      ELSE finding[f]]
    /\ ra' = [ra EXCEPT ![r] = NoAcceptance]
    /\ page' = {b \in page : b[1] # r}
    /\ notice' = {}
    /\ UNCHANGED <<today, offered>>

-----------------------------------------------------------------------------
(***************************************************************************)
(* Expiration.                                                             *)
(***************************************************************************)

\* Notification.risk_acceptance_expiration looks for accepted findings in the
\* rows as they are when it is called, and sends nothing if there are none.
Notify(r, kind, rows) ==
    {n \in {<<r, kind>>} :
        \E f \in ra[r].findings :
            ~rows[f].is_mitigated /\ rows[f].risk_status = "Risk Accepted"}

\* expire_now: the rows are saved first, the notification comes last.
Expire(r) ==
    /\ finding' = [f \in Findings |->
                     IF ra[r].reactivate /\ f \in ra[r].findings
                     THEN ExpiredRow(finding[f])
                     ELSE finding[f]]
    /\ ra' = [ra EXCEPT ![r].expiration = today, ![r].handled = TRUE]
    /\ notice' = Notify(r, "expired", finding')
    /\ UNCHANGED <<today, offered, page>>

\* The button of the page.
ExpireNow(r) == r \in Live /\ Expire(r)

\* get_expired_risk_acceptances_to_handle
Due(r) == r \in Live /\ ~ra[r].handled /\ ra[r].expiration <= today

\* expiration_handler, first loop.
ExpireDue(r) == Due(r) /\ Expire(r)

\* get_almost_expired_risk_acceptances_to_handle
AlmostDue(r) ==
    /\ r \in Live /\ ~ra[r].handled /\ ~ra[r].warned
    /\ ra[r].expiration \in today .. today + HeadsUp

\* expiration_handler, second loop.  Nothing is due once the first has run.
Warn(r) ==
    /\ HeadsUp > 0
    /\ \A s \in RAs : ~Due(s)
    /\ AlmostDue(r)
    /\ notice' = Notify(r, "heads-up", finding)
    /\ ra' = [ra EXCEPT ![r].warned = TRUE]
    /\ UNCHANGED <<finding, today, offered, page>>

\* ra_helper.reinstate on the row `row` of r.
Reinstate(r, row) ==
    /\ finding' = [f \in Findings |->
                     IF row.handled /\ f \in row.findings
                     THEN ReinstatedRow(finding[f])
                     ELSE finding[f]]
    /\ ra' = [ra EXCEPT ![r] =
                [row EXCEPT !.expiration = IF row.handled THEN today + DefaultDays
                                                          ELSE @,
                            !.handled = FALSE,
                            !.warned = FALSE]]
    /\ notice' = {}
    /\ UNCHANGED <<today, offered, page>>

\* The button of the page.
ReinstateNow(r) == r \in Live /\ Reinstate(r, ra[r])

\* view_edit_risk_acceptance, "decision": a new date reinstates.
Edit(r, day, reactivate) ==
    LET row == [ra[r] EXCEPT !.expiration = day, !.reactivate = reactivate]
    IN  /\ r \in Live
        /\ IF day # ra[r].expiration
           THEN Reinstate(r, row)
           ELSE /\ ra' = [ra EXCEPT ![r] = row]
                /\ notice' = {}
                /\ UNCHANGED <<finding, today, offered, page>>

-----------------------------------------------------------------------------
(***************************************************************************)
(* Findings on their own.                                                  *)
(***************************************************************************)

\* Seeded fault: the finding leaves one of its acceptances.
LeaveFirst(f) ==
    LET first == CHOOSE r \in RAs : Governing(f) # {} => r \in Governing(f)
    IN  [ra EXCEPT ![first].findings = @ \ {f}]

\* ra_helper.remove_from_any_risk_acceptance
LeaveAll(f) == [r \in RAs |-> [ra[r] EXCEPT !.findings = @ \ {f}]]

\* views.close_finding
Close(f) ==
    /\ finding' = [finding EXCEPT ![f] = ClosedRow(@)]
    /\ ra' = IF finding[f].risk_accepted THEN LeaveAll(f) ELSE ra
    /\ notice' = {}
    /\ UNCHANGED <<today, offered, page>>

\* views.reopen_finding
Reopen(f) ==
    /\ finding' = [finding EXCEPT ![f] = ReopenedRow(@)]
    /\ ra' = IF finding[f].risk_accepted THEN LeaveAll(f) ELSE ra
    /\ notice' = {}
    /\ UNCHANGED <<today, offered, page>>

\* A reimport whose report no longer has the finding, or has it again.
Reimport(f, reported) ==
    /\ finding' = [finding EXCEPT ![f] = IF reported THEN ReportedRow(@)
                                                     ELSE MitigatedRow(@)]
    /\ notice' = {}
    /\ UNCHANGED <<ra, today, offered, page>>

Tick ==
    /\ today < MaxDay
    /\ today' = today + 1
    /\ notice' = {}
    /\ UNCHANGED <<finding, ra, offered, page>>

-----------------------------------------------------------------------------
Next ==
    \/ OpenForm
    \/ \E r \in RAs : \/ OpenPage(r) \/ Delete(r)
                      \/ ExpireNow(r) \/ ExpireDue(r) \/ Warn(r)
                      \/ ReinstateNow(r)
                      \/ \E day \in EditDays, b \in Reactivate : Edit(r, day, b)
    \/ \E u \in Users, r \in RAs, S \in SUBSET Findings :
          \/ \E f \in Findings, lt \in LongTerm, day \in EditDays :
                Request(u, r, f, S, lt, day)
          \/ AddFindings(u, r, S)
    \/ \E u \in Users, r \in RAs, f \in Findings :
          \/ AcceptDirectly(u, r, f) \/ Confirm(u, r, f)
          \/ Review(u, r, f) \/ Approve(u, r, f)
    \/ \E r \in RAs, f \in Findings : Decline(r, f) \/ RemoveFinding(r, f)
    \/ \E f \in Findings : \/ Close(f) \/ Reopen(f)
                           \/ \E b \in BOOLEAN : Reimport(f, b)
    \/ Tick

Spec == Init /\ [][Next]_vars

\* The scheduler starts expiration_handler every three hours, and its first
\* loop goes through every acceptance that is due.
FairSpec == Spec /\ \A r \in RAs : WF_vars(ExpireDue(r))

-----------------------------------------------------------------------------
(***************************************************************************)
(* Properties.                                                             *)
(***************************************************************************)

\* Every variable has the shape of the columns and pages it stands for.
TypeOK ==
    /\ finding \in [Findings -> Row]
    /\ ra \in [RAs -> Acceptance]
    /\ today \in Nat
    /\ offered \subseteq Findings
    /\ page \subseteq RAs \X Findings
    /\ notice \subseteq RAs \X {"expired", "heads-up"}

\* Whatever the order of decisions, expirations, closings and reimports, a
\* finding is open exactly when it is neither mitigated nor accepted: none is
\* listed as open with its risk accepted, and none disappears from the list of
\* open findings without being mitigated or accepted.
StatusCoherent == \A f \in Findings : Coherent(finding[f])

\* With pages submitted as they were rendered, an accepted finding belongs to
\* an existing risk acceptance: removal, deletion, closing and reopening take
\* the flag away together with the last acceptance.
AcceptedIsGoverned ==
    \A f \in Findings : finding[f].risk_accepted => Governing(f) # {}

\* A finding that lost its acceptance when it was closed or reopened keeps the
\* status "Risk Accepted", and then belongs to no acceptance, so that no later
\* reinstatement finds it there.
AbandonedIsFree ==
    \A f \in Findings :
        finding[f].risk_status = "Risk Accepted" /\ ~finding[f].risk_accepted
            => \A r \in RAs : f \notin ra[r].findings

\* Requests, additions and reinstatements of people without a privileged role
\* never put a finding in more than Limit acceptances that are not long term,
\* though a long term acceptance may itself be extended without limit.
LimitHolds ==
    (Authority = {} /\ Acceptors # 0) =>
        \A f \in Findings :
            Cardinality({r \in Governing(f) : ~ra[r].long_term}) <= Limit

\* A finding becomes "Risk Accepted" only by someone who may decide alone, by
\* an approver after a review, or when the number of acceptors is complete.
Granted(f) ==
    /\ finding'[f].risk_accepted /\ finding'[f].risk_status = "Risk Accepted"
    /\ ~(finding[f].risk_accepted /\ finding[f].risk_status = "Risk Accepted")

Alone(u, f) ==
    \/ HasRole(u) \/ u \in Leaders \/ f \in Compliance
    \/ u \in Approvers /\ finding[f].risk_status = "Risk Reviewed"

GrantNeedsAuthority ==
    [][\A f \in Findings : Granted(f) =>
          \/ \E u \in Users : finding'[f].accepted_by = {u} /\ Alone(u, f)
          \/ Cardinality(finding'[f].accepted_by) = Acceptors]_vars

\* Where people find each finding, and the acceptances it is in.
Where(x) ==
    IF x.is_mitigated THEN "closed"
    ELSE IF x.risk_accepted THEN "accepted"
    ELSE "open"

Listed == [f \in Findings |-> Where(finding[f])]
Covered == [f \in Findings |-> Governing(f)]

\* The flow implements the register of open, accepted and closed findings that
\* people read: each request, decision, expiration and reimport is one step of
\* the register or none, and an accepted finding always has an acceptance.
Register == INSTANCE RiskRegister WITH state <- Listed, cover <- Covered

RegisterSpec == Register!Spec

\* Once the day of an acceptance has come, each finding in it is open again or
\* mitigated at some moment, unless the acceptance lets go of it, is deleted or
\* is given a new day: the job reaches every acceptance, whatever people do.
ExpiryReopens ==
    \A r \in RAs, f \in Findings :
        (Due(r) /\ ra[r].reactivate /\ f \in ra[r].findings)
            ~> \/ finding[f].active \/ finding[f].is_mitigated
               \/ f \notin ra[r].findings \/ ~ra[r].reactivate
               \/ ra[r].expiration > today

-----------------------------------------------------------------------------
(***************************************************************************)
(* What the documentation says of the flow and the code does not do.  Each *)
(* of these has a behaviour of Spec that violates it.                       *)
(***************************************************************************)

\* The docstring of expiration_handler announces a notification upon
\* expiration.  By the time expire_now asks for it the findings it is about
\* are no longer "Risk Accepted".
ExpiryIsNotified ==
    [][\A r \in RAs :
          /\ ~ra[r].handled /\ ra'[r].handled
          /\ \E f \in ra[r].findings : /\ finding[f].risk_status = "Risk Accepted"
                                       /\ ~finding[f].is_mitigated
          => <<r, "expired">> \in notice']_vars

\* expiration_date_warned is documented as the date at which the notice about
\* the expiration was sent.  The job sets it when it found nothing to send.
WarnedIsNoticed ==
    [][\A r \in RAs : ~ra[r].warned /\ ra'[r].warned
                          => <<r, "heads-up">> \in notice']_vars

\* The documentation says that once an acceptance expires its findings are
\* active again.  A finding accepted under an expired acceptance, or found
\* again after it was mitigated at the expiration, stays accepted under
\* acceptances that the job will never look at again.
ExpiredIsReactivated ==
    \A f \in Findings :
        finding[f].risk_accepted /\ ~finding[f].is_mitigated /\ Governing(f) # {}
            => \E r \in Governing(f) : ~ra[r].handled \/ ~ra[r].reactivate

\* risk_acceptante_pending asserts that a request never has as many acceptors
\* as it needs and still waits for one.  The names left by an earlier
\* acceptance make it so, and the request can no longer be accepted.
AcceptorsNeverOverrun ==
    \A u \in Users, r \in RAs, f \in Findings :
        Decidable(u, r, f) /\ ~ra[r].long_term /\ u \notin finding[f].accepted_by
            => Cardinality(finding[f].accepted_by) < Acceptors

=============================================================================
