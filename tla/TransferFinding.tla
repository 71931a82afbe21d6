-------------------------- MODULE TransferFinding --------------------------
(***************************************************************************)
(* Findings handed over to another product.  A transfer relates findings   *)
(* to copies of them in the engagement of the destination: once it is      *)
(* accepted the original is hidden and the copy is what people work on.    *)
(* Closing the copy, accepting its risk, or the expiration of the          *)
(* acceptance of its risk changes the original, too                        *)
(* (close_or_reactive_related_finding).                                    *)
(*                                                                         *)
(* Two jobs run at the same time: one expires transfers, the other         *)
(* expires the acceptances of the destination.  Both read what is due at   *)
(* their start and save finding by finding.                                *)
(***************************************************************************)
EXTENDS Functions

CONSTANTS
    Transfers,     \* identities of TransferFinding rows
    Findings,      \* the originals
    Copies,        \* findings of the destination
    CopyOf,        \* the one that search_finding_related finds or would create
    Acceptances,   \* rows of Risk_Acceptance of the destination
    EditTo,        \* what an edit of the dates makes of a transfer
    Failing        \* transfers whose notification raises an error

ASSUME CopyOfAssumption == CopyOf \in [Findings -> Copies]
ASSUME EditToAssumption == EditTo \subseteq {"undated", "running", "due"}
ASSUME FailingAssumption == Failing \subseteq Transfers

VARIABLES
    transfer,     \* life of each transfer
    link,         \* rows of TransferFindingFinding
    finding,      \* status columns of the originals
    copy,         \* status columns of the copies
    acceptance,   \* status and findings of each acceptance
    job,          \* transfer_findings.helper.expiration_handler
    raJob         \* risk_acceptance.helper.expiration_handler

vars == <<transfer, link, finding, copy, acceptance, job, raJob>>

-----------------------------------------------------------------------------
\* due: the date has come and expiration_date_handled is not set.
TransferStatus == {"new", "undated", "running", "due", "handled", "deleted"}
Live(t) == transfer[t] \notin {"new", "deleted"}

\* No row, a row without finding_related, or the related finding.
Link == {"none", "asked"} \cup Copies
ASSUME LinkAssumption ==
    /\ {"none", "asked", "no transfer"} \cap (Copies \cup Transfers) = {}
    /\ "no acceptance" \notin Acceptances

Finding ==
    [active : BOOLEAN, is_mitigated : BOOLEAN,
     risk_status : {"Risk Active", "Transfer Pending", "Transfer Accepted",
                    "Transfer Rejected", "Transfer Expired"}]

Copy ==
    [exists : BOOLEAN, active : BOOLEAN, is_mitigated : BOOLEAN,
     risk_accepted : BOOLEAN,
     risk_status : {"Risk Active", "Risk Accepted", "Risk Expired"}]

CopyRow(active, mitigated, accepted, status) ==
    [exists |-> TRUE, active |-> active, is_mitigated |-> mitigated,
     risk_accepted |-> accepted, risk_status |-> status]

NewCopy == CopyRow(TRUE, FALSE, FALSE, "Risk Active")

AcceptanceStatus == {"running", "due", "handled"}

Idle == [left |-> {}, at |-> "no transfer", todo |-> {}]
RaIdle == [left |-> <<>>, at |-> "no acceptance"]

Init ==
    /\ transfer = [t \in Transfers |-> "new"]
    /\ link = [t \in Transfers |-> [f \in Findings |-> "none"]]
    /\ finding = [f \in Findings |-> [active |-> TRUE, is_mitigated |-> FALSE,
                                      risk_status |-> "Risk Active"]]
    /\ copy = [c \in Copies |-> [NewCopy EXCEPT !.exists = FALSE]]
    /\ acceptance = [a \in Acceptances |-> [status |-> "running", findings |-> {}]]
    /\ job = Idle
    /\ raJob = RaIdle

-----------------------------------------------------------------------------
(***************************************************************************)
(* What the handlers of a transfer save to an original.                    *)
(***************************************************************************)
Row(active, mitigated, status) ==
    [active |-> active, is_mitigated |-> mitigated, risk_status |-> status]

\* Seeded fault: whatever comes back is active.
GivenBackAlways(r, status) == Row(TRUE, r.is_mitigated, status)

\* Seeded fault: the status changes, and what is hidden stays so.
GivenBackAsItWas(r, status) == Row(r.active, r.is_mitigated, status)

\* Given back to the origin: active, unless it has been mitigated.
GivenBack(r, status) == Row(~r.is_mitigated, r.is_mitigated, status)

PendingRow(r) == Row(r.active, r.is_mitigated, "Transfer Pending")
AcceptedRow(r) == Row(FALSE, r.is_mitigated, "Transfer Accepted")

\* transfer_finding.transfer_findings
Linked(t) == {f \in Findings : link[t][f] # "none"}

-----------------------------------------------------------------------------
(***************************************************************************)
(* Pages and API of transfers.                                             *)
(***************************************************************************)

\* add_transfer_finding: the form offers findings by their status only.
Request(t, S) ==
    /\ transfer[t] = "new" /\ S # {}
    /\ \A f \in S : finding[f].risk_status \in {"Risk Active", "Transfer Rejected"}
    /\ transfer' = [transfer EXCEPT ![t] = "running"]
    /\ link' = [link EXCEPT ![t] =
                   [f \in Findings |-> IF f \in S THEN "asked" ELSE "none"]]
    /\ finding' = [f \in Findings |-> IF f \in S THEN PendingRow(finding[f])
                                      ELSE finding[f]]
    /\ UNCHANGED <<copy, acceptance, job, raJob>>

\* The API creates the transfer, with or without a date, ...
Create(t) ==
    /\ transfer[t] = "new"
    /\ transfer' \in {[transfer EXCEPT ![t] = s] : s \in {"undated", "running"}}
    /\ UNCHANGED <<link, finding, copy, acceptance, job, raJob>>

\* ... and then its findings, whose status it asks for and leaves alone.
CreateLink(t, f) ==
    /\ Live(t)
    /\ finding[f].risk_status = "Risk Active"
    /\ \A u \in Transfers : link[u][f] = "none"
    /\ link' = [link EXCEPT ![t][f] = "asked"]
    /\ UNCHANGED <<transfer, finding, copy, acceptance, job, raJob>>

\* change_status with "Transfer Accepted": the copy is the finding of the
\* destination with the same title, in whatever state it is, or a new one.
Accept(t, f) ==
    /\ f \in Linked(t)
    /\ finding[f].risk_status # "Transfer Accepted"
    /\ finding' = [finding EXCEPT ![f] = AcceptedRow(@)]
    /\ link' = [link EXCEPT ![t][f] = CopyOf[f]]
    /\ copy' = IF copy[CopyOf[f]].exists THEN copy
               ELSE [copy EXCEPT ![CopyOf[f]] = NewCopy]
    /\ UNCHANGED <<transfer, acceptance, job, raJob>>

\* change_status with "Transfer Rejected", whatever was decided before.
Reject(t, f) ==
    /\ f \in Linked(t)
    /\ finding' = [finding EXCEPT ![f] = GivenBack(@, "Transfer Rejected")]
    /\ UNCHANGED <<transfer, link, copy, acceptance, job, raJob>>

\* TransferFindingFindingsViewSet.destroy
DeleteLink(t, f) ==
    /\ f \in Linked(t)
    /\ finding' = [finding EXCEPT ![f] = GivenBack(@, "Risk Active")]
    /\ link' = [link EXCEPT ![t][f] = "none"]
    /\ UNCHANGED <<transfer, copy, acceptance, job, raJob>>

\* delete_transfer_finding_finding, then the row and, with it, its links.
Delete(t) ==
    /\ Live(t)
    /\ finding' = [f \in Findings |->
                      IF f \in Linked(t) THEN GivenBack(finding[f], "Risk Active")
                      ELSE finding[f]]
    /\ link' = [link EXCEPT ![t] = [f \in Findings |-> "none"]]
    /\ transfer' = [transfer EXCEPT ![t] = "deleted"]
    /\ UNCHANGED <<copy, acceptance, job, raJob>>

\* UpdateTransferFindingForm: every column may be typed, the dates included.
Edit(t) ==
    /\ Live(t)
    /\ transfer' \in {[transfer EXCEPT ![t] = s] : s \in EditTo}
    /\ UNCHANGED <<link, finding, copy, acceptance, job, raJob>>

DayComes(t) ==
    /\ transfer[t] = "running"
    /\ transfer' = [transfer EXCEPT ![t] = "due"]
    /\ UNCHANGED <<link, finding, copy, acceptance, job, raJob>>

-----------------------------------------------------------------------------
(***************************************************************************)
(* The job that expires transfers.  It saves the rows it has read at its   *)
(* start: one that was edited is overwritten, one that was deleted is      *)
(* there again, without findings.                                          *)
(***************************************************************************)
JobStart ==
    /\ job = Idle
    /\ \E t \in Transfers : transfer[t] = "due"
    /\ job' = [Idle EXCEPT !.left = {t \in Transfers : transfer[t] = "due"}]
    /\ UNCHANGED <<transfer, link, finding, copy, acceptance, raJob>>

\* Seeded fault: the transfer is handled when all its findings are.
TakeUnhandled(t) ==
    /\ t \in job.left /\ job.at = "no transfer"
    /\ transfer' = IF Linked(t) = {} THEN [transfer EXCEPT ![t] = "handled"]
                   ELSE transfer
    /\ job' = [left |-> job.left \ {t}, at |-> t, todo |-> Linked(t)]
    /\ UNCHANGED <<link, finding, copy, acceptance, raJob>>

\* expire_now: the transfer is handled before its findings are.
Take(t) ==
    /\ t \in job.left /\ job.at = "no transfer"
    /\ transfer' = [transfer EXCEPT ![t] = "handled"]
    /\ job' = [left |-> job.left \ {t}, at |-> t, todo |-> Linked(t)]
    /\ UNCHANGED <<link, finding, copy, acceptance, raJob>>

\* An error of the notification ends the whole job.
ExpireFinding(f) ==
    /\ f \in job.todo
    /\ finding' = [finding EXCEPT ![f] = GivenBack(@, "Transfer Expired")]
    /\ job' = IF job.at \in Failing THEN Idle ELSE [job EXCEPT !.todo = @ \ {f}]
    /\ UNCHANGED <<transfer, link, copy, acceptance, raJob>>

Taken ==
    /\ job.at # "no transfer" /\ job.todo = {}
    /\ job' = [job EXCEPT !.at = "no transfer"]
    /\ UNCHANGED <<transfer, link, finding, copy, acceptance, raJob>>

JobStep == Taken \/ (\E t \in Transfers : Take(t)) \/ \E f \in Findings : ExpireFinding(f)

-----------------------------------------------------------------------------
(***************************************************************************)
(* The copies: what becomes of them, and of their originals                *)
(* (close_or_reactive_related_finding).                                    *)
(***************************************************************************)

\* Originals that follow copy c: an event skips those that are mitigated.
Followers(c) ==
    {f \in Findings : /\ ~finding[f].is_mitigated
                      /\ \E t \in Transfers : link[t][f] = c}

Follow(c, Told(_)) ==
    finding' = [f \in Findings |-> IF f \in Followers(c) THEN Told(finding[f])
                                   ELSE finding[f]]

\* The events "close", "accepted" and "reactive".
ToldClosed(r) == Row(TRUE, FALSE, "Risk Active")
ToldAccepted(r) == Row(FALSE, FALSE, r.risk_status)
ToldReactive(r) == Row(TRUE, FALSE, r.risk_status)

\* risk_accepted_succesfully skips what is inactive.
AcceptCopy(a, c) ==
    /\ copy[c].exists /\ copy[c].active
    /\ copy' = [copy EXCEPT ![c] =
                   CopyRow(FALSE, copy[c].is_mitigated, TRUE, "Risk Accepted")]
    /\ acceptance' = [acceptance EXCEPT ![a].findings = @ \cup {c}]
    /\ Follow(c, ToldAccepted)
    /\ UNCHANGED <<transfer, link, job, raJob>>

\* risk_unaccept takes a copy that is risk accepted out of every acceptance.
Unaccept(c, active) ==
    /\ copy' = [copy EXCEPT ![c] =
                   CopyRow(active, ~active, FALSE, copy[c].risk_status)]
    /\ acceptance' = [a \in Acceptances |->
           IF copy[c].risk_accepted
           THEN [acceptance[a] EXCEPT !.findings = @ \ {c}] ELSE acceptance[a]]

\* close_finding
CloseCopy(c) ==
    /\ copy[c].exists
    /\ Unaccept(c, FALSE)
    /\ Follow(c, ToldClosed)
    /\ UNCHANGED <<transfer, link, job, raJob>>

\* FindingViewSet.close and bulk_close leave the acceptances alone.
CloseCopyByApi(c) ==
    /\ copy[c].exists
    /\ copy' = [copy EXCEPT ![c] =
                   CopyRow(FALSE, TRUE, copy[c].risk_accepted, copy[c].risk_status)]
    /\ Follow(c, ToldClosed)
    /\ UNCHANGED <<transfer, link, acceptance, job, raJob>>

\* reopen_finding tells the originals nothing.
ReopenCopy(c) ==
    /\ copy[c].exists /\ ~copy[c].active
    /\ Unaccept(c, TRUE)
    /\ UNCHANGED <<transfer, link, finding, job, raJob>>

\* reinstate: neither does it.
Reinstate(a) ==
    /\ acceptance[a].status = "handled"
    /\ acceptance' = [acceptance EXCEPT ![a].status = "running"]
    /\ copy' = [c \in Copies |->
                   IF c \in acceptance[a].findings /\ copy[c].active
                   THEN CopyRow(FALSE, copy[c].is_mitigated, TRUE,
                                copy[c].risk_status)
                   ELSE copy[c]]
    /\ UNCHANGED <<transfer, link, finding, job, raJob>>

\* view_edit_risk_acceptance with a later date.
Extend(a) ==
    /\ acceptance[a].status = "due"
    /\ acceptance' = [acceptance EXCEPT ![a].status = "running"]
    /\ UNCHANGED <<transfer, link, finding, copy, job, raJob>>

AcceptanceDayComes(a) ==
    /\ acceptance[a].status = "running"
    /\ acceptance' = [acceptance EXCEPT ![a].status = "due"]
    /\ UNCHANGED <<transfer, link, finding, copy, job, raJob>>

-----------------------------------------------------------------------------
(***************************************************************************)
(* The job that expires acceptances.  prefetch_for_expiration reads their  *)
(* findings at the start, all of them, and expire_now saves these rows.    *)
(***************************************************************************)
RaJobStart ==
    /\ raJob = RaIdle
    /\ \E a \in Acceptances : acceptance[a].status = "due"
    /\ raJob' = [RaIdle EXCEPT !.left =
           [a \in {b \in Acceptances : acceptance[b].status = "due"} |->
               Restrict(copy, acceptance[a].findings)]]
    /\ UNCHANGED <<transfer, link, finding, copy, acceptance, job>>

RaTake(a) ==
    /\ a \in DOMAIN raJob.left /\ raJob.at = "no acceptance"
    /\ raJob' = [raJob EXCEPT !.at = a]
    /\ UNCHANGED <<transfer, link, finding, copy, acceptance, job>>

Without(f, x) == Restrict(f, DOMAIN f \ {x})

ExpiredCopy(r) ==
    IF r.is_mitigated
    THEN CopyRow(r.active, TRUE, r.risk_accepted, "Risk Expired")
    ELSE CopyRow(TRUE, FALSE, FALSE, "Risk Active")

\* Seeded fault: the originals are told before the copy is saved.
ExpireCopyTellingFirst(c) ==
    /\ raJob.at # "no acceptance"
    /\ c \in DOMAIN raJob.left[raJob.at]
    /\ LET r == raJob.left[raJob.at][c]
           done == [left |-> [raJob.left EXCEPT ![raJob.at] = Without(@, c)],
                   at |-> raJob.at]
       IN  IF r.active /\ r.risk_status = "Risk Active"
           THEN raJob' = done /\ UNCHANGED <<finding, copy>>
           ELSE /\ IF Followers(c) = {}
                   THEN copy' = [copy EXCEPT ![c] = ExpiredCopy(r)] /\ raJob' = done
                   ELSE raJob' = RaIdle /\ UNCHANGED copy
                /\ Follow(c, ToldReactive)
    /\ UNCHANGED <<transfer, link, acceptance, job>>

\* The next finding of the acceptance is c.  Its originals are saved, too, and
\* then the notification about them is called with arguments that it does not
\* take (helper.py:345): the TypeError ends the job.
ExpireCopy(c) ==
    /\ raJob.at # "no acceptance"
    /\ c \in DOMAIN raJob.left[raJob.at]
    /\ LET r == raJob.left[raJob.at][c]
           done == [left |-> [raJob.left EXCEPT ![raJob.at] = Without(@, c)],
                   at |-> raJob.at]
       IN  IF r.active /\ r.risk_status = "Risk Active"
           THEN raJob' = done /\ UNCHANGED <<finding, copy>>
           ELSE /\ copy' = [copy EXCEPT ![c] = ExpiredCopy(r)]
                /\ Follow(c, ToldReactive)
                /\ raJob' = IF Followers(c) = {} THEN done ELSE RaIdle
    /\ UNCHANGED <<transfer, link, acceptance, job>>

RaTaken ==
    /\ raJob.at # "no acceptance"
    /\ DOMAIN raJob.left[raJob.at] = {}
    /\ acceptance' = [acceptance EXCEPT ![raJob.at].status = "handled"]
    /\ raJob' = [left |-> Without(raJob.left, raJob.at), at |-> "no acceptance"]
    /\ UNCHANGED <<transfer, link, finding, copy, job>>

RaJobStep == RaTaken \/ (\E a \in Acceptances : RaTake(a)) \/ \E c \in Copies : ExpireCopy(c)

-----------------------------------------------------------------------------
(***************************************************************************)
(* What else happens to the originals.                                     *)
(***************************************************************************)
Become(f, row) ==
    /\ finding' = [finding EXCEPT ![f] = row]
    /\ UNCHANGED <<transfer, link, copy, acceptance, job, raJob>>

\* mitigate_finding, close_finding
Mitigate(f) ==
    /\ ~finding[f].is_mitigated
    /\ Become(f, Row(FALSE, TRUE, finding[f].risk_status))

\* A report finds it again: what was handed over stays hidden.
Report(f) ==
    /\ finding[f].is_mitigated
    /\ LET status == finding[f].risk_status
       IN  Become(f, Row(status # "Transfer Accepted", FALSE, status))

\* reopen_finding
Reopen(f) ==
    /\ ~finding[f].active
    /\ Become(f, Row(TRUE, FALSE, finding[f].risk_status))

-----------------------------------------------------------------------------
TransferStep(t) ==
    \/ Create(t) \/ Delete(t) \/ Edit(t) \/ DayComes(t)
    \/ \E S \in SUBSET Findings : Request(t, S)
    \/ \E f \in Findings :
          CreateLink(t, f) \/ Accept(t, f) \/ Reject(t, f) \/ DeleteLink(t, f)

\* What people do to the copies and their acceptances.
CopyStep ==
    \/ \E c \in Copies : CloseCopy(c) \/ CloseCopyByApi(c) \/ ReopenCopy(c)
    \/ \E a \in Acceptances : Reinstate(a) \/ \E c \in Copies : AcceptCopy(a, c)

Next ==
    \/ \E t \in Transfers : TransferStep(t)
    \/ JobStart \/ JobStep
    \/ CopyStep
    \/ \E a \in Acceptances : Extend(a) \/ AcceptanceDayComes(a)
    \/ RaJobStart \/ RaJobStep
    \/ \E f \in Findings : Mitigate(f) \/ Report(f) \/ Reopen(f)

Spec == Init /\ [][Next]_vars

\* Celery beat starts both jobs again and again, and a job that runs goes on.
FairSpec ==
    /\ Spec
    /\ WF_vars(JobStart) /\ WF_vars(JobStep)
    /\ WF_vars(RaJobStart) /\ WF_vars(RaJobStep)

-----------------------------------------------------------------------------
\* Rows of copies that the job has read, and its list of acceptances with them.
Rows == UNION {[C -> Copy] : C \in SUBSET Copies}
Lists == UNION {[A -> Rows] : A \in SUBSET Acceptances}

TypeOK ==
    /\ transfer \in [Transfers -> TransferStatus]
    /\ link \in [Transfers -> [Findings -> Link]]
    /\ finding \in [Findings -> Finding]
    /\ copy \in [Copies -> Copy]
    /\ acceptance \in [Acceptances -> [status : AcceptanceStatus,
                                       findings : SUBSET Copies]]
    /\ job \in [left : SUBSET Transfers, at : Transfers \cup {"no transfer"},
                todo : SUBSET Findings]
    /\ raJob \in [left : Lists, at : Acceptances \cup {"no acceptance"}]
    /\ raJob.at \in DOMAIN raJob.left \cup {"no acceptance"}

\* An original that was mitigated is not shown as active again by what is
\* decided about its transfer, by the expiration of it, or by what happens to
\* its copy, in any order: both rejections and the job look at is_mitigated,
\* and events skip what is mitigated.
MitigatedStaysOut ==
    \A f \in Findings : finding[f].is_mitigated => ~finding[f].active

\* "When the Transfer-Finding expires, the findings will be reactivated"
\* (TransferFinding.expiration_date): what is in a transfer whose day has come
\* is active or mitigated at some moment, unless the transfer lets go of it or
\* gets another date.  A transfer whose notification fails is excepted when it
\* has other findings: after the first of them the job ends.
ExpiryGivesBack ==
    \A t \in Transfers, f \in Findings :
        (transfer[t] = "due" /\ f \in Linked(t))
            ~> \/ finding[f].active \/ finding[f].is_mitigated
               \/ f \notin Linked(t) \/ transfer[t] \notin {"due", "handled"}
               \/ t \in Failing /\ Linked(t) # {f}

\* No transfer stays due, not even one whose expiration fails each time: it is
\* handled first.
TransferEnds ==
    \A t \in Transfers : transfer[t] = "due" ~> transfer[t] # "due"

\* An acceptance that is due holds a copy that was closed, with an original
\* that was not: the job fails at it each time (see ExpireCopy).
Blocked ==
    \E a \in Acceptances : /\ acceptance[a].status = "due"
                           /\ \E c \in acceptance[a].findings :
                                  copy[c].is_mitigated /\ Followers(c) # {}

\* Once people leave the copies alone, every acceptance that is due is handled
\* though each copy with an original makes the job fail: the next run starts
\* behind it, because the copy had been saved.
AcceptanceEndsUnlessBlocked ==
    (<>[][~CopyStep]_vars) =>
        \A a \in Acceptances :
            acceptance[a].status = "due"
                ~> acceptance[a].status # "due" \/ Blocked

\* Risk_Acceptance.expiration_date_handled: "When the risk acceptance
\* expiration was handled (manually or by the daily job)": what is due is
\* handled.  A copy that was closed by the API stays in its acceptance, and
\* the job never gets behind it.
AcceptanceEnds ==
    (<>[][~CopyStep]_vars) =>
        \A a \in Acceptances :
            acceptance[a].status = "due" ~> acceptance[a].status # "due"
=============================================================================
