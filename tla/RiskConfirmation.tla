-------------------------- MODULE RiskConfirmation --------------------------
(***************************************************************************)
(* Decisions on the findings of one pending request that are taken at the  *)
(* same time: by the buttons of its page, by the button for all of its     *)
(* findings, and by the links in the mail.  A decision reads the rows of    *)
(* its findings, then goes through them; each save writes the whole row as *)
(* it was read, and the last confirmation is saved twice.                  *)
(*                                                                          *)
(* The acceptance is not long term, and the people who decide are contacts *)
(* of the product who may not accept alone.  RiskAcceptance has the other  *)
(* people, with each decision in one step.                                  *)
(***************************************************************************)
EXTENDS FindingStatus, PermissionKeys

CONSTANTS
    Findings,    \* findings of the request
    Decisions,   \* decisions that may be taken at the same time
    Acceptors,   \* number_acceptors of the rule
    Nobody       \* no user

ASSUME AcceptorsAssumption == Acceptors \in Nat \ {0}
ASSUME PeopleAssumption ==
    /\ Recipients \subseteq Users /\ IsFiniteSet(Users) /\ Nobody \notin Users
ASSUME RequestAssumption == IsFiniteSet(Findings)

VARIABLES
    finding,    \* status columns of each finding
    enrolled,   \* accepted_findings
    decision,   \* each decision that is being served
    orphaned    \* findings whose second save was cut off (history)

vars == <<finding, enrolled, decision, orphaned, keyVars, acts>>

-----------------------------------------------------------------------------
Page == 0     \* no token: the user is the one of the session

\* rows: findings still to be dealt with, as read.  saved: the one that waits
\* for its second save.  open: findings that could be confirmed when they were
\* read.  stale: findings that others saved since (history).
NoDecision == [step |-> "idle", what |-> "accept", who |-> Nobody,
               token |-> Page, rows |-> Empty, saved |-> {},
               open |-> {}, stale |-> {}]

Active(d) == decision[d].step # "idle"

Init ==
    /\ finding = [f \in Findings |-> PendingRow(NewFinding)]
    /\ enrolled = Findings
    /\ decision = [d \in Decisions |-> NoDecision]
    /\ orphaned = {}
    /\ KeysInit

\* What risk_acceptante_pending requires of the row it was given.
Confirmable(x) ==
    /\ x.risk_status \in {"Risk Pending", "Risk Rejected", "Risk Reviewed"}
    /\ x.active /\ ~x.is_mitigated

-----------------------------------------------------------------------------
(***************************************************************************)
(* The start of a decision reads its findings.                             *)
(***************************************************************************)

Decide(d, u, what, token, S) ==
    /\ acts < MaxActs /\ acts' = acts + 1
    /\ decision[d].step # "running"
    /\ decision' = [decision EXCEPT ![d] =
          [NoDecision EXCEPT !.step = "running", !.what = what, !.who = u,
                             !.token = token,
                             !.rows = [f \in S |-> finding[f]],
                             !.open = {f \in S : Confirmable(finding[f])}]]
    /\ UNCHANGED <<finding, enrolled, orphaned, keyVars>>

\* The buttons of view_edit_risk_acceptance, for one finding.
Click(d, u, what, f) ==
    /\ f \in enrolled /\ finding[f].active
    /\ Decide(d, u, what, Page, {f})

\* accept_risk_acceptance, for all.
ClickAll(d, u) == Decide(d, u, "accept", Page, enrolled)

\* accept_bulk, from a mail.
Answer(d, what, i) ==
    /\ i \in inbox /\ enrolled # {}
    /\ Decide(d, key[i].user, what, i, enrolled)

-----------------------------------------------------------------------------
(***************************************************************************)
(* Its steps.                                                              *)
(***************************************************************************)

\* Decision d saves the row x of finding f, and goes on as `new`.
SaveRow(d, f, x, new) ==
    /\ finding' = [finding EXCEPT ![f] = Save(@, x)]
    /\ decision' = [e \in Decisions |->
                      IF e = d THEN new
                      ELSE IF Active(e) THEN [decision[e] EXCEPT !.stale = @ \cup {f}]
                      ELSE decision[e]]

Ready(d, f, what) ==
    /\ decision[d].step = "running" /\ decision[d].what = what
    /\ f \in DOMAIN decision[d].rows /\ decision[d].saved = {}

\* get_user_with_permission_key asks for each finding anew.
KeyIsDead(d) == decision[d].token # Page /\ ~key[decision[d].token].status

Done(d, f) == [decision[d] EXCEPT !.rows = Less(@, f)]

\* Seeded fault: the number that is asked for has to be passed.
FullBefore(x) == Cardinality(x.accepted_by) > Acceptors

\* Enough names.
Full(x) == Cardinality(x.accepted_by) = Acceptors

\* Seeded fault: the second name takes the place of the first.
NamedOnly(x, u) == [ConfirmedRow(x, u) EXCEPT !.accepted_by = {u}]

\* finding.accepted_by += ", " + user.username
Named(x, u) == ConfirmedRow(x, u)

\* risk_acceptante_pending: one more name.
Confirm(d, f) ==
    LET u == decision[d].who
        x == decision[d].rows[f]
        y == Named(x, u)
    IN  /\ Ready(d, f, "accept") /\ ~KeyIsDead(d) /\ Confirmable(x)
        /\ u \notin x.accepted_by
        /\ Cardinality(x.accepted_by) < Acceptors
        /\ SaveRow(d, f, y, IF Full(y)
                            THEN [decision[d] EXCEPT !.rows[f] = y, !.saved = {f}]
                            ELSE Done(d, f))
        /\ UNCHANGED <<enrolled, orphaned, keyVars, acts>>

\* Seeded fault: the second save writes the columns it has changed only.
ColumnsOf(f, x) == SucceededRow(finding[f], finding[f].accepted_by)

\* The row of the second save has the names of the first one.
Accepted(f, x) == SucceededRow(x, x.accepted_by)

\* risk_accepted_succesfully, after the last name was saved.
Complete(d, f) ==
    /\ decision[d].step = "running" /\ decision[d].saved = {f}
    /\ SaveRow(d, f, Accepted(f, decision[d].rows[f]),
               [Done(d, f) EXCEPT !.saved = {}])
    /\ UNCHANGED <<enrolled, orphaned, keyVars, acts>>

Rejectable(x) ==
    x.risk_status \in {"Risk Accepted", "Risk Pending", "Risk Reviewed"}

\* risk_acceptance_decline.  No key is asked for.
Reject(d, f) ==
    LET x == decision[d].rows[f]
    IN  /\ Ready(d, f, "reject") /\ Rejectable(x)
        /\ SaveRow(d, f, DeclinedRow(x), Done(d, f))
        /\ UNCHANGED <<enrolled, orphaned, keyVars, acts>>

\* rp_helper.remove_finding_from_risk_acceptance
Remove(d, f) ==
    /\ Ready(d, f, "remove")
    /\ enrolled' = enrolled \ {f}
    /\ SaveRow(d, f, ReleasedRow(decision[d].rows[f]), Done(d, f))
    /\ UNCHANGED <<orphaned, keyVars, acts>>

\* The row as it was read asks for nothing: the decision goes on.
Pass(d, f) ==
    LET x == decision[d].rows[f]
    IN  /\ \/ /\ Ready(d, f, "accept") /\ ~KeyIsDead(d)
              /\ ~Confirmable(x) \/ decision[d].who \in x.accepted_by
           \/ Ready(d, f, "reject") /\ ~Rejectable(x)
        /\ decision' = [decision EXCEPT ![d] = Done(d, f)]
        /\ UNCHANGED <<finding, enrolled, orphaned, keyVars, acts>>

\* ValueError: a row that has all its names still waits to be accepted.
Overrun(d, f) ==
    LET x == decision[d].rows[f]
    IN  /\ Ready(d, f, "accept") /\ ~KeyIsDead(d) /\ Confirmable(x)
        /\ decision[d].who \notin x.accepted_by
        /\ Cardinality(x.accepted_by) >= Acceptors

\* The key has expired: looked at before each finding and after the last one.
Expired(d) ==
    /\ decision[d].step = "running" /\ decision[d].saved = {} /\ KeyIsDead(d)
    /\ decision[d].what = "accept" \/ DOMAIN decision[d].rows = {}

\* Seeded fault: an error is answered like a decision that was refused.
AnswerAlways == "ok"

\* What accept_bulk and the pages answer to an error.
AnswerToError == "failed"

Fail(d) ==
    /\ Expired(d) \/ \E f \in Findings : Overrun(d, f)
    /\ decision' = [decision EXCEPT ![d].step = AnswerToError]
    /\ UNCHANGED <<finding, enrolled, orphaned, keyVars, acts>>

Succeed(d) ==
    /\ decision[d].step = "running" /\ DOMAIN decision[d].rows = {}
    /\ ~KeyIsDead(d)
    /\ decision' = [decision EXCEPT ![d].step = "ok"]
    /\ UNCHANGED <<finding, enrolled, orphaned, keyVars, acts>>

\* The worker of the request dies.
Die(d) ==
    /\ acts < MaxActs /\ acts' = acts + 1
    /\ decision[d].step = "running"
    /\ orphaned' = orphaned \cup decision[d].saved
    /\ decision' = [decision EXCEPT ![d] = NoDecision]
    /\ UNCHANGED <<finding, enrolled, keyVars>>

-----------------------------------------------------------------------------
Next ==
    \/ \E d \in Decisions, f \in Findings :
          \/ Confirm(d, f) \/ Complete(d, f) \/ Reject(d, f)
          \/ Remove(d, f) \/ Pass(d, f)
          \/ \E u \in Users, what \in {"accept", "reject", "remove"} :
                Click(d, u, what, f)
    \/ \E d \in Decisions :
          \/ Fail(d) \/ Succeed(d) \/ Die(d)
          \/ \E u \in Users : ClickAll(d, u)
          \/ \E i \in inbox, what \in {"accept", "reject"} : Answer(d, what, i)
    \/ KeysNext /\ UNCHANGED <<finding, enrolled, decision, orphaned>>

Spec == Init /\ [][Next]_vars

-----------------------------------------------------------------------------
(***************************************************************************)
(* Properties.                                                             *)
(***************************************************************************)

DecisionState(rows) ==
    [step : {"idle", "running", "ok", "failed"}, what : {"accept", "reject", "remove"},
     who : Users \cup {Nobody}, token : Nat, rows : {rows},
     saved : SUBSET Findings, open : SUBSET Findings, stale : SUBSET Findings]

\* Every variable has the shape of the rows it stands for, and somebody takes
\* each decision that is being served.
TypeOK ==
    /\ KeysTypeOK
    /\ finding \in [Findings -> Row]
    /\ enrolled \subseteq Findings /\ orphaned \subseteq Findings
    /\ decision = [d \in Decisions |-> decision[d]]
    /\ \A d \in Decisions :
          /\ decision[d] \in DecisionState(decision[d].rows)
          /\ Partial(decision[d].rows, Findings, Row)
          /\ decision[d].step = "running" => decision[d].who \in Users

\* However decisions overlap, an accepted finding has the names of as many
\* people as the rule asks for: each row is saved as a whole, its names with
\* its status.
AcceptedByEnough ==
    \A f \in Findings :
        finding[f].risk_accepted =>
            /\ Cardinality(finding[f].accepted_by) = Acceptors
            /\ finding[f].risk_status = "Risk Accepted"

\* Decision d saves a row of finding f that others have saved since it was read.
Overwrites(d, f) ==
    f \in decision[d].stale /\ decision'[d].rows # decision[d].rows

\* A step adds one name at most, and takes neither a name nor an acceptance
\* away, unless someone rejects or removes the finding, or a decision saves the
\* row after somebody else's save: this is how a confirmation is lost, and how
\* one that was rejected comes back, and there is no other.
ConfirmationStands ==
    [][\A f \in Findings :
          \/ finding'[f].risk_status \in {"Risk Rejected", "Risk Active"}
          \/ \E d \in Decisions : Overwrites(d, f)
          \/ /\ finding[f].accepted_by \subseteq finding'[f].accepted_by
             /\ Cardinality(finding'[f].accepted_by \ finding[f].accepted_by) <= 1
             /\ finding[f].risk_accepted => finding'[f].risk_accepted]_vars

\* A decision to accept that ends in success has left its name on each finding
\* that it could confirm, those that others have saved meanwhile excepted: a
\* key that expires, or an error, on the way is not taken for a success.
SuccessIsWhole ==
    \A d \in Decisions :
        decision[d].step = "ok" /\ decision[d].what = "accept" =>
            \A f \in decision[d].open \ decision[d].stale :
                decision[d].who \in finding[f].accepted_by

\* A finding that waits with all the names it needs is about to be accepted by
\* the request that wrote the last one.  Only if that request was cut off before
\* its second save does it wait in vain: nobody can accept it any more.
FullIsInHand ==
    \A f \in Findings :
        finding[f].risk_status = "Risk Pending"
        /\ Cardinality(finding[f].accepted_by) >= Acceptors
            => f \in orphaned \/ \E d \in Decisions : decision[d].saved = {f}
=============================================================================
