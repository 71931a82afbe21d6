------------------------------ MODULE Webhooks ------------------------------
(***************************************************************************)
(* The endpoints of webhooks: what the answers to the messages, the        *)
(* reactivation after a minute, the clean-up of every minute and the       *)
(* pages of the administrator do to their rows.  A send, a reactivation    *)
(* and an edit load a row, talk to the network or to the broker, and save  *)
(* the whole row afterwards; everybody else may save it in between.        *)
(*                                                                         *)
(* Time is kept as ages that stop growing at Day + 1: the code only asks   *)
(* whether one exceeds a bound.  A tick is at least the 60 seconds of the  *)
(* countdown.                                                              *)
(***************************************************************************)
EXTENDS Integers, FiniteSets

CONSTANTS
    Endpoints,   \* identities of Notification_Webhooks rows
    Senders,     \* tasks send_webhooks_notification that run at once
    Repair,      \* the 5 minutes of webhook_status_cleanup
    Day          \* the 24 hours

ASSUME AgesAssumption == Repair \in Nat /\ Day \in Nat
ASSUME EndpointsAssumption == IsFiniteSet(Endpoints)

VARIABLES
    row,        \* row of each endpoint
    sending,    \* rows that each send has loaded and not dealt with yet
    queued,     \* ages of the reactivations that wait in the broker
    reviving,   \* row that a reactivation has loaded and not saved yet
    cleaning,   \* the scheduled clean-up
    editing     \* endpoints whose edit form waits for the answer to its ping

vars == <<row, sending, queued, reviving, cleaning, editing>>

-----------------------------------------------------------------------------
None == -1
Ages == 0 .. Day + 1

Tmp == {"active_tmp", "inactive_tmp"}
Sendable == {"active", "active_tmp"}
Absent == {"new", "removed"}          \* no row: not added yet, or deleted
Status == Sendable \cup Tmp \cup {"inactive_permanent"} \cup Absent

Row == [status : Status, first_error : Ages \cup {None},
        last_error : Ages \cup {None}]

Clean(s) == [status |-> s, first_error |-> None, last_error |-> None]

Existing == {e \in Endpoints : row[e].status \notin Absent}

\* Rows loaded by a task, for some of the endpoints.
Loaded == UNION {[E -> Row] : E \in SUBSET Endpoints}
Nothing == [e \in {} |-> Clean("new")]
Without(rows, e) == [x \in DOMAIN rows \ {e} |-> rows[x]]

Idle == [phase |-> "idle", left |-> {}]

Init ==
    /\ row = [e \in Endpoints |-> Clean("new")]
    /\ sending = [s \in Senders |-> Nothing]
    /\ queued = [e \in Endpoints |-> {}]
    /\ reviving = Nothing
    /\ cleaning = Idle
    /\ editing = {}

-----------------------------------------------------------------------------
(***************************************************************************)
(* Messages: send_webhooks_notification.                                   *)
(***************************************************************************)

\* One query loads all endpoints; those that are not active are skipped.
Start(s) ==
    /\ DOMAIN sending[s] = {}
    /\ \E e \in Existing : row[e].status \in Sendable
    /\ sending' = [sending EXCEPT ![s] =
           [e \in {x \in Endpoints : row[x].status \in Sendable} |-> row[e]]]
    /\ UNCHANGED <<row, queued, reviving, cleaning, editing>>

\* A 2xx answer saves nothing.
Delivered(s, e) ==
    /\ e \in DOMAIN sending[s]
    /\ sending' = [sending EXCEPT ![s] = Without(@, e)]
    /\ UNCHANGED <<row, queued, reviving, cleaning, editing>>

\* A 5xx or 429 answer, or a timeout: what becomes of the loaded row.
TooLong(r) == r.first_error > Day

\* Seeded fault: the start of the outage is set by every error.
FailedRowAnew(r) ==
    IF TooLong(r)
    THEN [r EXCEPT !.status = "inactive_permanent", !.last_error = 0]
    ELSE [status |-> "inactive_tmp", first_error |-> 0, last_error |-> 0]

\* Seeded fault: the start of the outage is never set.
FailedRowUndated(r) ==
    IF TooLong(r)
    THEN [r EXCEPT !.status = "inactive_permanent", !.last_error = 0]
    ELSE [r EXCEPT !.status = "inactive_tmp", !.last_error = 0]

FailedRow(r) ==
    IF TooLong(r)
    THEN [r EXCEPT !.status = "inactive_permanent", !.last_error = 0]
    ELSE [status |-> "inactive_tmp",
          first_error |-> IF r.status = "active" THEN 0 ELSE r.first_error,
          last_error |-> 0]

Fail(s, e) ==
    /\ e \in DOMAIN sending[s]
    /\ LET r == sending[s][e]
       IN  /\ row' = [row EXCEPT ![e] = FailedRow(r)]
           /\ queued' = IF TooLong(r) THEN queued
                        ELSE [queued EXCEPT ![e] = @ \cup {0}]
    /\ sending' = [sending EXCEPT ![s] = Without(@, e)]
    /\ UNCHANGED <<reviving, cleaning, editing>>

\* Any other answer or error.
Refused(s, e) ==
    /\ e \in DOMAIN sending[s]
    /\ row' = [row EXCEPT ![e] = [status |-> "inactive_permanent",
                                  first_error |-> 0, last_error |-> 0]]
    /\ sending' = [sending EXCEPT ![s] = Without(@, e)]
    /\ UNCHANGED <<queued, reviving, cleaning, editing>>

\* The worker dies, or the broker takes no reactivation: apply_async raises
\* before the row is saved, and the endpoints that are left get no message.
Die(s) ==
    /\ DOMAIN sending[s] # {}
    /\ sending' = [sending EXCEPT ![s] = Nothing]
    /\ UNCHANGED <<row, queued, reviving, cleaning, editing>>

Send(s) == \E e \in Endpoints : Delivered(s, e) \/ Fail(s, e) \/ Refused(s, e)

-----------------------------------------------------------------------------
(***************************************************************************)
(* Reactivation: _webhook_reactivation, from the broker or the clean-up.   *)
(* Of one endpoint, one reactivation runs at a time.  One that dies before *)
(* its save does what one that was lost does.                              *)
(***************************************************************************)
Revive(e) ==
    /\ e \notin DOMAIN reviving
    /\ reviving' = IF row[e].status # "inactive_tmp" THEN reviving
                   ELSE [x \in DOMAIN reviving \cup {e} |->
                             IF x = e THEN row[e] ELSE reviving[x]]

\* The countdown of 60 seconds is over.  Another task of the same age may be
\* left in the queue.
Reactivate(e) ==
    /\ 1 \in queued[e]
    /\ \/ queued' = [queued EXCEPT ![e] = @ \ {1}]
       \/ UNCHANGED queued
    /\ Revive(e)
    /\ UNCHANGED <<row, sending, cleaning, editing>>

\* The broker starts anew ("start of whole stack").
Lose(e) ==
    /\ queued[e] # {}
    /\ queued' = [queued EXCEPT ![e] = {}]
    /\ UNCHANGED <<row, sending, reviving, cleaning, editing>>

Revived(e) ==
    /\ e \in DOMAIN reviving
    /\ row' = [row EXCEPT ![e] = [reviving[e] EXCEPT !.status = "active_tmp"]]
    /\ reviving' = Without(reviving, e)
    /\ UNCHANGED <<sending, queued, cleaning, editing>>

-----------------------------------------------------------------------------
(***************************************************************************)
(* The clean-up: webhook_status_cleanup, every minute.                     *)
(***************************************************************************)

\* Seeded fault: the outage is measured from an error that is not kept.
RecoveredByFirst(r) == r.status = "active_tmp" /\ r.first_error = None

Recovered(r) == r.status = "active_tmp" /\ r.last_error > Day

\* Seeded fault: the endpoints that the reactivation forgot are not found.
StuckActive(r) == r.status = "active_tmp" /\ r.last_error > Repair

Stuck(r) == r.status = "inactive_tmp" /\ r.last_error > Repair

CleanUp ==
    /\ cleaning = Idle
    /\ cleaning' = [phase |-> "recovered",
                    left |-> {e \in Endpoints : Recovered(row[e])}]
    /\ UNCHANGED <<row, sending, queued, reviving, editing>>

\* The save of the loaded row: it adds again a row that was deleted since.
Recover(e) ==
    /\ cleaning.phase = "recovered" /\ e \in cleaning.left
    /\ row' = [row EXCEPT ![e] = Clean("active")]
    /\ cleaning' = [cleaning EXCEPT !.left = @ \ {e}]
    /\ UNCHANGED <<sending, queued, reviving, editing>>

FindStuck ==
    /\ cleaning.phase = "recovered" /\ cleaning.left = {}
    /\ cleaning' = [phase |-> "stuck",
                    left |-> {e \in Endpoints : Stuck(row[e])}]
    /\ UNCHANGED <<row, sending, queued, reviving, editing>>

\* The reactivation of an endpoint that was deleted meanwhile ends the job.
Unstick(e) ==
    /\ cleaning.phase = "stuck" /\ e \in cleaning.left
    /\ IF e \in Existing
       THEN cleaning' = [cleaning EXCEPT !.left = @ \ {e}] /\ Revive(e)
       ELSE cleaning' = Idle /\ UNCHANGED reviving
    /\ UNCHANGED <<row, sending, queued, editing>>

CleanedUp ==
    /\ cleaning = [phase |-> "stuck", left |-> {}]
    /\ cleaning' = Idle
    /\ UNCHANGED <<row, sending, queued, reviving, editing>>

CleanUpStep ==
    CleanUp \/ FindStuck \/ CleanedUp
    \/ \E e \in Endpoints : Recover(e) \/ Unstick(e)

-----------------------------------------------------------------------------
(***************************************************************************)
(* The pages.  An endpoint is added, and an edit saved, after it answered  *)
(* a ping.                                                                 *)
(***************************************************************************)
Add(e) ==
    /\ row[e].status = "new"
    /\ row' = [row EXCEPT ![e] = Clean("active")]
    /\ UNCHANGED <<sending, queued, reviving, cleaning, editing>>

Edit(e) ==
    /\ e \in Existing /\ e \notin editing
    /\ editing' = editing \cup {e}
    /\ UNCHANGED <<row, sending, queued, reviving, cleaning>>

Edited(e) ==
    /\ e \in editing
    /\ editing' = editing \ {e}
    /\ row' = [row EXCEPT ![e] = Clean("active")]
    /\ UNCHANGED <<sending, queued, reviving, cleaning>>

EditRefused(e) ==
    /\ e \in editing
    /\ editing' = editing \ {e}
    /\ UNCHANGED <<row, sending, queued, reviving, cleaning>>

Deactivate(e) ==
    /\ e \in Existing
    /\ row' = [row EXCEPT ![e] = Clean("inactive_permanent")]
    /\ UNCHANGED <<sending, queued, reviving, cleaning, editing>>

Delete(e) ==
    /\ e \in Existing
    /\ row' = [row EXCEPT ![e] = Clean("removed")]
    /\ UNCHANGED <<sending, queued, reviving, cleaning, editing>>

User(e) == Add(e) \/ Edit(e) \/ Edited(e) \/ EditRefused(e)
           \/ Deactivate(e) \/ Delete(e)

-----------------------------------------------------------------------------
Older(a) == IF a \in 0 .. Day THEN a + 1 ELSE a
Aged(r) == [status |-> r.status, first_error |-> Older(r.first_error),
            last_error |-> Older(r.last_error)]
AllAged(rows) == [e \in DOMAIN rows |-> Aged(rows[e])]

Tick ==
    /\ row' = AllAged(row)
    /\ sending' = [s \in Senders |-> AllAged(sending[s])]
    /\ queued' = [e \in Endpoints |-> IF queued[e] = {} THEN {} ELSE {1}]
    /\ reviving' = AllAged(reviving)
    /\ UNCHANGED <<cleaning, editing>>

Next ==
    \/ \E s \in Senders : Start(s) \/ Send(s) \/ Die(s)
    \/ \E e \in Endpoints :
           Reactivate(e) \/ Lose(e) \/ Revived(e) \/ User(e)
    \/ CleanUpStep
    \/ Tick

Spec == Init /\ [][Next]_vars

\* Celery beat starts the clean-up every minute, and a task that runs goes
\* on; that time passes is the clock's.  The broker may lose everything.
FairSpec ==
    /\ Spec
    /\ WF_vars(Tick) /\ WF_vars(CleanUpStep)
    /\ \A s \in Senders : WF_vars(Send(s))
    /\ \A e \in Endpoints : WF_vars(Revived(e))

-----------------------------------------------------------------------------
TypeOK ==
    /\ row \in [Endpoints -> Row]
    /\ sending \in [Senders -> Loaded]
    /\ queued \in [Endpoints -> SUBSET {0, 1}]
    /\ reviving \in Loaded
    /\ cleaning \in [phase : {"idle", "recovered", "stuck"},
                     left : SUBSET Endpoints]
    /\ editing \subseteq Endpoints

\* An endpoint with a temporary error knows when its outage began and when it
\* failed last, in that order, and an active one knows of none.  The clean-up
\* compares these columns, and NULL is older than nothing: an endpoint without
\* them would be left as it is for ever (helper.py:900 and 918).
Dated(r) ==
    /\ r.status \in Tmp => r.last_error \in 0 .. r.first_error
    /\ r.status = "active" => r.first_error = None /\ r.last_error = None

OutagesAreDated == \A e \in Endpoints : Dated(row[e])

\* "endpoints should not be left in STATUS_INACTIVE_TMP state"
\* (helper.py:916), whatever happens to the broker and to the senders.
TakenBack ==
    \A e \in Endpoints :
        row[e].status = "inactive_tmp" ~> row[e].status # "inactive_tmp"

\* An endpoint that does not fail any more is "healthy so need to reset it"
\* (helper.py:899) in the end, and stays so.
HealthyAgain ==
    \A e \in Endpoints :
        <>[][~\E s \in Senders : Fail(s, e)]_vars
            => <>[](row[e].status \notin Tmp)

\* "If endpoint is unstable for more then one day, it needs to be
\* deactivated" (helper.py:480): an endpoint that fails again and again does
\* not go on for ever between its two temporary states.
FlakyIsRetired ==
    \A e \in Endpoints :
        ([]<><<\E s \in Senders : Fail(s, e)>>_vars)
            => []<>(row[e].status \notin Tmp)

\* The transition graph of notification_webhooks/how_to.md: from
\* STATUS_INACTIVE_PERMANENT and from the removal of an endpoint only "ALL
\* ==Activation by user==> STATUS_ACTIVE" leads on.  A save of a row that was
\* loaded before does so too: TLC finds this violated, and no run checks it.
OnlyUserRevives ==
    [][\A e \in Endpoints :
           row[e].status \in {"inactive_permanent", "removed"}
               => row'[e].status = row[e].status \/ User(e)]_vars
=============================================================================
