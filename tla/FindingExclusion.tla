-------------------------- MODULE FindingExclusion --------------------------
(***************************************************************************)
(* Exclusions of one vulnerability: requests to put its findings on the    *)
(* white list (which takes them out of sight), the black list or the zero  *)
(* day list.  The pages change an exclusion and queue tasks; the tasks and *)
(* two daily jobs put findings on the lists and take them off.  A task     *)
(* that takes them off runs in two steps, for others may save what it has  *)
(* read before it writes.                                                  *)
(*                                                                         *)
(* A finding is on one list at most: the list is a value of risk_status,   *)
(* whose other values are of no concern here.                              *)
(***************************************************************************)
EXTENDS Integers

CONSTANTS
    Exclusions,   \* identities of FindingExclusion rows
    Findings,     \* findings with the vulnerability
    Inside,       \* those in the product of an exclusion that has one
    Types,        \* types a person may give to an exclusion
    Scopes,       \* TRUE: an exclusion may be for one product
    EditTypes,    \* other types and statuses that a reviewer may give with
    EditStatuses, \*   the form that edits an exclusion
    StalePages,   \* a button may be pressed after the status changed
    MaxFailures   \* tasks that are cut off

ASSUME FindingsAssumption == Inside \subseteq Findings
ASSUME TypesAssumption ==
    /\ Types \subseteq {"white_list", "black_list", "zero_day"}
    /\ EditTypes \subseteq Types
ASSUME FlagsAssumption ==
    Scopes \subseteq BOOLEAN /\ StalePages \in BOOLEAN
ASSUME FailuresAssumption == MaxFailures \in Nat

VARIABLES
    row,        \* the exclusions
    finding,    \* the findings
    queued,     \* tasks that wait for a worker
    running,    \* what each task that runs has read
    failures,   \* tasks cut off so far
    approved    \* exclusions that have been accepted (for a property only)

vars == <<row, finding, queued, running, failures, approved>>

-----------------------------------------------------------------------------
Lists == Types \cup {"white_list"}
Status == {"Pending", "Reviewed", "Accepted", "Rejected", "Expired"}
Expiration == {"never", "ahead", "past"}
ASSUME StatusesAssumption == EditStatuses \subseteq Status

\* No row: not created yet, or deleted.
Absent == {"new", "deleted"}
Row == [status : Status \cup Absent, type : Lists,
        scoped : Scopes \cup {FALSE}, expiration : Expiration]

\* "by" is the exclusion that the note of the last listing names.
Finding == [active : BOOLEAN, is_mitigated : BOOLEAN,
            list : Lists \cup {"none"}, by : Exclusions \cup {"none"}]

\* add: add_findings_to_whitelist and add_findings_to_exclusion;
\* expire: expire_finding_exclusion;
\* drop: remove_findings_from_deleted_finding_exclusions.
Task == [do : {"add", "drop"}, type : Lists, scoped : Scopes \cup {FALSE},
         of : Exclusions]
        \cup [do : {"expire"}, of : Exclusions]

Scope(scoped) == IF scoped THEN Inside ELSE Findings

WhiteListTask(x, scoped) ==
    [do |-> "add", type |-> "white_list", scoped |-> scoped, of |-> x]

\* add_findings_to_exclusion takes no product and no engagements.
ExclusionTask(x, type) ==
    [do |-> "add", type |-> type, scoped |-> FALSE, of |-> x]

ListingTask(x) ==
    IF row[x].type = "white_list" THEN WhiteListTask(x, row[x].scoped)
    ELSE ExclusionTask(x, row[x].type)

Init ==
    /\ row = [x \in Exclusions |-> [status |-> "new", type |-> "white_list",
                                    scoped |-> FALSE, expiration |-> "never"]]
    /\ finding = [f \in Findings |-> [active |-> TRUE, is_mitigated |-> FALSE,
                                      list |-> "none", by |-> "none"]]
    /\ queued = {}
    /\ running = <<>>
    /\ failures = 0
    /\ approved = {}

-----------------------------------------------------------------------------
(***************************************************************************)
(* Pages.  The views do not look at the status of the exclusion, only the  *)
(* page does when it shows the buttons.                                    *)
(***************************************************************************)
Present(x) == row[x].status \notin Absent
Button(x, statuses) ==
    Present(x) /\ (StalePages \/ row[x].status \in statuses)

Save(x, r) ==
    /\ row' = [row EXCEPT ![x] = r]
    /\ approved' = IF r.status = "Accepted" THEN approved \cup {x}
                   ELSE approved
    /\ UNCHANGED <<finding, running, failures>>

\* create_finding_exclusion: a white list waits for a review, the others are
\* accepted at once.
Create(x, type, scoped) ==
    /\ row[x].status = "new"
    /\ IF type = "white_list"
       THEN /\ Save(x, [status |-> "Pending", type |-> type,
                        scoped |-> scoped, expiration |-> "never"])
            /\ UNCHANGED queued
       ELSE /\ Save(x, [status |-> "Accepted", type |-> type,
                        scoped |-> scoped, expiration |-> "never"])
            /\ queued' = queued \cup {ExclusionTask(x, type)}

\* Seeded fault: any request that is not rejected counts as accepted.
CreateAgainUnlessRejected(x) ==
    /\ Present(x) /\ row[x].status # "Rejected" /\ ~row[x].scoped
    /\ queued' = queued \cup {WhiteListTask(x, FALSE)}
    /\ UNCHANGED <<row, finding, running, failures, approved>>

\* The form was opened for a vulnerability that has an exclusion: an accepted
\* one is applied again, as a white list whatever its type.
CreateAgain(x) ==
    /\ row[x].status = "Accepted" /\ ~row[x].scoped
    /\ queued' = queued \cup {WhiteListTask(x, FALSE)}
    /\ UNCHANGED <<row, finding, running, failures, approved>>

\* identify_priority_vulnerabilities, for one of the findings.
Prioritise(x) ==
    IF \E y \in Exclusions :
           row[y].type = "black_list" /\ row[y].status = "Accepted"
    THEN /\ row[x].type = "black_list" /\ row[x].status = "Accepted"
         /\ queued' = queued \cup {ExclusionTask(x, "black_list")}
         /\ UNCHANGED <<row, finding, running, failures, approved>>
    ELSE /\ "black_list" \in Types
         /\ Create(x, "black_list", FALSE)

\* accept_finding_exclusion_inmediately, reached when no provider is to be
\* asked (send_mail_to_cybersecurity).
Immediate(r) == r.type \in {"white_list", "zero_day"}
AcceptedRow(r) == [r EXCEPT !.status = "Accepted", !.expiration = "ahead"]

Review(x) ==
    /\ Button(x, {"Pending"})
    /\ \/ /\ Save(x, [row[x] EXCEPT !.status = "Reviewed"])
          /\ UNCHANGED queued
       \/ /\ Immediate(row[x])
          /\ Save(x, AcceptedRow(row[x]))
          /\ queued' = queued \cup {WhiteListTask(x, row[x].scoped)}

\* Both ask for the white list, whatever the type.
Accept(x) ==
    /\ Button(x, {"Reviewed"})
    /\ Save(x, AcceptedRow(row[x]))
    /\ queued' = queued \cup {WhiteListTask(x, row[x].scoped)}

Reopen(x) ==
    /\ Button(x, {"Rejected", "Expired"})
    /\ Save(x, AcceptedRow(row[x]))
    /\ queued' = queued \cup {WhiteListTask(x, row[x].scoped)}

Reject(x) ==
    /\ Button(x, {"Pending", "Reviewed"})
    /\ Save(x, [row[x] EXCEPT !.status = "Rejected"])
    /\ UNCHANGED queued

RequestExpiration(x) ==
    /\ Button(x, {"Accepted"})
    /\ queued' = queued \cup {[do |-> "expire", of |-> x]}
    /\ UNCHANGED <<row, finding, running, failures, approved>>

Edit(x) ==
    /\ Present(x)
    /\ \E s \in EditStatuses \cup {row[x].status},
          t \in EditTypes \cup {row[x].type},
          scoped \in Scopes, e \in Expiration :
           Save(x, [status |-> s, type |-> t, scoped |-> scoped,
                    expiration |-> e])
    /\ UNCHANGED queued

Delete(x) ==
    /\ Present(x)
    /\ queued' = queued \cup {[do |-> "drop", type |-> row[x].type,
                               scoped |-> row[x].scoped, of |-> x]}
    /\ Save(x, [row[x] EXCEPT !.status = "deleted"])

Page(x) ==
    \/ \E type \in Types, scoped \in Scopes : Create(x, type, scoped)
    \/ CreateAgain(x) \/ Prioritise(x)
    \/ Review(x) \/ Accept(x) \/ Reopen(x) \/ Reject(x)
    \/ RequestExpiration(x) \/ Edit(x) \/ Delete(x)

-----------------------------------------------------------------------------
(***************************************************************************)
(* The daily jobs.                                                         *)
(***************************************************************************)
\* Seeded fault: exclusions without an expiration day.
DueNever(x) == row[x].status = "Accepted" /\ row[x].expiration = "never"

Due(x) == row[x].status = "Accepted" /\ row[x].expiration = "past"

\* check_expiring_findingexclusions
CheckExpiring ==
    /\ queued' = queued \cup
           {[do |-> "expire", of |-> x] : x \in {y \in Exclusions : Due(y)}}
    /\ UNCHANGED <<row, finding, running, failures, approved>>

\* check_new_findings_to_exclusion_list
CheckNewFindings ==
    /\ queued' = queued \cup
           {ListingTask(x) : x \in {y \in Exclusions :
                                        row[y].status = "Accepted"}}
    /\ UNCHANGED <<row, finding, running, failures, approved>>

\* The day of its expiration comes.
DayComes(x) ==
    /\ row[x].expiration = "ahead"
    /\ row' = [row EXCEPT ![x].expiration = "past"]
    /\ UNCHANGED <<finding, queued, running, failures, approved>>

-----------------------------------------------------------------------------
(***************************************************************************)
(* The tasks.                                                              *)
(***************************************************************************)

\* Seeded fault: only findings on no list are looked for.
AddsUnlisted(t, f) == finding[f].active /\ finding[f].list = "none"

Adds(t, f) == finding[f].active /\ finding[f].list # t.type

\* The findings that a task selects.
Selected(t) ==
    CASE t.do = "add" -> {f \in Scope(t.scoped) : Adds(t, f)}
      [] t.do = "drop" ->
             {f \in Scope(t.scoped) :
                  /\ finding[f].list = t.type
                  /\ finding[f].active = (t.type # "white_list")}
      [] t.do = "expire" ->
             {f \in Scope(row[t.of].scoped) :
                  finding[f].list = row[t.of].type}

\* Once findings were put on the zero day list, its exclusion is mailed to the
\* provider or, when there is none, accepted anew: on the white list.
MailsProvider(t, y) ==
    /\ t.type # "white_list"
    /\ row[y].type = t.type /\ row[y].status = "Accepted" /\ Immediate(row[y])

\* One step: what it writes does not depend on the rows it has read, so that a
\* step of another between the two could as well come after it.  bulk_update
\* writes "active" and "risk_status" for the white list, the latter alone for
\* the other lists.
Add(t) ==
    /\ t \in queued /\ t.do = "add"
    /\ finding' = [f \in Findings |->
           IF f \notin Selected(t) THEN finding[f]
           ELSE [finding[f] EXCEPT
                    !.active = IF t.type = "white_list" THEN FALSE ELSE @,
                    !.list = t.type, !.by = t.of]]
    /\ \/ queued' = queued \ {t} /\ UNCHANGED row
       \/ \E y \in Exclusions :
             /\ Selected(t) # {} /\ MailsProvider(t, y)
             /\ row' = [row EXCEPT ![y] = AcceptedRow(@)]
             /\ queued' = (queued \ {t}) \cup {WhiteListTask(y, row[y].scoped)}
    /\ UNCHANGED <<running, failures, approved>>

Type(t) == IF t.do = "expire" THEN row[t.of].type ELSE t.type

\* The value of "active" that bulk_update will write, from the row as it is
\* read (remove_finding_from_list).
Activity(t, f) ==
    \/ Type(t) = "white_list" /\ ~finding[f].is_mitigated
    \/ finding[f].active

Reading(t) ==
    [active |-> [f \in Selected(t) |-> Activity(t, f)],
     exclusion |-> IF t.do = "expire" THEN {row[t.of]} ELSE {}]

\* The task reads its findings and, for an expiration, the exclusion; a
\* deleted exclusion ends it.
Take(t) ==
    /\ t \in queued /\ t.do # "add" /\ t \notin DOMAIN running
    /\ queued' = queued \ {t}
    /\ running' =
           IF t.do = "expire" /\ ~Present(t.of) THEN running
           ELSE [u \in DOMAIN running \cup {t} |->
                     IF u = t THEN Reading(t) ELSE running[u]]
    /\ UNCHANGED <<row, finding, failures, approved>>

Ended(t) == [u \in DOMAIN running \ {t} |-> running[u]]

Unlist(t) ==
    LET active == running[t].active
    IN  finding' = [f \in Findings |->
            IF f \notin DOMAIN active THEN finding[f]
            ELSE [finding[f] EXCEPT !.active = active[f], !.list = "none",
                                    !.by = "none"]]

FinishDrop(t) ==
    /\ t.do = "drop" /\ t \in DOMAIN running
    /\ Unlist(t)
    /\ running' = Ended(t)
    /\ UNCHANGED <<row, queued, failures, approved>>

\* One transaction: the exclusion is saved as it was read, but Expired.
FinishExpire(t) ==
    /\ t.do = "expire" /\ t \in DOMAIN running
    /\ \E x \in running[t].exclusion :
           row' = [row EXCEPT ![t.of] = [x EXCEPT !.status = "Expired"]]
    /\ Unlist(t)
    /\ running' = Ended(t)
    /\ UNCHANGED <<queued, failures, approved>>

Run(t) == Add(t) \/ Take(t) \/ FinishDrop(t) \/ FinishExpire(t)

\* The worker dies, or an error rolls an expiration back and is only logged.
Fail(t) ==
    /\ failures < MaxFailures
    /\ failures' = failures + 1
    /\ \/ t \in DOMAIN running /\ running' = Ended(t) /\ UNCHANGED queued
       \/ t \in queued /\ queued' = queued \ {t} /\ UNCHANGED running
    /\ UNCHANGED <<row, finding, approved>>

-----------------------------------------------------------------------------
(***************************************************************************)
(* What else happens to the findings.                                      *)
(***************************************************************************)
Becomes(f, active, mitigated) ==
    finding' = [finding EXCEPT ![f] =
        [active |-> active, is_mitigated |-> mitigated,
         list |-> finding[f].list, by |-> finding[f].by]]

Mitigate(f) ==
    /\ ~finding[f].is_mitigated
    /\ Becomes(f, FALSE, TRUE)
    /\ UNCHANGED <<row, queued, running, failures, approved>>

\* A reimport finds it again: on the white list it stays out of sight.
Report(f) ==
    /\ finding[f].is_mitigated
    /\ Becomes(f, finding[f].list # "white_list", FALSE)
    /\ UNCHANGED <<row, queued, running, failures, approved>>

\* reopen_finding
ReopenFinding(f) ==
    /\ ~finding[f].active
    /\ Becomes(f, TRUE, FALSE)
    /\ UNCHANGED <<row, queued, running, failures, approved>>

Next ==
    \/ \E x \in Exclusions : Page(x) \/ DayComes(x)
    \/ CheckExpiring \/ CheckNewFindings
    \/ \E t \in queued \cup DOMAIN running : Run(t) \/ Fail(t)
    \/ \E f \in Findings : Mitigate(f) \/ Report(f) \/ ReopenFinding(f)

Spec == Init /\ [][Next]_vars

\* Celery beat starts both jobs every day, and the workers run what is queued.
FairSpec ==
    /\ Spec
    /\ WF_vars(CheckExpiring) /\ WF_vars(CheckNewFindings)
    /\ \A t \in Task : WF_vars(Run(t))

-----------------------------------------------------------------------------
TypeOK ==
    /\ row \in [Exclusions -> Row]
    /\ finding \in [Findings -> Finding]
    /\ queued \subseteq Task
    /\ DOMAIN running \subseteq Task
    /\ \A t \in DOMAIN running :
           /\ running[t].exclusion \subseteq Row
           /\ \A f \in DOMAIN running[t].active :
                  running[t].active[f] \in BOOLEAN
    /\ failures \in 0 .. MaxFailures
    /\ approved \subseteq Exclusions

\* Findings are put on a list by an exclusion that somebody accepted, or that
\* was filed by one who may do so alone: never by one that only waits for a
\* decision, however the pages, the jobs and late tasks interleave.
ListedWasAccepted ==
    \A f \in Findings :
        finding[f].list # "none" => finding[f].by \in approved

\* An accepted exclusion whose day has come is accepted no more in the end,
\* even if the expiration fails at first (check_expiring_findingexclusions).
DueExpires ==
    \A x \in Exclusions :
        LET due == row[x].status = "Accepted" /\ row[x].expiration = "past"
        IN  due ~> ~due

\* Findings that appear, or become active again, while an exclusion is
\* accepted get on its list (check_new_findings_to_exclusion_list).
CoveredIsListed ==
    \A x \in Exclusions, f \in Findings :
        LET waits == /\ row[x].status = "Accepted"
                     /\ f \in Scope(row[x].scoped)
                     /\ finding[f].active /\ finding[f].list # row[x].type
        IN  waits ~> ~waits

\* "All findings added via this finding exclusion ... will be removed from
\* the" list (helpers.py:332): once an exclusion has expired, and no task is
\* left, no finding names it any more.
ExpiredReleases ==
    \A x \in Exclusions :
        row[x].status = "Expired" /\ queued = {} /\ DOMAIN running = {}
            => \A f \in Findings : finding[f].by # x
=============================================================================
