----------------------- MODULE FindingExclusionProofs -----------------------
(***************************************************************************)
(* Whatever the pages, the daily jobs and the tasks do, in any order and   *)
(* with stale pages: a finding is on a list only by an exclusion that was  *)
(* accepted.  The invariant says the same of the exclusions and of the     *)
(* tasks that wait, for these carry the approval to the findings.          *)
(***************************************************************************)
EXTENDS FindingExclusion, TLAPS

\* An exclusion that is accepted has been accepted once.
AcceptedIsApproved ==
    \A x \in Exclusions : row[x].status = "Accepted" => x \in approved

\* Tasks that put findings on a list are queued for accepted exclusions.
TasksAreApproved ==
    \A t \in queued : t.do = "add" => t.of \in approved

Inv == TypeOK /\ AcceptedIsApproved /\ TasksAreApproved /\ ListedWasAccepted

\* The tasks that wait are tasks, and approved ones.
TaskOK(t) == t \in Task /\ (t.do = "add" => t.of \in approved)

-----------------------------------------------------------------------------
\* A save that gives "Accepted" approves: it keeps all but the queue.
LEMMA SaveKeeps ==
    ASSUME Inv, NEW x \in Exclusions, NEW r \in Row, Save(x, r)
    PROVE  /\ row' \in [Exclusions -> Row]
           /\ approved' \subseteq Exclusions
           /\ approved \subseteq approved'
           /\ AcceptedIsApproved'
           /\ ListedWasAccepted'
           /\ r.status = "Accepted" => x \in approved'
           /\ UNCHANGED <<finding, running, failures>>
  BY DEF Inv, TypeOK, AcceptedIsApproved, ListedWasAccepted, Save

\* A queue to which tasks of approved exclusions are added keeps its
\* invariant.
LEMMA QueueKeeps ==
    /\ Inv /\ approved \subseteq approved'
    /\ \A t \in queued' : t \in queued \/ TaskOK(t)'
    => queued' \subseteq Task /\ TasksAreApproved'
  BY DEF Inv, TypeOK, TasksAreApproved, TaskOK

LEMMA WhiteListTaskType ==
    ASSUME NEW x \in Exclusions, NEW scoped \in Scopes \cup {FALSE}
    PROVE  /\ WhiteListTask(x, scoped) \in Task
           /\ WhiteListTask(x, scoped).of = x
  BY DEF WhiteListTask, Task, Lists

LEMMA ExclusionTaskType ==
    ASSUME NEW x \in Exclusions, NEW type \in Lists
    PROVE  ExclusionTask(x, type) \in Task /\ ExclusionTask(x, type).of = x
  BY DEF ExclusionTask, Task

LEMMA ListingTaskType ==
    ASSUME TypeOK, NEW x \in Exclusions
    PROVE  ListingTask(x) \in Task /\ ListingTask(x).of = x
  <1>1. row[x].type \in Lists /\ row[x].scoped \in Scopes \cup {FALSE}
    BY DEF TypeOK, Row
  <1> QED
    BY <1>1, WhiteListTaskType, ExclusionTaskType DEF ListingTask

LEMMA AcceptedRowType ==
    ASSUME NEW r \in Row
    PROVE  AcceptedRow(r) \in Row /\ AcceptedRow(r).status = "Accepted"
  BY DEF AcceptedRow, Row, Status, Expiration

-----------------------------------------------------------------------------
\* A page keeps the invariant.
LEMMA CreateKeeps ==
    ASSUME Inv, NEW x \in Exclusions, NEW type \in Types,
           NEW scoped \in Scopes \cup {FALSE}, Create(x, type, scoped)
    PROVE  Inv'
  <1> DEFINE pending == [status |-> "Pending", type |-> type,
                         scoped |-> scoped, expiration |-> "never"]
             accepted == [status |-> "Accepted", type |-> type,
                          scoped |-> scoped, expiration |-> "never"]
  <1>1. pending \in Row /\ accepted \in Row
    BY DEF Row, Status, Expiration, Lists
  <1>2. CASE type = "white_list"
    <2>1. Save(x, pending) /\ queued' = queued
      BY <1>2 DEF Create
    <2> QED
      BY <1>1, <2>1, SaveKeeps, QueueKeeps DEF Inv, TypeOK
  <1>3. CASE type # "white_list"
    <2>1. Save(x, accepted) /\ queued' = queued \cup {ExclusionTask(x, type)}
      BY <1>3 DEF Create
    <2>2. x \in approved' /\ approved \subseteq approved'
      BY <1>1, <2>1, SaveKeeps
    <2>3. queued' \subseteq Task /\ TasksAreApproved'
      <3>1. TaskOK(ExclusionTask(x, type))'
        BY <2>2, ExclusionTaskType DEF TaskOK, Lists, ExclusionTask
      <3>2. \A t \in queued : TaskOK(t)'
        BY <2>2 DEF Inv, TypeOK, TasksAreApproved, TaskOK
      <3> QED
        BY <2>1, <2>2, <3>1, <3>2, QueueKeeps
    <2> QED
      BY <1>1, <2>1, <2>3, SaveKeeps DEF Inv, TypeOK
  <1> QED
    BY <1>2, <1>3

\* An exclusion is accepted and its white list task queued.
LEMMA AcceptanceKeeps ==
    ASSUME Inv, NEW x \in Exclusions, Save(x, AcceptedRow(row[x])),
           queued' = queued \cup {WhiteListTask(x, row[x].scoped)}
    PROVE  Inv'
  <1>1. row[x] \in Row /\ row[x].scoped \in Scopes \cup {FALSE}
    BY DEF Inv, TypeOK, Row
  <1>2. AcceptedRow(row[x]) \in Row /\ AcceptedRow(row[x]).status = "Accepted"
    BY <1>1, AcceptedRowType
  <1>3. x \in approved' /\ approved \subseteq approved'
    BY <1>2, SaveKeeps
  <1>4. queued' \subseteq Task /\ TasksAreApproved'
    <2> DEFINE task == WhiteListTask(x, row[x].scoped)
    <2>1. task \in Task /\ task.of \in approved'
      BY <1>1, <1>3, WhiteListTaskType
    <2>2. \A t \in queued' : t \in queued \/ t = task
      OBVIOUS
    <2> HIDE DEF task
    <2> QED
      BY <1>3, <2>1, <2>2, QueueKeeps DEF TaskOK
  <1> QED
    BY <1>2, <1>4, SaveKeeps DEF Inv, TypeOK

\* An exclusion gets another row, and no task is queued.
LEMMA SavedOnlyKeeps ==
    ASSUME Inv, NEW x \in Exclusions, NEW r \in Row, Save(x, r),
           UNCHANGED queued
    PROVE  Inv'
  BY SaveKeeps, QueueKeeps DEF Inv, TypeOK

\* A task is queued, and nothing else changes.
LEMMA QueuedOnlyKeeps ==
    ASSUME Inv, UNCHANGED <<row, finding, running, failures, approved>>,
           \A t \in queued' : t \in queued \/ TaskOK(t)
    PROVE  Inv'
  <1>1. queued' \subseteq Task /\ TasksAreApproved'
    BY QueueKeeps DEF TaskOK
  <1> QED
    BY <1>1 DEF Inv, TypeOK, AcceptedIsApproved, ListedWasAccepted

LEMMA PageKeeps ==
    ASSUME Inv, NEW x \in Exclusions, Page(x)
    PROVE  Inv'
  <1> USE DEF TaskOK
  <1>0. /\ row[x] \in Row /\ row[x].scoped \in Scopes \cup {FALSE}
        /\ row[x].type \in Lists
    BY DEF Inv, TypeOK, Row
  <1>1. ASSUME NEW type \in Types, NEW scoped \in Scopes,
               Create(x, type, scoped)
        PROVE  Inv'
    BY <1>1, CreateKeeps
  <1>2. CASE CreateAgain(x)
    <2>1. x \in approved
      BY <1>2 DEF CreateAgain, Inv, AcceptedIsApproved
    <2> QED
      BY ZenonT(30), <1>2, <2>1, WhiteListTaskType, QueuedOnlyKeeps DEF CreateAgain
  <1>3. CASE Prioritise(x)
    <2>1. CASE Create(x, "black_list", FALSE) /\ "black_list" \in Types
      BY <2>1, CreateKeeps
    <2>2. CASE /\ row[x].type = "black_list" /\ row[x].status = "Accepted"
               /\ queued' = queued \cup {ExclusionTask(x, "black_list")}
               /\ UNCHANGED <<row, finding, running, failures, approved>>
      <3>1. x \in approved
        BY <2>2 DEF Inv, AcceptedIsApproved
      <3> QED
        BY <1>0, <2>2, <3>1, ExclusionTaskType, QueuedOnlyKeeps
    <2> QED
      BY <1>3, <2>1, <2>2 DEF Prioritise
  <1>4. CASE Review(x)
    <2>1. CASE /\ Save(x, [row[x] EXCEPT !.status = "Reviewed"])
               /\ UNCHANGED queued
      <3>1. [row[x] EXCEPT !.status = "Reviewed"] \in Row
        BY <1>0 DEF Row, Status
      <3> QED
        BY <2>1, <3>1, SavedOnlyKeeps
    <2> QED
      BY <1>4, <2>1, AcceptanceKeeps DEF Review
  <1>5. CASE Accept(x)
    BY <1>5, AcceptanceKeeps DEF Accept
  <1>6. CASE Reopen(x)
    BY <1>6, AcceptanceKeeps DEF Reopen
  <1>7. CASE Reject(x)
    <2>1. [row[x] EXCEPT !.status = "Rejected"] \in Row
      BY <1>0 DEF Row, Status
    <2> QED
      BY <1>7, <2>1, SavedOnlyKeeps DEF Reject
  <1>8. CASE RequestExpiration(x)
    <2>1. TaskOK([do |-> "expire", of |-> x])
      BY DEF Task
    <2> QED
      BY <1>8, <2>1, QueuedOnlyKeeps DEF RequestExpiration
  <1>9. CASE Edit(x)
    <2>1. PICK s \in EditStatuses \cup {row[x].status},
               t \in EditTypes \cup {row[x].type},
               scoped \in Scopes, e \in Expiration :
                   Save(x, [status |-> s, type |-> t, scoped |-> scoped,
                            expiration |-> e])
      BY <1>9 DEF Edit
    <2>2. [status |-> s, type |-> t, scoped |-> scoped, expiration |-> e]
              \in Row
      BY <1>0, TypesAssumption, StatusesAssumption DEF Row, Lists
    <2> QED
      BY <1>9, <2>1, <2>2, SavedOnlyKeeps DEF Edit
  <1>10. CASE Delete(x)
    <2> DEFINE task == [do |-> "drop", type |-> row[x].type,
                        scoped |-> row[x].scoped, of |-> x]
               gone == [row[x] EXCEPT !.status = "deleted"]
    <2>1. gone \in Row
      BY <1>0 DEF Row, Absent
    <2>2. task \in Task /\ task.do = "drop"
      BY <1>0 DEF Task
    <2>3. Save(x, gone) /\ queued' = queued \cup {task}
      BY <1>10 DEF Delete
    <2>4. queued' \subseteq Task /\ TasksAreApproved'
      BY <2>1, <2>2, <2>3, SaveKeeps, QueueKeeps
    <2> QED
      BY <2>1, <2>3, <2>4, SaveKeeps DEF Inv, TypeOK
  <1> QED
    BY <1>1, <1>2, <1>3, <1>4, <1>5, <1>6, <1>7, <1>8, <1>9, <1>10 DEF Page

-----------------------------------------------------------------------------
\* The daily jobs keep the invariant.
LEMMA JobsKeep ==
    ASSUME Inv, CheckExpiring \/ CheckNewFindings
    PROVE  Inv'
  <1> USE DEF TaskOK
  <1>1. CASE CheckExpiring
    <2>1. \A x \in Exclusions : TaskOK([do |-> "expire", of |-> x])
      BY DEF Task
    <2> QED
      BY <1>1, <2>1, QueuedOnlyKeeps DEF CheckExpiring
  <1>2. CASE CheckNewFindings
    <2>1. \A x \in Exclusions :
              row[x].status = "Accepted" => TaskOK(ListingTask(x))
      BY ListingTaskType DEF Inv, AcceptedIsApproved
    <2> QED
      BY <1>2, <2>1, QueuedOnlyKeeps DEF CheckNewFindings
  <1> QED
    BY <1>1, <1>2

LEMMA DayComesKeeps ==
    ASSUME Inv, NEW x \in Exclusions, DayComes(x)
    PROVE  Inv'
  <1>1. row' \in [Exclusions -> Row]
        /\ \A y \in Exclusions : row'[y].status = row[y].status
    BY ZenonT(30) DEF DayComes, Inv, TypeOK, Row, Expiration
  <1> QED
    BY <1>1 DEF DayComes, Inv, TypeOK, AcceptedIsApproved, TasksAreApproved,
                ListedWasAccepted

-----------------------------------------------------------------------------
\* A task puts findings on a list: in the name of an approved exclusion.
LEMMA AddKeeps ==
    ASSUME Inv, NEW t, Add(t)
    PROVE  Inv'
  <1>1. /\ t \in Task /\ t.of \in approved /\ t.of \in Exclusions
        /\ t.type \in Lists
    BY DEF Add, Inv, TypeOK, TasksAreApproved, Task
  <1>2. /\ finding' \in [Findings -> Finding]
        /\ ListedWasAccepted'
    <2>1. ASSUME NEW f \in Findings
          PROVE  /\ finding'[f] \in Finding
                 /\ finding'[f].list # "none" => finding'[f].by \in approved
      <3>1. finding[f] \in Finding
            /\ (finding[f].list # "none" => finding[f].by \in approved)
        BY DEF Inv, TypeOK, ListedWasAccepted
      <3>2. CASE f \notin Selected(t)
        BY <3>1, <3>2 DEF Add
      <3>3. CASE f \in Selected(t)
        <4>1. finding'[f] =
                  [finding[f] EXCEPT
                       !.active = IF t.type = "white_list" THEN FALSE ELSE @,
                       !.list = t.type, !.by = t.of]
          BY <3>3 DEF Add
        <4> QED
          BY <1>1, <3>1, <4>1 DEF Finding
      <3> QED
        BY <3>2, <3>3
    <2>2. finding' = [f \in Findings |-> finding'[f]]
      BY DEF Add
    <2>3. approved' = approved
      BY DEF Add
    <2> QED
      BY <2>1, <2>2, <2>3 DEF ListedWasAccepted
  <1>3. /\ row' \in [Exclusions -> Row] /\ AcceptedIsApproved'
        /\ queued' \subseteq Task /\ TasksAreApproved'
    <2>0. approved' = approved
      BY DEF Add
    <2>1. CASE queued' = queued \ {t} /\ UNCHANGED row
      BY <2>0, <2>1 DEF Inv, TypeOK, AcceptedIsApproved, TasksAreApproved
    <2>2. ASSUME NEW y \in Exclusions, MailsProvider(t, y),
                 row' = [row EXCEPT ![y] = AcceptedRow(@)],
                 queued' = (queued \ {t}) \cup {WhiteListTask(y, row[y].scoped)}
          PROVE  /\ row' \in [Exclusions -> Row] /\ AcceptedIsApproved'
                 /\ queued' \subseteq Task /\ TasksAreApproved'
      <3>1. row[y] \in Row /\ row[y].scoped \in Scopes \cup {FALSE}
            /\ y \in approved
        BY <2>2 DEF Inv, TypeOK, AcceptedIsApproved, MailsProvider, Row
      <3>2. row' \in [Exclusions -> Row] /\ AcceptedIsApproved'
        BY <2>0, <2>2, <3>1, AcceptedRowType
           DEF Inv, TypeOK, AcceptedIsApproved
      <3>3. queued' \subseteq Task /\ TasksAreApproved'
        <4> DEFINE task == WhiteListTask(y, row[y].scoped)
        <4>1. task \in Task /\ task.of \in approved'
          BY <2>0, <3>1, WhiteListTaskType
        <4>2. \A u \in queued' : u \in queued \/ u = task
          BY <2>2
        <4> HIDE DEF task
        <4> QED
          BY <2>0, <4>1, <4>2, QueueKeeps DEF TaskOK
      <3> QED
        BY <3>2, <3>3
    <2> QED
      BY <2>1, <2>2 DEF Add
  <1> QED
    BY <1>2, <1>3 DEF Add, Inv, TypeOK

\* What a task reads is typed as what it read it from.
LEMMA ReadingType ==
    ASSUME TypeOK, NEW t \in Task
    PROVE  /\ Reading(t).exclusion \subseteq Row
           /\ \A f \in DOMAIN Reading(t).active :
                  Reading(t).active[f] \in BOOLEAN
  <1>1. t.of \in Exclusions
    BY DEF Task
  <1>2. {row[t.of]} \subseteq Row
    BY <1>1 DEF TypeOK
  <1>3. \A f : Activity(t, f) \in BOOLEAN
    <2>1. ASSUME NEW f
          PROVE  Activity(t, f) \in BOOLEAN
      BY Zenon DEF Activity
    <2> QED
      BY <2>1
  <1> QED
    BY <1>2, <1>3 DEF Reading

LEMMA TakeKeeps ==
    ASSUME Inv, NEW t, Take(t)
    PROVE  Inv'
  <1>1. t \in Task /\ queued' = queued \ {t}
        /\ UNCHANGED <<row, finding, failures, approved>>
    BY DEF Take, Inv, TypeOK
  <1>2. /\ DOMAIN running' \subseteq Task
        /\ \A u \in DOMAIN running' :
               /\ running'[u].exclusion \subseteq Row
               /\ \A f \in DOMAIN running'[u].active :
                      running'[u].active[f] \in BOOLEAN
    <2>1. CASE UNCHANGED running
      BY <2>1 DEF Inv, TypeOK
    <2>2. CASE running' = [u \in DOMAIN running \cup {t} |->
                               IF u = t THEN Reading(t) ELSE running[u]]
      <3>1. DOMAIN running' = DOMAIN running \cup {t}
        BY <2>2
      <3>2. running'[t] = Reading(t)
        BY <2>2
      <3>3. \A u \in DOMAIN running : u # t => running'[u] = running[u]
        BY <2>2
      <3> QED
        BY <1>1, <3>1, <3>2, <3>3, ReadingType DEF Inv, TypeOK
    <2> QED
      BY <2>1, <2>2 DEF Take
  <1> QED
    BY <1>1, <1>2 DEF Inv, TypeOK, AcceptedIsApproved, TasksAreApproved,
                      ListedWasAccepted

\* A task that ends leaves what the others have read.
LEMMA EndedKeeps ==
    ASSUME TypeOK, NEW t, running' = Ended(t)
    PROVE  /\ DOMAIN running' \subseteq Task
           /\ \A u \in DOMAIN running' :
                  /\ running'[u].exclusion \subseteq Row
                  /\ \A f \in DOMAIN running'[u].active :
                         running'[u].active[f] \in BOOLEAN
  <1>1. DOMAIN running' = DOMAIN running \ {t}
        /\ \A u \in DOMAIN running' : running'[u] = running[u]
    BY DEF Ended
  <1> QED
    BY <1>1 DEF TypeOK

\* Findings taken off their list are on none.
LEMMA UnlistKeeps ==
    ASSUME Inv, NEW t \in DOMAIN running, Unlist(t), UNCHANGED approved
    PROVE  finding' \in [Findings -> Finding] /\ ListedWasAccepted'
  <1> DEFINE active == running[t].active
  <1>1. \A f \in DOMAIN active : active[f] \in BOOLEAN
    BY DEF Inv, TypeOK
  <1>2. ASSUME NEW f \in Findings
        PROVE  /\ finding'[f] \in Finding
               /\ finding'[f].list # "none" => finding'[f].by \in approved
    <2>1. finding[f] \in Finding
          /\ (finding[f].list # "none" => finding[f].by \in approved)
      BY DEF Inv, TypeOK, ListedWasAccepted
    <2>2. CASE f \notin DOMAIN active
      BY <2>1, <2>2 DEF Unlist
    <2>3. CASE f \in DOMAIN active
      <3>1. finding'[f] = [finding[f] EXCEPT !.active = active[f],
                                             !.list = "none", !.by = "none"]
        BY <2>3 DEF Unlist
      <3>2. active[f] \in BOOLEAN
        BY <1>1, <2>3
      <3> HIDE DEF active
      <3> QED
        BY <2>1, <3>1, <3>2 DEF Finding
    <2> QED
      BY <2>2, <2>3
  <1>3. finding' = [f \in Findings |-> finding'[f]]
    BY DEF Unlist
  <1> QED
    BY <1>2, <1>3 DEF ListedWasAccepted

LEMMA FinishKeeps ==
    ASSUME Inv, NEW t, FinishDrop(t) \/ FinishExpire(t)
    PROVE  Inv'
  <1>1. /\ t \in DOMAIN running /\ Unlist(t) /\ running' = Ended(t)
        /\ UNCHANGED <<queued, failures, approved>>
    BY DEF FinishDrop, FinishExpire
  <1>2. finding' \in [Findings -> Finding] /\ ListedWasAccepted'
    BY <1>1, UnlistKeeps
  <1>3. row' \in [Exclusions -> Row] /\ AcceptedIsApproved'
    <2>1. CASE FinishDrop(t)
      BY <2>1 DEF FinishDrop, Inv, TypeOK, AcceptedIsApproved
    <2>2. CASE FinishExpire(t)
      <3>1. PICK x \in running[t].exclusion :
                row' = [row EXCEPT ![t.of] = [x EXCEPT !.status = "Expired"]]
        BY <2>2 DEF FinishExpire
      <3>2. x \in Row
        BY <1>1, <3>1 DEF Inv, TypeOK
      <3>3. /\ [x EXCEPT !.status = "Expired"] \in Row
            /\ [x EXCEPT !.status = "Expired"].status # "Accepted"
        BY <3>2 DEF Row, Status
      <3> QED
        BY <1>1, <3>1, <3>3 DEF Inv, TypeOK, AcceptedIsApproved
    <2> QED
      BY <2>1, <2>2
  <1> QED
    BY <1>1, <1>2, <1>3, EndedKeeps DEF Inv, TypeOK, TasksAreApproved

LEMMA FailKeeps ==
    ASSUME Inv, NEW t, Fail(t)
    PROVE  Inv'
  <1>1. /\ failures' \in 0 .. MaxFailures /\ queued' \subseteq queued
        /\ UNCHANGED <<row, finding, approved>>
    BY FailuresAssumption DEF Fail, Inv, TypeOK
  <1>2. running' = running \/ running' = Ended(t)
    BY DEF Fail
  <1> QED
    BY <1>1, <1>2, EndedKeeps
       DEF Inv, TypeOK, AcceptedIsApproved, TasksAreApproved, ListedWasAccepted

-----------------------------------------------------------------------------
\* A finding changes, but not its list.
LEMMA FindingKeeps ==
    ASSUME Inv, NEW f \in Findings,
           Mitigate(f) \/ Report(f) \/ ReopenFinding(f)
    PROVE  Inv'
  <1>1. PICK a \in BOOLEAN, m \in BOOLEAN :
            finding' = [finding EXCEPT ![f] =
                [active |-> a, is_mitigated |-> m, list |-> finding[f].list,
                 by |-> finding[f].by]]
    <2>1. (finding[f].list # "white_list") \in BOOLEAN
      OBVIOUS
    <2> QED
      BY <2>1 DEF Mitigate, Report, ReopenFinding, Becomes
  <1>2. finding' \in [Findings -> Finding] /\ ListedWasAccepted'
    BY <1>1 DEF Inv, TypeOK, ListedWasAccepted, Finding, Mitigate, Report,
                ReopenFinding
  <1> QED
    BY <1>2 DEF Inv, TypeOK, AcceptedIsApproved, TasksAreApproved, Mitigate,
                Report, ReopenFinding

-----------------------------------------------------------------------------
LEMMA Initially == Init => Inv
  BY FailuresAssumption
     DEF Init, Inv, TypeOK, AcceptedIsApproved, TasksAreApproved,
         ListedWasAccepted, Row, Finding, Lists, Absent, Expiration

LEMMA Inductive == Inv /\ [Next]_vars => Inv'
  <1> SUFFICES ASSUME Inv, [Next]_vars PROVE Inv'
    OBVIOUS
  <1>1. CASE UNCHANGED vars
    BY <1>1 DEF vars, Inv, TypeOK, AcceptedIsApproved, TasksAreApproved,
                ListedWasAccepted
  <1>2. CASE Next
    <2>1. ASSUME NEW x \in Exclusions, Page(x) \/ DayComes(x) PROVE Inv'
      BY <2>1, PageKeeps, DayComesKeeps
    <2>2. CASE CheckExpiring \/ CheckNewFindings
      BY <2>2, JobsKeep
    <2>3. ASSUME NEW t, Run(t) \/ Fail(t) PROVE Inv'
      BY <2>3, AddKeeps, TakeKeeps, FinishKeeps, FailKeeps DEF Run
    <2>4. ASSUME NEW f \in Findings,
                 Mitigate(f) \/ Report(f) \/ ReopenFinding(f)
          PROVE  Inv'
      BY <2>4, FindingKeeps
    <2> QED
      BY <1>2, <2>1, <2>2, <2>3, <2>4 DEF Next
  <1> QED
    BY <1>1, <1>2

\* Every reachable state is well typed: rows, findings, tasks that wait and
\* what the tasks that run have read.
THEOREM ExclusionTyping == Spec => []TypeOK
  <1>1. Inv => TypeOK
    BY DEF Inv
  <1> QED
    BY <1>1, Initially, Inductive, PTL DEF Spec

\* No finding is on a list but by an exclusion that was accepted, whatever
\* buttons stale pages offer, and however late a task runs.
THEOREM Approval == Spec => []ListedWasAccepted
  <1>1. Inv => ListedWasAccepted
    BY DEF Inv
  <1> QED
    BY <1>1, Initially, Inductive, PTL DEF Spec
=============================================================================
