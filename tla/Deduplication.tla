--------------------------- MODULE Deduplication ---------------------------
(***************************************************************************)
(* Findings of one product with the same hash code: which of them is a     *)
(* duplicate of which.  Workers deduplicate what was saved, each with the  *)
(* rows that it has read (do_dedupe_finding, set_duplicate), while people  *)
(* mark duplicates and originals by hand, close, reopen and delete         *)
(* findings.  A finding is its id, and ids are given out in order.         *)
(***************************************************************************)
EXTENDS DuplicateLoops

CONSTANTS
    MaxId,      \* bound on the findings that are ever imported
    MaxActs,    \* bound on what people do to them
    Workers     \* Celery workers

ASSUME BoundsAssumption == MaxId \in Nat /\ MaxActs \in Nat

VARIABLES
    finding,    \* rows of Finding, by id
    imported,   \* the last id that was given out
    acts,       \* how often people did something
    queue,      \* findings whose post_process_finding_save is queued
    worker,     \* what each worker is at
    overlap     \* a worker was at work when another began, or a person acted

vars == <<finding, imported, acts, queue, worker, overlap>>

Id == 1 .. MaxId

-----------------------------------------------------------------------------
Row(duplicate, original, active, mitigated) ==
    [duplicate |-> duplicate, original |-> original, active |-> active,
     is_mitigated |-> mitigated]

\* What the signal before a save makes of a row whose status changes.
Save(r) ==
    IF r.duplicate THEN r ELSE Row(FALSE, None, r.active, r.is_mitigated)

\* finding_mitigated
Mitigated(r) == ~r.active /\ r.is_mitigated

Graph == [f \in DOMAIN finding |-> finding[f].original]
Duplicates(f) == Originals(Graph, f)

Idle == [task |-> None]

Init ==
    /\ finding = <<>>
    /\ imported = 0
    /\ acts = 0
    /\ queue = {}
    /\ worker = [w \in Workers |-> Idle]
    /\ overlap = FALSE

Free(w) == worker[w].task = None
Quiet == \A w \in Workers : Free(w)

Put(f, r) ==
    finding' = [g \in DOMAIN finding \cup {f} |-> IF g = f THEN r ELSE finding[g]]

-----------------------------------------------------------------------------
(***************************************************************************)
(* The importers, and the pages that open and close findings.              *)
(***************************************************************************)
Import ==
    /\ imported < MaxId
    /\ imported' = imported + 1
    /\ Put(imported', Row(FALSE, None, TRUE, FALSE))
    /\ queue' = queue \cup {imported'}
    /\ UNCHANGED <<worker, overlap>>

\* mitigate_finding
Mitigate(f) ==
    /\ finding[f].active
    /\ Put(f, Row(finding[f].duplicate, finding[f].original, FALSE, TRUE))
    /\ UNCHANGED <<imported, queue, worker>>

\* close_finding, with the box "Duplicate" of its form left as it is
Close(f) ==
    /\ finding[f].active
    /\ Put(f, Row(FALSE, None, FALSE, TRUE))
    /\ queue' = queue \cup {f}
    /\ UNCHANGED <<imported, worker>>

\* reopen_finding
Reopen(f) ==
    /\ Mitigated(finding[f])
    /\ Put(f, Save(Row(finding[f].duplicate, finding[f].original, TRUE, FALSE)))
    /\ UNCHANGED <<imported, queue, worker>>

-----------------------------------------------------------------------------
(***************************************************************************)
(* A worker: reads the finding and its candidates, chooses an original,    *)
(* reads the duplicates that the finding has, makes each of them a         *)
(* duplicate of the new original, then saves the finding, and then the     *)
(* original as it had read it.                                             *)
(***************************************************************************)
\* The candidates that set_duplicate accepts: not one that is mitigated, but
\* for a finding that is mitigated and not yet a duplicate.
Acceptable(row, rows) ==
    {g \in DOMAIN rows : Mitigated(rows[g]) => Mitigated(row) /\ ~row.duplicate}

\* A worker at a step of set_duplicate, and the calls that it is in.
At(task, target, rows, step, stack) ==
    [task |-> task, target |-> target, rows |-> rows, step |-> step, stack |-> stack]
Frame(id, row, left) == [id |-> id, row |-> row, left |-> left]

\* set_duplicate(f, target), up to the duplicates of f
Attached(row, target) == Row(TRUE, target, FALSE, row.is_mitigated)

Lowest(S) == {g \in S : \A h \in S : g <= h}
Highest(S) == {g \in S : \A h \in S : h <= g}

\* Goes on to the first candidate that is accepted, or gives up.
Chosen(f, row, rows) ==
    IF Acceptable(row, rows) = {} THEN {Idle}
    ELSE {At(f, target, rows, "read", <<Frame(f, Attached(row, target), <<>>)>>)
              : target \in Lowest(Acceptable(row, rows))}

\* Mutant: only those that came after the finding.
CandidatesAfter(f) == {g \in DOMAIN finding : g > f /\ ~finding[g].duplicate}

Candidates(f) == {g \in DOMAIN finding : g # f /\ ~finding[g].duplicate}

Load(w, f) ==
    /\ Free(w) /\ f \in queue
    /\ queue' = queue \ {f}
    /\ \E next \in Chosen(f, finding[f], Restrict(finding, Candidates(f))) :
           worker' = [worker EXCEPT ![w] = next]
    /\ overlap' = (overlap \/ ~Quiet)
    /\ UNCHANGED <<finding, imported>>

Busy(w, step) == ~Free(w) /\ worker[w].step = step
Top(w) == worker[w].stack[Len(worker[w].stack)]
Goes(w, step, stack) ==
    At(worker[w].task, worker[w].target, worker[w].rows, step, stack)
Below(w) == SubSeq(worker[w].stack, 1, Len(worker[w].stack) - 1)

\* Mutant: the duplicates that the finding has are not looked for.
ReadNothing(w) ==
    /\ Busy(w, "read")
    /\ worker' = [worker EXCEPT ![w] =
           Goes(w, "flatten", Append(Below(w), Frame(Top(w).id, Top(w).row, <<>>)))]
    /\ UNCHANGED <<finding, imported, queue, overlap>>

\* new_finding.original_finding.all()
Read(w) ==
    /\ Busy(w, "read")
    /\ LET read == Restrict(finding, Duplicates(Top(w).id))
           frame == Frame(Top(w).id, Top(w).row, read)
       IN  worker' = [worker EXCEPT ![w] = Goes(w, "flatten", Append(Below(w), frame))]
    /\ UNCHANGED <<finding, imported, queue, overlap>>

\* set_duplicate refuses f: because of its status, or it is the target itself.
\* The error ends all of it, and the next candidate is tried.
Refused(w, f) ==
    f = worker[w].target \/ Mitigated(worker[w].rows[worker[w].target])

Removed(r) == Row(r.duplicate, None, r.active, r.is_mitigated)
Without(g, x) == Restrict(g, DOMAIN g \ {x})

\* The last duplicate leaves the finding, and set_duplicate is called for it.
Flatten(w, f) ==
    /\ Busy(w, "flatten")
    /\ f \in Highest(DOMAIN Top(w).left)
    /\ IF f \in Duplicates(Top(w).id)
       THEN Put(f, Removed(finding[f]))
       ELSE UNCHANGED finding
    /\ LET at == worker[w]
           later == {h \in DOMAIN at.rows : h > at.target}
           kid == Frame(f, Attached(Top(w).left[f], at.target), <<>>)
           rest == Frame(Top(w).id, Top(w).row, Without(Top(w).left, f))
       IN  \/ /\ Refused(w, f)
              /\ \E next \in Chosen(at.task, at.stack[1].row, Restrict(at.rows, later)) :
                     worker' = [worker EXCEPT ![w] = next]
           \/ /\ ~Refused(w, f)
              /\ worker' = [worker EXCEPT ![w] =
                     Goes(w, "read", Append(Append(Below(w), rest), kid))]
    /\ UNCHANGED <<imported, queue, overlap>>

SaveNew(w) ==
    /\ Busy(w, "flatten") /\ DOMAIN Top(w).left = {}
    /\ Put(Top(w).id, Top(w).row)
    /\ worker' = [worker EXCEPT ![w] = Goes(w, "saved", worker[w].stack)]
    /\ UNCHANGED <<imported, queue, overlap>>

SaveExisting(w) ==
    /\ Busy(w, "saved")
    /\ Put(worker[w].target, worker[w].rows[worker[w].target])
    /\ worker' = [worker EXCEPT ![w] =
           IF Below(w) = <<>> THEN Idle ELSE Goes(w, "flatten", Below(w))]
    /\ UNCHANGED <<imported, queue, overlap>>

WorkerStep(w) ==
    \/ Read(w) \/ SaveNew(w) \/ SaveExisting(w)
    \/ \E f \in Id : Flatten(w, f)

-----------------------------------------------------------------------------
(***************************************************************************)
(* The buttons next to a finding that is similar to that of the page       *)
(* (calculate_possible_related_actions_for_similar_finding).               *)
(***************************************************************************)
\* Mutant: buttons next to the roots of clusters too.
ShownAlways(f, similar) ==
    f # similar

Shown(f, similar) ==
    /\ f # similar
    /\ finding[f].original # similar
    /\ Duplicates(similar) = {}

SameCluster(f, similar) ==
    finding[similar].original \in {f, finding[f].original} \ {None}

MarkDuplicate(f, similar) ==
    /\ Shown(f, similar) /\ ~SameCluster(f, similar)
    /\ LET original == IF finding[f].duplicate THEN finding[f].original ELSE f
       IN  /\ original # None
           /\ Put(similar, Row(TRUE, original, FALSE, finding[similar].is_mitigated))
    /\ UNCHANGED <<imported, queue, worker>>

ResetDuplicate(f) ==
    /\ finding[f].duplicate
    /\ Put(f, Row(FALSE, None, TRUE, finding[f].active /\ finding[f].is_mitigated))
    /\ UNCHANGED <<imported, queue, worker>>

\* duplicate_finding_set, once the old original points to the new one
Members(f) ==
    IF ~finding[f].duplicate THEN Duplicates(f)
    ELSE IF finding[f].original = None THEN {}
    ELSE Duplicates(finding[f].original) \cup {finding[f].original}

\* set_finding_as_original_internal: in a cluster, active stays as it is
SetOriginal(f, similar) ==
    /\ Shown(f, similar)
    /\ finding[similar].original # None => SameCluster(f, similar)
    /\ LET clustered == finding[f].duplicate \/ Duplicates(f) # {}
       IN  finding' = [g \in DOMAIN finding |->
               CASE g = similar ->
                       Row(FALSE, None, finding[g].active, finding[g].is_mitigated)
                 [] g = f /\ ~clustered ->
                       Row(TRUE, similar, FALSE, finding[g].is_mitigated)
                 [] g # similar /\ clustered /\ g \in Members(f) \cup {f} ->
                       Row(finding[g].duplicate \/ g \in {f, finding[f].original},
                           similar, finding[g].active, finding[g].is_mitigated)
                 [] OTHER -> finding[g]]
    /\ UNCHANGED <<imported, queue, worker>>

-----------------------------------------------------------------------------
(***************************************************************************)
(* Deletion and repair, taken to happen while no worker is busy.           *)
(***************************************************************************)
\* finding_delete, reconfigure_duplicate_cluster: the first duplicate is the
\* new original, with the status of the old one.
Delete(f) ==
    /\ Quiet
    /\ \/ /\ Duplicates(f) = {}
          /\ finding' = Without(finding, f)
       \/ \E heir \in Lowest(Duplicates(f)) :
             finding' = [g \in DOMAIN finding \ {f} |->
                 CASE g = heir ->
                        Row(FALSE, None, finding[f].active, finding[f].is_mitigated)
                   [] g # heir /\ g \in Duplicates(f) /\ finding[g].duplicate ->
                        Row(TRUE, heir, finding[g].active, finding[g].is_mitigated)
                   [] OTHER -> finding[g]]
    /\ queue' = queue \ {f}
    /\ UNCHANGED <<imported, worker>>

\* fix_loop_duplicates
FixLoops ==
    /\ Quiet
    /\ Chained(Graph) # {}
    /\ LET original == Repaired(Graph)
       IN  finding' = [f \in DOMAIN finding |->
               Row(finding[f].duplicate /\ original[f] # None, original[f],
                   finding[f].active, finding[f].is_mitigated)]
    /\ UNCHANGED <<imported, queue, worker, overlap>>

-----------------------------------------------------------------------------
PageStep ==
    /\ acts < MaxActs /\ acts' = acts + 1
    /\ overlap' = (overlap \/ ~Quiet)
    /\ \/ \E f \in DOMAIN finding :
             Mitigate(f) \/ Close(f) \/ Reopen(f) \/ ResetDuplicate(f) \/ Delete(f)
       \/ \E f, similar \in DOMAIN finding :
             MarkDuplicate(f, similar) \/ SetOriginal(f, similar)

Next ==
    \/ PageStep
    \/ /\ UNCHANGED acts
       /\ \/ Import \/ FixLoops
          \/ \E w \in Workers, f \in DOMAIN finding : Load(w, f)
          \/ \E w \in Workers : WorkerStep(w)

Spec == Init /\ [][Next]_vars

-----------------------------------------------------------------------------
\* While workers and people keep out of each other's way, a duplicate points to
\* a finding that is there and is no duplicate: set_duplicate, the buttons of
\* the pages and deletions keep clusters flat, in any order.
AloneIsSound ==
    ~overlap =>
        \A f \in DOMAIN finding :
            finding[f].original # None =>
                /\ finding[f].duplicate
                /\ finding[f].original \in DOMAIN finding
                /\ ~finding[finding[f].original].duplicate

\* When they do not, clusters may be chained, but once all have finished no
\* finding is a duplicate of itself, directly or through others: a worker that
\* saves its finding as a duplicate of another then saves the other as it was.
NoLoopRemains ==
    Quiet => \A S \in (SUBSET DOMAIN finding) \ {{}} :
                 \E f \in S : finding[f].original \notin S

\* What a run of fix_loop_duplicates is for: it leaves every duplicate with the
\* finding at the end of its chain, and that one with no original.
Flattened ==
    LET Root[f \in DOMAIN finding] == IF Graph[f] = None THEN f ELSE Root[Graph[f]]
    IN  \A f \in DOMAIN finding :
            Repaired(Graph)[f] = IF Root[f] = f THEN None ELSE Root[f]

\* Up to four findings that the workers have chained are repaired by one run of
\* fix_loop_duplicates: each becomes a duplicate of the one at the end of its
\* chain.  For five this is not so: with 2 -> 4 -> 1 and 3 -> 5 -> 4, and 2
\* before 5, the rows that removeLoop saves as it has read them make 2 an
\* original of its own.
FixFlattens == Quiet /\ Cardinality(DOMAIN finding) <= 4 => Flattened

\* Findings with the same hash code that nobody touches: when the queue has
\* been worked off, one of them is the original and all others are duplicates,
\* if no two workers were at it at the same time.
OneOriginal ==
    Quiet /\ queue = {} /\ acts = 0 /\ ~overlap =>
        \A f, g \in DOMAIN finding :
            f = g \/ finding[f].duplicate \/ finding[g].duplicate
=============================================================================
