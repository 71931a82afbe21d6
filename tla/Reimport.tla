------------------------------ MODULE Reimport ------------------------------
(***************************************************************************)
(* Reports of a scanner that are imported again into one test: what        *)
(* DefaultReImporter makes of the findings that a report mentions, and of  *)
(* those that it does not.  A run reads all findings of the test at its    *)
(* start, looks for the finding of each item when its turn comes, saves    *)
(* the row of that finding when it is done with the item, and closes at    *)
(* the end what the report has left out.  Meanwhile other runs do the      *)
(* same, and people triage.  A finding is its id.                          *)
(***************************************************************************)
EXTENDS Naturals, Sequences, FiniteSetsExt, Functions

CONSTANTS
    Keys,       \* hash codes
    Runs,       \* requests that import a report at the same time
    Options,    \* what the forms of these requests say
    Reports,    \* the items of the reports
    MaxId,      \* bound on the findings that are ever created
    MaxRuns,    \* bound on the reports that are ever imported
    MaxActs     \* bound on what people do

Item == [key : Keys, status : {"open", "mitigated", "false positive"}]

Option == [close_old_findings : BOOLEAN, do_not_reactivate : BOOLEAN,
           active : {"as reported", "active", "inactive"}]

ASSUME ReportsAssumption == Reports \subseteq Seq(Item)
ASSUME OptionsAssumption == Options \subseteq Option
ASSUME BoundsAssumption == MaxId \in Nat /\ MaxRuns \in Nat /\ MaxActs \in Nat

VARIABLES
    finding,    \* rows of the findings of the test, by id
    created,    \* the last id that was given out
    begun,      \* how many reports were imported
    acts,       \* how often people did something
    run,        \* what each request is at
    overlap     \* an import began while another was at work

vars == <<finding, created, begun, acts, run, overlap>>

-----------------------------------------------------------------------------
Id == 1 .. MaxId

\* hidden: risk_status is "On Whitelist" or "Transfer Accepted".
Finding == [key : Keys, active : BOOLEAN, is_mitigated : BOOLEAN, false_p : BOOLEAN,
            risk_accepted : BOOLEAN, hidden : BOOLEAN]
Rows == UNION {[S -> Finding] : S \in SUBSET Id}

Row(key, active, mitigated, false_p) ==
    [key |-> key, active |-> active, is_mitigated |-> mitigated,
     false_p |-> false_p, risk_accepted |-> FALSE, hidden |-> FALSE]

Idle == [step |-> "idle"]
Busy(r, step) == run[r].step = step

Init ==
    /\ finding = <<>>
    /\ created = 0
    /\ begun = 0
    /\ acts = 0
    /\ run = [r \in Runs |-> Idle]
    /\ overlap = FALSE

\* Mutant: the signal leaves the marks of a closed finding as they are.
SavedAsGiven(old, new) == new

\* The signal before a save: old is the row as it was loaded.
Saved(old, new) ==
    IF new.active /\ ~old.active
    THEN [new EXCEPT !.false_p = FALSE, !.is_mitigated = FALSE]
    ELSE IF new.false_p /\ ~old.false_p
    THEN [new EXCEPT !.active = FALSE, !.is_mitigated = TRUE]
    ELSE new

Put(f, row) ==
    finding' = [g \in DOMAIN finding \cup {f} |-> IF g = f THEN row ELSE finding[g]]

-----------------------------------------------------------------------------
(***************************************************************************)
(* A run.                                                                  *)
(***************************************************************************)
Start(r) ==
    /\ Busy(r, "idle")
    /\ begun < MaxRuns /\ begun' = begun + 1
    /\ LET alone == \A s \in Runs : Busy(s, "idle")
       IN  /\ \E report \in Reports, options \in Options :
                 run' = [s \in Runs |->
                     CASE s = r -> [step |-> "match", report |-> report, next |-> 1,
                                    options |-> options, original |-> finding,
                                    kept |-> {}, alone |-> alone]
                       [] s # r /\ ~Busy(s, "idle") -> [run[s] EXCEPT !.alone = FALSE]
                       [] OTHER -> run[s]]
           /\ overlap' = (overlap \/ ~alone)
    /\ UNCHANGED <<finding, created, acts>>

Reading(r) == Busy(r, "match") /\ run[r].next <= Len(run[r].report)
Current(r) == run[r].report[run[r].next]

\* Mutant: an item is looked for among the findings read at the start.
MatchesRead(r, key) ==
    {f \in DOMAIN run[r].original \cap DOMAIN finding : finding[f].key = key}

\* match_new_finding_to_existing_finding, by hash code
Matches(r, key) == {f \in DOMAIN finding : finding[f].key = key}

\* The oldest match, if there is one.
First(r) ==
    {f \in DOMAIN finding :
        /\ Reading(r) /\ f \in Matches(r, Current(r).key)
        /\ \A g \in Matches(r, Current(r).key) : f <= g}

\* The run goes on to save this row for its item.
Holding(r, f, row, kept) ==
    run' = [run EXCEPT ![r] = [step |-> "save", report |-> @.report, next |-> @.next,
        options |-> @.options, original |-> @.original, kept |-> kept,
        alone |-> @.alone, id |-> f, row |-> row]]

\* The run goes on to the next item.
Advance(r, kept) ==
    run' = [run EXCEPT ![r] = [step |-> "match", report |-> @.report,
        next |-> @.next + 1, options |-> @.options, original |-> @.original,
        kept |-> kept, alone |-> @.alone]]

\* process_finding_that_was_not_matched
Created(item, options) ==
    LET active == \/ options.active = "active"
                  \/ options.active = "as reported" /\ item.status = "open"
    IN  Row(item.key, active, ~active /\ item.status # "open",
            ~active /\ item.status = "false positive")

\* No match: the item will be a new finding, whatever others do meanwhile.
Miss(r) ==
    /\ Reading(r) /\ Matches(r, Current(r).key) = {}
    /\ run' = [run EXCEPT ![r].step = "create"]
    /\ UNCHANGED <<finding, created, begun, acts, overlap>>

Create(r) ==
    /\ Busy(r, "create")
    /\ created < MaxId /\ created' = created + 1
    /\ LET row == Created(Current(r), run[r].options)
       IN  Put(created', row) /\ Holding(r, created', row, run[r].kept)
    /\ UNCHANGED <<begun, acts, overlap>>

Special(row) == row.false_p \/ row.risk_accepted

\* Skipped at once, and taken to be unchanged ...
Agrees(row, item) ==
    \/ row.false_p /\ ~row.risk_accepted /\ item.status = "false positive"
    \/ ~Special(row) /\ row.is_mitigated /\ item.status = "mitigated"

\* ... or not: it was closed already, and the closing will find it so.
Declined(row, item, options) ==
    /\ ~Special(row) /\ row.is_mitigated /\ item.status # "mitigated"
    /\ options.do_not_reactivate

Skip(r, f) ==
    LET row == finding[f]
        item == Current(r)
    IN  /\ \/ Agrees(row, item) /\ Advance(r, run[r].kept \cup {f})
           \/ Declined(row, item, run[r].options) /\ Advance(r, run[r].kept)
        /\ UNCHANGED <<finding, created, begun, acts, overlap>>

\* Accepted and closed, but reported as open.
Uncloses(row, item) ==
    row.risk_accepted /\ row.is_mitigated /\ item.status # "mitigated"

Reactivates(row) == ~Special(row) /\ row.is_mitigated

SavedAtOnce(row, item) ==
    \/ Uncloses(row, item)
    \/ Reactivates(row) /\ ~row.hidden

\* What becomes of the row in memory.
Processed(row, item) ==
    CASE Uncloses(row, item) -> [row EXCEPT !.is_mitigated = FALSE]
      [] Special(row) /\ ~Uncloses(row, item) -> row
      [] Reactivates(row) -> [row EXCEPT !.active = ~row.hidden, !.is_mitigated = FALSE]
      [] OTHER ->
           CASE item.status = "mitigated" ->
                  [row EXCEPT !.active = FALSE, !.is_mitigated = TRUE]
             [] item.status = "false positive" ->
                  Saved(row, [row EXCEPT !.active = FALSE, !.false_p = TRUE])
             [] item.status = "open" -> row

\* Mutant: a finding that is open and reported is not noted down.
KeptIfChanged(row, item) ==
    \/ Uncloses(row, item) \/ Reactivates(row)
    \/ row.risk_accepted /\ ~row.active

\* Noted down as unchanged or reactivated.
Kept(row, item) ==
    \/ Uncloses(row, item) \/ Reactivates(row)
    \/ row.risk_accepted /\ ~row.active
    \/ ~Special(row) /\ ~row.is_mitigated /\ item.status = "open"

\* process_matched_finding
Match(r, f) ==
    LET row == finding[f]
        item == Current(r)
        new == Processed(row, item)
    IN  /\ ~Agrees(row, item) /\ ~Declined(row, item, run[r].options)
        /\ IF SavedAtOnce(row, item)
           THEN Put(f, new)
           ELSE UNCHANGED finding
        /\ Holding(r, f, new,
               IF Kept(row, item) THEN run[r].kept \cup {f} ELSE run[r].kept)
        /\ UNCHANGED <<created, begun, acts, overlap>>

Fails(r) == run' = [run EXCEPT ![r] = Idle]

\* finding_post_processing and the save after it; without its row, an error.
Save(r) ==
    /\ Busy(r, "save")
    /\ \/ /\ run[r].id \in DOMAIN finding
          /\ Put(run[r].id, run[r].row)
          /\ Advance(r, run[r].kept)
       \/ /\ run[r].id \notin DOMAIN finding
          /\ Fails(r)
          /\ UNCHANGED finding
    /\ UNCHANGED <<created, begun, acts, overlap>>

\* to_mitigate
Settle(r) ==
    /\ Busy(r, "match") /\ ~Reading(r)
    /\ LET left == IF run[r].options.close_old_findings
                   THEN DOMAIN run[r].original \ run[r].kept ELSE {}
       IN  run' = [run EXCEPT ![r] = [step |-> "close", report |-> @.report,
               options |-> @.options, original |-> @.original, left |-> left,
               alone |-> @.alone]]
    /\ UNCHANGED <<finding, created, begun, acts, overlap>>

\* Mutant: the closing works with the row that was read at the start.
RefreshedNot(r, f) == run[r].original[f]

\* refresh_from_db(fields=...)
Refreshed(r, f) ==
    [run[r].original[f] EXCEPT !.false_p = finding[f].false_p,
                               !.risk_accepted = finding[f].risk_accepted]

\* close_old_findings, one finding; one that was deleted is an error.
CloseOld(r, f) ==
    /\ Busy(r, "close") /\ f \in run[r].left
    /\ \/ /\ f \in DOMAIN finding
          /\ IF run[r].original[f].is_mitigated THEN UNCHANGED finding
             ELSE Put(f, [Refreshed(r, f) EXCEPT !.active = FALSE,
                                                 !.is_mitigated = TRUE])
          /\ run' = [run EXCEPT ![r].left = @ \ {f}]
       \/ /\ f \notin DOMAIN finding
          /\ Fails(r)
          /\ UNCHANGED finding
    /\ UNCHANGED <<created, begun, acts, overlap>>

End(r) ==
    /\ Busy(r, "close") /\ run[r].left = {}
    /\ run' = [run EXCEPT ![r] = Idle]
    /\ UNCHANGED <<finding, created, begun, acts, overlap>>

RunStep(r) ==
    \/ Start(r) \/ Miss(r) \/ Create(r) \/ Save(r) \/ Settle(r) \/ End(r)
    \/ \E f \in First(r) : Skip(r, f) \/ Match(r, f)
    \/ \E f \in Id : CloseOld(r, f)

-----------------------------------------------------------------------------
(***************************************************************************)
(* People, each with one request on one finding.                           *)
(***************************************************************************)
\* close_finding, with the box "False Positive" of its form
Close(f, false_p) ==
    /\ finding[f].active
    /\ Put(f, [finding[f] EXCEPT !.active = FALSE, !.is_mitigated = TRUE,
                                 !.false_p = false_p])

\* reopen_finding
Reopen(f) ==
    /\ finding[f].is_mitigated
    /\ Put(f, Saved(finding[f], [finding[f] EXCEPT !.active = TRUE,
                  !.is_mitigated = FALSE, !.risk_accepted = FALSE]))

\* finding_bulk_update_all: "False Positive" and nothing else
MarkFalsePositive(f) ==
    /\ ~finding[f].false_p
    /\ Put(f, Saved(finding[f], [finding[f] EXCEPT !.active = FALSE,
                  !.is_mitigated = FALSE, !.false_p = TRUE]))

\* add_findings_to_risk_acceptance
Accept(f) ==
    /\ finding[f].active
    /\ Put(f, [finding[f] EXCEPT !.active = FALSE, !.risk_accepted = TRUE])

\* remove_finding_from_risk_acceptance
Release(f) ==
    /\ finding[f].risk_accepted
    /\ Put(f, Saved(finding[f], [finding[f] EXCEPT !.active = TRUE,
                  !.risk_accepted = FALSE]))

\* add_findings_to_whitelist
Hide(f) ==
    /\ finding[f].active /\ ~finding[f].hidden
    /\ Put(f, [finding[f] EXCEPT !.active = FALSE, !.hidden = TRUE])

Delete(f) == finding' = Restrict(finding, DOMAIN finding \ {f})

Act ==
    /\ acts < MaxActs /\ acts' = acts + 1
    /\ \E f \in DOMAIN finding :
          \/ \E false_p \in BOOLEAN : Close(f, false_p)
          \/ Reopen(f) \/ MarkFalsePositive(f) \/ Accept(f) \/ Release(f)
          \/ Hide(f) \/ Delete(f)
    /\ run' = [r \in Runs |->
           IF Busy(r, "idle") THEN Idle ELSE [run[r] EXCEPT !.alone = FALSE]]
    /\ UNCHANGED <<created, begun, overlap>>

Next == Act \/ \E r \in Runs : RunStep(r)

Spec == Init /\ [][Next]_vars

-----------------------------------------------------------------------------
\* What a run is at; the row that it holds is not saved yet.
Run ==
    {Idle}
    \cup [step : {"match", "create"}, report : Reports, next : Nat \ {0},
          options : Options, original : Rows, kept : SUBSET Id, alone : BOOLEAN]
    \cup [step : {"save"}, report : Reports, next : Nat \ {0},
          options : Options, original : Rows, kept : SUBSET Id, alone : BOOLEAN,
          id : Id, row : Finding]
    \cup [step : {"close"}, report : Reports, options : Options, original : Rows,
          left : SUBSET Id, alone : BOOLEAN]

TypeOK ==
    /\ finding \in Rows
    /\ created \in 0 .. MaxId /\ DOMAIN finding \subseteq 1 .. created
    /\ begun \in 0 .. MaxRuns /\ acts \in 0 .. MaxActs
    /\ run \in [Runs -> Run]
    /\ overlap \in BOOLEAN

\* While reports are imported one after the other, whatever people do, no two
\* findings of a test are the same: an item that a report lists twice finds on
\* its second turn what was created on the first.
OneFindingPerKey ==
    ~overlap => \A f, g \in DOMAIN finding : finding[f].key = finding[g].key => f = g

\* A finding that is open carries no mark of being closed, whatever was saved
\* over it from an older copy of its row.
OpenIsClean ==
    \A f \in DOMAIN finding :
        finding[f].active =>
            ~finding[f].is_mitigated /\ ~finding[f].false_p /\ ~finding[f].risk_accepted

Done(r) == Busy(r, "close") /\ run[r].left = {}

\* When a run that nobody has disturbed is done, with old findings to be
\* closed, the report decides.  A finding is open only if it is the first with
\* its hash code and the last word about it is not that it is mitigated, but
\* for a new one that the form has made active; and it is not closed if the
\* last word is that it is open, unless it is a false positive or its risk is
\* accepted, or the form says not to reactivate.  This closes the twins that
\* runs at the same time have left.
ReportDecides ==
    \A r \in Runs :
        Done(r) /\ run[r].alone /\ run[r].options.close_old_findings =>
            \A f \in DOMAIN finding :
                LET row == finding[f]
                    options == run[r].options
                    items == {i \in DOMAIN run[r].report : run[r].report[i].key = row.key}
                    word == IF items = {} THEN "mitigated"
                            ELSE run[r].report[Max(items)].status
                    first == \A g \in DOMAIN finding : finding[g].key = row.key => f <= g
                IN  /\ row.active =>
                          /\ first /\ items # {}
                          /\ \/ word # "mitigated"
                             \/ f \notin DOMAIN run[r].original /\ options.active = "active"
                    /\ first /\ word = "open" /\ ~Special(row) /\ ~options.do_not_reactivate
                         => ~row.is_mitigated

\* "The False Positive status will be maintained by reimport"
\* (finding_status_definitions.md), and so is an accepted risk: a run takes
\* neither away, not even when it closes what it had read before the decision.
\* Only the save of an item whose finding was triaged between its turn and the
\* save does.
TriageKept ==
    [][\A f \in DOMAIN finding \cap DOMAIN finding' :
           \A mark \in {"false_p", "risk_accepted"} :
               finding[f][mark] /\ ~finding'[f][mark] =>
                   \/ acts' # acts
                   \/ \E r \in Runs : /\ Busy(r, "save") /\ run[r].id = f
                                      /\ ~run[r].alone]_vars
=============================================================================
