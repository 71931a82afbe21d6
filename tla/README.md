# Verification of the governance flows

This directory models, in TLA+, flows of this fork of DefectDojo in which people,
jobs and scanners decide on findings and products: the risk acceptance flow with
`RISK_PENDING`, in which findings are accepted, rejected, expired and given back;
decisions on one request that overlap, by its page and by mail, with their permission keys;
the participation of products in Hacking Continuous (HC), whose requests are filed
in batches; the transfer of findings to another product; exclusions, which put
findings on the white, black and zero day lists; reports that are imported again;
duplicates; and the endpoints of webhooks. The modules are translated from the
Python under `src/dojo/`; `PROJECT.json` names the lines each definition stands for.

## The system

A Django application, a Celery worker and a Celery beat scheduler share one
database. `ATOMIC_REQUESTS` is not set, so each `save()` writes the whole row and
commits by itself. HTTP handlers, scheduled jobs and imports act on the same rows,
for the most part without locks; HC participation is the exception, with explicit
transactions and `SELECT ... FOR UPDATE`.

| Part | State it keeps | Operations | What makes it correct |
|---|---|---|---|
| Findings (`models.py`, `finding/helper.py`) | status columns of each finding: `active`, `is_mitigated`, `risk_accepted`, `risk_status`, `accepted_by` | save with the pre-save signal, close, reopen, delete, bulk edit | the columns agree with each other in every order of operations |
| Risk acceptance, approval (`risk_acceptance/risk_pending.py`, `engagement/views.py`) | rows of `Risk_Acceptance`, their findings, who confirmed what | request, add findings, confirm, reject, review, approve, remove, delete | only those with the authority accept a risk; limits hold; every accepted finding is under an acceptance |
| Risk acceptance, life cycle (`risk_acceptance/helper.py`, `notification.py`) | `expiration_date`, `expiration_date_handled`, `expiration_date_warned` | expire, warn, reinstate, leave all acceptances; the job every three hours | what expires is open again; people are told |
| HC participation (`engine_participation/`) | `HCParticipation` requests, `HCParticipationLog`, comments, batches of evaluation | evaluate all products in a pool of threads, file requests under locks, notify, comment, review, approve, reject | one request waits per product; batches do not deadlock; the log tells how each status came about; those concerned are told |
| Permission keys (`models.py`, `risk_acceptance/helper.py`) | tokens sent by e-mail | create, renew, look up, expire | every recipient gets one that lasts; a decision it cuts short is not taken for a whole one |
| Importers (`importers/`) | the findings of a test while a report is read | match, create, reactivate, mitigate | a finding is open iff it is reported, except when somebody decided otherwise |
| Transfer of findings (`transfer_findings/`) | `TransferFinding`, a copy of each finding in another product | request, accept, reject, expire, delete; propagate to related findings | original and copy agree; nothing is lost when one of several steps fails |
| Engine tools (`engine_tools/`) | `FindingExclusion` | request, review, accept, expire, re-check | an exclusion covers exactly the findings it names while it lasts |
| Deduplication (`utils.py`, `finding/helper.py`) | `duplicate_finding` links | set a duplicate, delete an original | no chains, no loops, no duplicate without original |
| Notifications, webhooks (`notifications/helper.py`) | status of each webhook endpoint | send, deactivate, reactivate | an endpoint that fails is left alone and comes back |
| JIRA, GitHub, parsers, metrics, reports | external or none | | not candidates for a model: external services, formatting, read-only views |

They interact by calls and shared rows: handlers and jobs call the helpers of risk
acceptance, which save findings (the signal runs within each save), tell transfer
findings to follow, comment on JIRA and send notifications. Importers and the pages
of a finding change the same status columns at the same time.

The hard behaviour is not in one handler but between them: pages submitted after
their content changed, a flag that was cleared while a name was not, a job that
finds rows somebody has just edited, whole-row saves that overwrite each other,
one failing step in a series of commits. `hazards` in `PROJECT.json` lists each at
its line.

## Modules

- `FindingStatus` -- the status columns of one row and what each handler writes
  to them. It has no state. `Save` is the pre-save signal; `PendingRow`,
  `AcceptedRow`, `SucceededRow`, ... are the rows that handlers save.
- `RiskAcceptance` -- the flow of one engagement. Its variables:

  | Variable | Stands for |
  |---|---|
  | `finding` | the status columns of each finding |
  | `ra` | the rows of `Risk_Acceptance` and their findings |
  | `today` | the date |
  | `offered` | the choices of a request form that was rendered and not yet submitted |
  | `page` | the Accept, Reject and Remove buttons of a page not yet submitted |
  | `notice` | notifications of expiration that the last step sent |

  Each action is one HTTP request or one iteration of a job: `Request`,
  `AddFindings`, `AcceptDirectly`, `Confirm`, `Review`, `Approve`, `Decline`,
  `RemoveFinding`, `Delete`, `ExpireNow`, `ExpireDue`, `Warn`, `ReinstateNow`,
  `Edit`, `Close`, `Reopen`, `Reimport`, and `OpenForm` and `OpenPage`, which
  render what may be submitted later.
- `PermissionKeys` -- the keys that let the recipients of a mail decide, and
  `RiskConfirmation` -- decisions on one request that are taken at the same time, by
  page and by mail; it extends the other. A key that expires ends a decision half way.

  | Variable | Stands for |
  |---|---|
  | `key`, `inbox` | the rows of `PermissionKey`, and those that were mailed |
  | `send` | for each request that mails: the keys it has read, the recipients left |
  | `job` | the keys that `risk_pending.expiration_handler` has read and not saved |
  | `finding`, `enrolled` | the status columns of each finding; `accepted_findings` |
  | `decision` | for each decision: who, with which key, and the rows it has read and not dealt with |
  | `troubled`, `orphaned`, `decision[d].stale`, `send[s].late` | what overlapped or was cut off (history) |

  Where `RiskAcceptance` takes a decision in one step, a decision here is `Decide` (the
  read), then for each finding one of `Confirm` (followed by `Complete`, the second save
  of a last confirmation), `Reject`, `Remove` and `Pass`, then `Succeed` or `Fail`; a mail
  is `Begin`, `Renew`, `Look`, one `Create` or `Find` for each recipient, then `Mail` or
  `Misses`.
- `RiskRegister` -- the abstract specification: a register of open, accepted and
  closed findings and the acceptances they are under. `RiskAcceptance` implements
  it under the mapping `Where`, `Listed`, `Covered`.
- `HCParticipation` -- batches that evaluate every product and file requests, and
  the pages that decide on these. Its variables:

  | Variable | Stands for |
  |---|---|
  | `product`, `inHC` | the products that exist, and those with a recent test tagged as hacking |
  | `batch` | where each evaluation is: products left to the threads, requests to file, rows it has locked, requests it has created |
  | `request`, `log` | the committed rows of `HCParticipation` and `HCParticipationLog` |
  | `comment` | whose comments are on which request |
  | `post` | the pages being served, after their checks |
  | `alert` | notifications created |

  Unlike in `RiskAcceptance`, an action is smaller than a handler where the code
  lets others in between: `Start`, one `Evaluate` (or `EvaluateFails`) for each
  product in the order in which the threads end, `Lock` and `Save` for each
  request, `Commit`, `NotifyReviewers`, `Fail` and `Crash`; and for a page `Open`
  (the checks it makes before the transaction), one of `MarkReviewed`, `Approve`,
  `Reject` or `Refuse` (the transaction), and `Notify`. `JoinOrLeave` and
  `DeleteProduct` are the rest of the application. Rows that a batch has saved and
  not committed are in `batch[b].created`, which nobody else sees.
- `TransferFinding` -- findings that are handed over, their copies, and the two jobs
  that expire transfers and acceptances at the same time.

  | Variable | Stands for |
  |---|---|
  | `transfer`, `link` | the rows of `TransferFinding` and of the table that relates their findings to copies |
  | `finding`, `copy` | status columns of the originals and of the copies |
  | `acceptance` | acceptances of the destination and their findings |
  | `job`, `raJob` | what each of the two `expiration_handler`s has read and has still to do |

  `Create` ... `DayComes` are the life of a transfer; `JobStart`, `Take`,
  `ExpireFinding`, `Taken` are one run of the first job and `RaJobStart` ...
  `RaTaken` of the second; `AcceptCopy` ... `ReopenCopy` are what people do to a
  copy, each followed by `close_or_reactive_related_finding` for its originals. An
  error that ends a job is part of the step that raises it.
- `FindingExclusion` -- exclusions, the tasks that their pages queue, and two daily jobs.

  | Variable | Stands for |
  |---|---|
  | `row` | the rows of `FindingExclusion` |
  | `finding` | status columns, the list a finding is on, and the exclusion named in the note of its listing |
  | `queued`, `running` | Celery tasks that wait, and what those that run have read |
  | `failures` | how many tasks were cut off |
  | `approved` | exclusions that were ever accepted (history, for one property) |

- `Reimport` -- the importer that reads a report into a test that has findings
  already, with several reports at the same time and people who triage meanwhile.

  | Variable | Stands for |
  |---|---|
  | `finding`, `created` | the findings of the test, and the last id given out |
  | `run` | for each import: the report and how far it is, the findings as it read them at its start (`original`), what it has noted as unchanged or reactivated (`kept`), the row that it holds and has not saved, and what is left to close |
  | `begun`, `acts` | counters for the bounds |
  | `overlap`, `run[r].alone` | whether an import, or a person, acted during another import (history) |

  An import is `Start`; for each item one of `Miss` (followed by `Create`), `Skip` and
  `Match`, then `Save`; `Settle`; one `CloseOld` for each finding that the report has left out;
  `End`. A row that was deleted meanwhile ends it.
- `DuplicateLoops` -- `fix_loop_duplicates` as a function on the graph of
  duplicates (`Chained` is its query, `Removing` the body of `removeLoop`, whose
  recursion is the function `RemoveLoop`), and `Deduplication` -- workers that deduplicate what was saved, and the
  pages that mark, reset, replace and delete originals.

  | Variable | Stands for |
  |---|---|
  | `finding`, `imported` | `duplicate`, `duplicate_finding` and the status of each finding; the last id |
  | `queue` | findings whose `post_process_finding_save` is queued |
  | `worker` | the calls of `set_duplicate` a worker is in, with the rows each has read |
  | `acts`, `overlap` | a counter for the bound; whether two ever got in each other's way (history) |

  `Load`, `Read`, `Flatten`, `SaveNew`, `SaveExisting` are the queries and saves of
  `set_duplicate`, which calls itself for the duplicates that a finding has.
- `Webhooks` -- the status of endpoints against the answers they give.

  | Variable | Stands for |
  |---|---|
  | `row` | the rows of `Notification_Webhooks`, with ages instead of dates |
  | `sending`, `reviving`, `editing` | rows that a send, a reactivation or an edit has loaded and not saved yet |
  | `queued` | reactivations that wait a minute in the broker, which may lose them |
  | `cleaning` | the clean-up of every minute: which endpoints it has still to do |

- `MCRiskAcceptance`, `MCRiskConfirmation`, `MCTransferFinding`, `MCReimport` -- values of constants and
  symmetry sets for TLC.
- `RiskAcceptanceProofs`, `RiskConfirmationProofs`,
  `HCParticipationProofs`, `WebhooksProofs`, `FindingExclusionProofs`,
  `TransferFindingProofs`, `DeduplicationProofs`, `ReimportProofs` -- the theorems.
  Those about `PermissionKeys` are in `RiskConfirmationProofs`.

Operators whose comment says "Seeded fault" or "Mutant" (`SaveAsGiven`,
`ApproveByReviewer`, `MatchesRead`, ...) are variants of the definition that follows
them with a plausible mistake. Nothing uses them; each property was seen to fail
when one of them took its place.

The modules meet in the status columns of a finding. Each has the writes of the
others that matter to it as actions of its own: closing, reopening and a report
in every module, acceptance and release in `Reimport`, the mitigation of originals
in `TransferFinding`. They are not composed in one state space.

## What the models leave out

Of risk acceptance:

- All findings are of one severity, none is a duplicate, a false positive or out
  of scope; `is_mitigated` also stands for `mitigated`. The contacts of the
  product do not depend on severity.
- The product has full, and not simple, risk acceptance, and the decision of every
  acceptance is Accept. The flow without `RISK_PENDING` is not modelled.
- Time is counted in days. The time of day of an expiration, which the form for
  editing may round, is left out.
- Endpoint statuses, JIRA comments, calls to providers, permission keys (see `PermissionKeys`), notes,
  proofs, the black list and findings correlated by CVE.
- The effect on transferred findings, which is in `TransferFinding`.
- A request is one step, although its saves commit one by one. Decisions that
  overwrite each other are in `RiskConfirmation`; two requests that pass the limit at
  once are in no model.
- One form and one page are open at a time. The identity of an acceptance is used
  again only when no page shows it.
- A reimport acts on one finding at a time (`Reimport` has its steps), and the job
  on one acceptance at a time; `Warn` waits until nothing is due, as the job's second
  loop does.

Of overlapping decisions and keys: an acceptance that is not long term, decided by
contacts who may not accept alone; its findings come in with no names and are neither
closed, reported, expired nor added meanwhile. A page is not submitted after its buttons changed, though
its handler may be overtaken. The recipients do not change. The route of the API that
mails with other recipients is left out: for a `Risk_Acceptance` it asks `None` for its
`prod_type` and fails. Life is counted in days, as the job compares dates. A decision
reads its findings in one step, and a mail counts and reads the keys in one.

Of HC participation:

- All products are in the scope of the evaluation; their criticality and the
  groups of the users do not change; users are not deleted. Why a product is
  postulated (`High` and not in HC) is kept, the text of the justification is not.
- Each batch runs once and files at most one request for a product, so that a
  request is named by its batch and its product.
- Comments of superusers are left out: no rule asks whether there is one.
- A product is not deleted while a batch holds its row: the deletion waits, and
  then fails at the foreign key of the new request. A deletion is one step.
- `Crashes` switches the death of workers, `MaxPosts` bounds the pages served at
  the same time.

Of transfers: a related finding chosen by hand, how the API treats findings
without a transfer, the notice before an expiration, deletion of findings, and
permissions. `CopyOf` says which copy the search for a related finding finds or
would create. `Failing` are the transfers whose notification raises an error.

Of exclusions: comments, logs, notifications and priority scores. One vulnerability,
whose findings do not change it. A task that lists findings is one step.

Of reimports: findings are matched by hash code; other algorithms change what
matches, not what follows. `is_mitigated` stands for `mitigated` too, `false_p` for
`out_of_scope` too, and `hidden` for "On Whitelist" and "Transfer Accepted". Items
of a report say open, mitigated or false positive; an item that carries an
accepted risk, endpoints, components, groups, tags, files and the minimum severity
are left out. A finding that is found is also read and, where the code saves it there,
saved in that step; one that is not found is created in a later step. `ATOMIC_REQUESTS` is not set and imports hold no lock.

Of duplicates: the limit to an engagement, unique ids and the legacy algorithm (which
differ in the candidates only), the comparison of endpoints, the history of false
positives, `async_dupe_delete`, deletion of tests and engagements. A worker reads its
finding and all its candidates in one step. A finding is deleted, and
`fix_loop_duplicates` runs, while no worker is busy. A page is not submitted after
its buttons changed.

Of webhooks: the viewset of the API, which writes as the edit page does, without the
ping. Ages stop one above the day, after which nothing depends on them.

## Runs

| Run | Question | Bounds |
|---|---|---|
| `decisions` | Can requests, additions, removals and reinstatements in some order, with stale pages, break the status columns or the limit? Is everything that is due handled in the end? | 1 finding (of compliance), 2 acceptances (plain and long term), 2 acceptors, a developer, a contact, a compliance officer, 2 days |
| `roles` | Can anyone accept a risk without authority, or leave a finding accepted under nothing? Does every step look like a step of the register? | 2 findings (1 of compliance), 1 acceptance, 2 contacts (symmetric), reviewer, approver, compliance officer |
| `confirmations` | What can decisions, mails and the job do to each other's rows? | 2 findings, 2 acceptors of 3 contacts, 2 of them recipients, 2 decisions and 2 mails at a time, 3 decisions, mails or deaths in all, 2 days (symmetric) |
| `batches` | Do batches that run at once duplicate a request, or wait for each other forever? | 2 products, 2 batches, a superuser with one page; products join, leave and are deleted |
| `pages` | Do row, log and notifications agree when several people decide at once? | 1 product, 1 batch run by a person, a reviewer, an approver, a superuser, 2 pages at a time; workers may die |
| `transfers` | Do jobs, decisions and what happens to copies show what is mitigated, keep what has expired, or get stuck? | 1 transfer whose notification fails, 1 finding, 1 copy, 1 acceptance |
| `exclusions` | Is a finding listed for a decision only, and does each decision take effect and end? | 1 exclusion of any type, 1 finding, 1 task cut off |
| `reimports` | What is left of the decisions of people and of other reports when a report is imported? | 1 hash code, 2 findings, 3 reports of up to 2 items with 3 ways to fill the form, 2 at a time (symmetric), 2 acts of people |
| `dedup` | Are clusters flat, free of circles, and repaired when they are not? | 3 findings with one hash code, 2 workers, 2 acts of people |
| `webhooks` | Does each endpoint leave its temporary states, the right way? | 1 endpoint, 2 sends at a time, an outage of up to 2 units where the day is 2 and the repair 1 |

`reimports` has about 7.4 million states, `confirmations` and `dedup` 1.2 million each; no run takes much more
than two minutes.

Why this is enough. Two acceptances are what it takes for a finding to be in one
and leave another, and for the limit to be reached. Two days are enough for an
acceptance to be due, warned of, expired and reinstated, and for a date to be set in
the past and in the future. Two acceptors is the smallest number for which a
request is partly confirmed. Two products and two batches are the smallest circle of
locks; two pages are the smallest race, and all the actions of one request are a
pair of them. One finding and its copy meet both jobs, and the error of one of
them. Of three reports the first creates a finding, or two create it twice, and the
last one meets the result; an item on the list twice is the smallest repetition, and
two acts are a decision and its reversal. Three findings are a chain. Three
decisions are a stale one and the two that complete an acceptance under it, or two that
complete it and one that meets it between its saves; three mails are two that overlap and
one that meets their keys.
Two sends are the smallest race for a row, and the ages tell apart what the code
does: below the repair, below the day, above it.

Larger instances that were run once and passed: `HCParticipation` with two batches,
two products and two pages (3.6 million states); `Deduplication` with four findings
and one act (2.4 million) and with three findings and three acts (12 million).

`batches` and `pages` do not check for deadlock: once every batch has ended and
every product is deleted nothing is left to do. Neither do `dedup`, `reimports` and
`confirmations`, where imports and acts run out.

Fairness:

- `RiskAcceptance`: weak fairness of `ExpireDue(r)` for each acceptance. The beat
  schedule starts `expiration_handler` every three hours and its first loop goes
  through every acceptance that is due. An error raised by one of them would end the
  loop; this model has none, `TransferFinding` has.
- `HCParticipation`: weak fairness of the steps of each batch that has started, and
  of the notification of a page that has decided: both are the next statements of
  a thread that runs. Weak fairness is enough for a lock, too, because each batch runs
  once: once the others, which are fair as well, have ended, nobody takes the row
  again. A worker that dies is the exception that the properties name.
- `TransferFinding`: weak fairness of the start and of the steps of both jobs, which
  Celery beat starts again and again.
- `FindingExclusion`: weak fairness of the two daily jobs, and of each task that is
  queued. A task may be cut off `MaxFailures` times.
- `Webhooks`: weak fairness of the clock, of the clean-up that beat starts every
  minute, and of sends and reactivations that have begun. The broker may lose every
  reactivation.
- `Reimport`, `Deduplication` and `RiskConfirmation` have safety properties only.

Nothing is assumed of people: nobody is obliged to confirm, to decide, to start a
batch or to edit.

### Where the code does not do what it says

Each of these runs checks a property taken from a comment, a help text or the
documentation, and ends in a behaviour that violates it:

- `outlived` -- a finding accepted under an acceptance that has already expired stays
  accepted: the job does not look at it again.
- `stuck` -- `close_or_reactive_related_finding` calls its notification with
  arguments it does not take. The expiration of an acceptance fails at each finding
  that is the copy of a transferred one; one that was closed by the API is met again
  in every run, and the acceptance is never handled.

Others are stated in the modules and were seen violated, without a run that repeats it:

- `ExpiryIsNotified`: the notification of an expiration is asked for after the findings
  have stopped being "Risk Accepted", finds none, and is not sent.
- `WarnedIsNoticed`: an acceptance is marked as warned when there was nothing to tell.
- `AcceptorsNeverOverrun`: names of earlier acceptors survive (`acceptend_by`), and the
  next request ends in the error that says this cannot happen.
- Reinstating accepts findings whose request was never granted, and a stale Accept
  button of someone who may accept directly leaves a finding accepted under no
  acceptance.
- `ExpiredReleases`: the task that puts findings on a black list asks neither whether the
  exclusion is still accepted nor for its product; once the expiration has run, the findings
  stay on the list.
- `OnlyUserRevives`: a send saves the endpoint as it was loaded before the answer came,
  so that one which the administrator has switched off is on again a minute later.

And these came up while the modules were written; no document says otherwise:

- Of decisions: a confirmation that was read before another one was saved takes its place,
  and may undo an acceptance that was complete (`ConfirmationStands` names this
  exception). A request that is cut off between the two saves of a last confirmation leaves
  a finding with all its names that can be rejected and not accepted.
- Of keys: two mails at the same time may make two keys for each recipient, and a mail that
  is cut off may leave one without; `get_token` then finds two, or none, and no later mail
  goes out. The job may save a key as it was before a renewal, so that the new mail brings
  a dead key.
- Of reimports: the save at the end of an item writes the whole row as it was read at the
  item's turn, and undoes what was decided in between (`TriageKept` names this
  exception). An item that the scanner reports as a false positive reactivates its
  finding if that one was mitigated. Two imports of one report at the same time create
  each finding twice; later ones keep the first and close the second. The list or
  transfer of a finding (`risk_status`) is not among the fields read again before old
  findings are closed, and is saved as it was at the start of the import.
- Of duplicates: `set_duplicate` takes a duplicate off its original before the call that
  may refuse it, which leaves a duplicate of nothing. Two workers can leave both
  findings of a pair as originals, or a chain, which `fix_loop_duplicates` repairs. A
  stale page can make a finding a duplicate of itself. The old root that
  `set_finding_as_original` degrades stays active. An older finding may become a duplicate of
  a newer one. `fix_loop_duplicates` works with rows that it read before it changed others.
  Up to four findings that are chained come out as duplicates of the end of their chain.
  The duplicates of one finding come by severity, date and title, in an order that the model
  does not know (`LastGiven`): TLC tries one, the theorems hold for every one. Of five, with 2 a
  duplicate of 4, 3 of 5, 5 of 4 and 4 of 1, finding 2 is made an original of its own where it
  comes before 5, though 1 is the oldest (helper.py:632 means "to get the oldest finding as
  original"). Of six, one run may leave chains. Where the pointers have a circle it may take
  a second run from four findings on (3 of the 625 graphs, in some of the orders), and some
  findings lose their cluster. `FixFlattens` says no more than what holds.
- Of exclusions: reopening one queues the task of the white list whatever its type is. The
  expiration writes `active` as it was read, over a mitigation in between.
- Of transfers: a transfer that is accepted after it has expired and was handled is never
  looked at again.

## Proofs

TLAPS checks the theorems for every value of the constants that satisfies the
named assumptions of the module. For `RiskAcceptance` (`UsersAssumption`,
`FindingsAssumption`, `RAsAssumption`, `NumbersAssumption`, `FlagsAssumption`):

- `Typing`: `Spec => []TypeOK`.
- `Coherence`: `Spec => []StatusCoherent`. The invariant is inductive together with
  the types: lemma `RowCoherence` says that each handler leaves a coherent row.
- `Governance`: `Spec => []AcceptedIsGoverned` provided that pages are submitted as
  rendered (`~StalePages`). The strengthening adds that nothing is pending in
  `offered` and `page` (`FreshPages`), without which a stale Accept refutes it.
- `Abandonment`: `Spec => []AbandonedIsFree`. A finding enrols only in steps that
  write its status anew, and is abandoned only in steps that free it.
- `Authorisation`: `Spec => GrantNeedsAuthority`. It needs `AbandonedIsFree`:
  otherwise a reinstatement would grant what nobody decided.
- `Limitation`: `Spec => []LimitHolds`. Only `Request` and `AddFindings` enrol
  findings, and both count first.
- `Refinement`: `Spec => RegisterSpec` provided that `~StalePages`. Every step maps
  to a step of the register or to a stutter; the types, `StatusCoherent` and the
  strengthening of `Governance` are needed for the steps that accept and release.

For `HCParticipation` (`ProductsAssumption`, `BatchesAssumption`, `PeopleAssumption`,
`BoundsAssumption`; `Products` is finite, the others need not be):

- `HCTyping`: `Spec => []TypeOK`.
- `HCOneActive`: `Spec => []OneActive`. The strengthening `Locking` adds that two
  batches never hold one product (`Exclusive`) and that a product for which an
  open transaction has created a request has no other that waits (`Uncontested`).
- `HCNoDeadlock`: `Spec => []NoDeadlock`. What a batch holds is below everything it
  has still to file (`Ordered`); in a set of batches the one that holds the greatest
  product of all waits for none of them.
- `HCAudit`: `Spec => []Audited`. The strengthening `Trailing` adds that a request
  that is not committed is in no row (`Unfiled`), that a row names its reviewer
  from its review on (`Named`), and that pages are of people who may take the step.

For `RiskConfirmation` and `PermissionKeys` (`RecipientsAssumption`, `DaysAssumption`,
`AcceptorsAssumption`, `PeopleAssumption`, `RequestAssumption`):

- `Invariance`: `Spec => []Inv`. A decision saves rows that it has read before, so the
  invariant speaks of these copies: each is sound (`SoundRows`), one that nobody else has
  saved is as it was read (`Current`), and the one between two saves has all its names
  (`Closing`). A finding that could be confirmed waits for its turn or has its
  name (`Served`).
- `AcceptancesAreSound`, `FullFindingsAreInHand`, `SuccessesAreWhole`: `Spec => []P` for
  `AcceptedByEnough`, `FullIsInHand` and `SuccessIsWhole`; and `ConfirmationsStand`:
  `Spec => ConfirmationStands`, where `Current` says what an undisturbed save leaves.
- `Delivery`: `Spec => []SendDelivers`. The strengthening `KeysInv` says that keys do not
  change hands (`SameUsers`), and, of a mail that nothing has disturbed, how far it is
  (`Orderly`): either there is no key or each contact has one, those it is done with have
  the key of their link, and the job holds no row that is older than the mail.

For the other modules:

- `WebhookDating`: `Spec => []OutagesAreDated`. A row is saved from a copy, so the
  invariant has to hold of every copy too (`CopiesAreDated`).
- `Approval`: `Spec => []ListedWasAccepted`. A finding is listed by a task, so the
  strengthening says that tasks are queued for accepted exclusions only
  (`TasksAreApproved`), and that what is accepted has been approved.
- `TransferTyping` and `TransferMitigation`: `Spec => []TypeOK` and
  `Spec => []MitigatedStaysOut`, which is inductive with the types: the jobs look at a
  finding when they save it, and not when they start.
- `ClustersAreFlat`: `Spec => []AloneIsSound`. The strengthening `Inv` says, of a worker
  that is alone, that the rows it has read are those of the table, and that the
  finding it is about has no duplicates but those it has still to move.
- `CleanWhenOpen`: `Spec => []OpenIsClean` of `Reimport`. An import saves rows that it has
  read before, so the strengthening says that these are clean, too (`Fit`), and that
  a copy has the hash code of its row (`Stable`).
- `NothingTwice`: `Spec => []OneFindingPerKey`. While imports have not overlapped only one
  is at work, and what it is about to create is still not there (`Unique`): people
  change and delete findings meanwhile, but create none.
- `TriageSurvives`: `Spec => TriageKept`. The row that an undisturbed import holds has the
  marks that its finding has (`Undisturbed`); closing reads them again.

- `OneOriginalIsLeft`: `Spec => []OneOriginal`. While nobody is in another's way and
  nobody acts (`Untouched`), nothing is mitigated, so that no call of `set_duplicate` is
  refused, and of two findings that are no duplicates one is queued or in the hands of
  the worker (`OneLeft`).
- `NoLoopIsLeft`: `Spec => []NoLoopRemains`, whoever overlaps. The invariant `LoopInv` says
  that the candidates a worker has read were no duplicates (`Holding`), and that
  as long as a set of findings points into itself some worker has saved one of them as a
  duplicate and has yet to save its target, as it was read, with no original
  (`LoopsEnd`). For the repair, `RepairedTames` says that `removeLoop` at any depth, and
  so the run, makes no loop out of a graph without one, and no duplicate of a finding that
  was none; each call cuts the kept finding off or gives it a duplicate of the one that goes.
- `OrderedChainsFlatten`: `Spec => [](LoopFree(Graph) /\ Ordered(Graph) => Flattened)`, for
  chains of any length and number, at any time. `Ordered` says that originals get older
  towards the end of a chain: a finding that has duplicates comes after its original, and
  every finding after the original of its original. The end itself may be of any age, and a
  finding without duplicates may be older than its original. A finding that is deduplicated
  before newer ones come points so, and two workers may chain such pointers (3 -> 2 -> 1).
  Then `removeLoop` never swaps (`LoosenedHandsOn`: it hands the duplicates of a finding on
  to its original), and as the originals are taken from the newest to the oldest the
  duplicates that are handed on have none themselves (`RowHandsOn`). Where each chain ends
  is not changed by a step (`HandedOnIs`), and in the end none has more than two findings
  (`OrderedRepaired`).
- `FourAreFlattened`: `Spec => []FixFlattens`. When all workers have finished there is no
  loop (`LoopInv`, as above). If the graph is in order, `OrderedRepaired` applies. If it is
  not, it has a chain of four, and so is that chain: `DisorderIsPath`. Of the chain
  a -> b -> c -> d either b is older than c, and the duplicates of c and then those of b are
  handed on (`AscendingPath`), or a is older than c and c than b: then the call for b, two
  levels deep, swaps a and c and leaves b -> a -> c -> d, which the call for c flattens
  (`TwistedPath`). `ColumnFlattens` follows a call down three levels, and `TwoRows` the run
  over its two rows.
- `TheReportDecides`: `Spec => []ReportDecides` of `Reimport`. The invariant `Followed` says,
  of a run that is alone, what it has made of each finding by the item at which it is:
  the oldest with its hash code, or the row of it that is in hand, is as the last item with this
  hash code decides (`Decided`); one that no item has meant is as it was read, and
  not noted as kept (`Passed`). That the copies agree with the rows is `Undisturbed`
  of `TriageSurvives`.

Only model-checked: all liveness properties (`ExpiryReopens`, `BatchEnds`, `AllAreTold`,
`ExpiryGivesBack`, `TransferEnds`, `AcceptanceEndsUnlessBlocked`, `DueExpires`,
`CoveredIsListed`, `TakenBack`, `HealthyAgain`, `FlakyIsRetired`), which are out of the
prover's reach. Every other property of a passing run is a theorem. `FixFlattens` of
`Deduplication` is bounded to four findings because it is false for five (see above). For any
number it is proved that the repair makes no loop and no new duplicate (`RepairedTames`), and
what it is for where originals get older towards the end (`OrderedChainsFlatten`).

## Not modelled

- The REST API and long term rules of risk acceptance: other entrances to the decisions
  that `RiskAcceptance` models. They differ in what they check, not in what they do to a
  finding. Two differences are worth a module: an acceptance created by the API enrols
  findings without making them pending, and `async_apply_rule_long_risk_acceptance` accepts
  findings under no acceptance.
- Authorization, users and groups: they enter as sets of people with a role.
- JIRA and GitHub: calls to services outside the repository; parsers: pure translations
  of report formats; mail, Slack and Teams: formatting and delivery by others;
  metrics, reports and risk posture: read-only computations.
- Most of the code by number of lines is forms, filters, serializers, templates,
  migrations and parsers, which keep no state between requests.

## Plan

What is left, in order of what it would show:

1. Requests for new acceptances split into their steps: the limit that two requests pass at
   once.
2. The API and long term rules as further entrances to `RiskAcceptance`, and the keys of
   long term acceptances and transfers.
