--------------------------- MODULE HCParticipation ---------------------------
(***************************************************************************)
(* Requests that a product take part in Hacking Continuous (HC): batches   *)
(* that evaluate every product and file the requests, run by the monthly   *)
(* task and by staff at the same time, and the pages on which reviewers    *)
(* and approvers decide on them.                                           *)
(*                                                                         *)
(* A step is one statement of a batch, or one transaction of a page.  The  *)
(* database gives each transaction what the others have committed, and     *)
(* SELECT ... FOR UPDATE keeps a row locked until the end of it.           *)
(***************************************************************************)
EXTENDS Naturals, FiniteSets, Sequences

CONSTANTS
    Products,    \* identifiers of products
    High,        \* products of an eligible business criticality
    Batches,     \* batch_id of the evaluations
    Manual,      \* batches run by a person, created_by of their requests
    Users,
    Admins,      \* superusers
    Reviewers,   \* members of HC_REVIEWER_GROUP_NAME
    Approvers,   \* members of HC_APPROVER_GROUP_NAME
    Nobody,      \* a NULL user
    Crashes,     \* a worker may die
    MaxPosts     \* pages that are served at the same time

ASSUME ProductsAssumption ==
    Products \subseteq Nat /\ IsFiniteSet(Products) /\ High \subseteq Products
ASSUME BatchesAssumption == Manual \subseteq Batches
ASSUME PeopleAssumption ==
    /\ Admins \subseteq Users /\ Reviewers \subseteq Users
    /\ Approvers \subseteq Users /\ Nobody \notin Users
ASSUME BoundsAssumption == Crashes \in BOOLEAN /\ MaxPosts \in Nat

VARIABLES
    product,   \* products that exist
    inHC,      \* products with a recent test that has a hacking tag
    batch,     \* where each evaluation is
    request,   \* rows of HCParticipation that are committed
    log,       \* rows of HCParticipationLog of each request
    comment,   \* who has a comment on which request
    post,      \* pages being served
    alert      \* notifications created

vars == <<product, inHC, batch, request, log, comment, post, alert>>
pages == <<log, comment, post>>

-----------------------------------------------------------------------------
\* A batch files at most one request for a product.
Requests == Batches \X Products

Status == {"None", "Pending", "Reviewed", "Approved", "Rejected"}

Row == [status       : Status,
        final_status : {"None", "Approved", "Rejected"},
        reviewed_by  : Users \cup {Nobody},
        approved_by  : Users \cup {Nobody},
        rejected_by  : Users \cup {Nobody}]

NoRow == [status |-> "None", final_status |-> "None", reviewed_by |-> Nobody,
          approved_by |-> Nobody, rejected_by |-> Nobody]

NewRow == [NoRow EXCEPT !.status = "Pending"]

Exists(r) == request[r].status # "None"

\* ACTIVE_HC_REQUEST_STATUSES
Active(r) == request[r].status \in {"Pending", "Reviewed"}

Batch == [stage   : {"new", "running", "notifying", "ended", "failed", "crashed"},
          left    : SUBSET Products,   \* products still to evaluate
          todo    : SUBSET Products,   \* requests_to_create
          held    : SUBSET Products,   \* products locked by the transaction
          created : SUBSET Products]   \* created_requests

NewBatch == [stage |-> "new", left |-> {}, todo |-> {}, held |-> {},
             created |-> {}]

Actions == {"Reviewed", "Approved", "Rejected"}

Post == [user : Users, action : Actions, request : Requests,
         stage : {"deciding", "notifying"}]

Entry == [changed_by : Users, previous : Status, current : Status]

Init ==
    /\ product = Products
    /\ inHC \in SUBSET Products
    /\ batch = [b \in Batches |-> NewBatch]
    /\ request = [r \in Requests |-> NoRow]
    /\ log = [r \in Requests |-> << >>]
    /\ comment = {}
    /\ post = {}
    /\ alert = {}

-----------------------------------------------------------------------------
(***************************************************************************)
(* run_hc_participation_evaluation.                                        *)
(***************************************************************************)

\* The list of products is read; with none the evaluation returns.
Start(b) ==
    /\ batch[b].stage = "new"
    /\ batch' = [batch EXCEPT
           ![b].stage = IF product = {} THEN "ended" ELSE "running",
           ![b].left = product]
    /\ UNCHANGED <<product, inHC, request, pages, alert>>

\* evaluate_product_for_hc
Postulated(p) == p \in High /\ p \notin inHC

\* _process_single_product, in a thread of the pool.
Evaluate(b, p) ==
    /\ batch[b].stage = "running" /\ p \in batch[b].left
    /\ batch' = [batch EXCEPT
           ![b].left = @ \ {p},
           ![b].todo = IF Postulated(p) THEN @ \cup {p} ELSE @]
    /\ UNCHANGED <<product, inHC, request, pages, alert>>

\* Its error is caught, and the product gets no request.
EvaluateFails(b, p) ==
    /\ batch[b].stage = "running" /\ p \in batch[b].left
    /\ batch' = [batch EXCEPT ![b].left = @ \ {p}]
    /\ UNCHANGED <<product, inHC, request, pages, alert>>

Filing(b) == batch[b].stage = "running" /\ batch[b].left = {}

\* Seeded fault: in the order in which the threads ended.
NextInAnyOrder(b, p) == p \in batch[b].todo

\* requests_to_create is sorted by product.
NextInOrder(b, p) ==
    /\ p \in batch[b].todo
    /\ \A q \in batch[b].todo : p <= q

\* Seeded fault: get without select_for_update.
FreeAlways(b, p) == TRUE

\* select_for_update waits for the transaction that has the row.
Free(b, p) == \A c \in Batches \ {b} : p \notin batch[c].held

Lock(b, p) ==
    /\ Filing(b) /\ NextInOrder(b, p)
    /\ p \in product /\ p \notin batch[b].held
    /\ Free(b, p)
    /\ batch' = [batch EXCEPT ![b].held = @ \cup {p}]
    /\ UNCHANGED <<product, inHC, request, pages, alert>>

\* The row is saved, unless the product has an active request.
Save(b, p) ==
    /\ Filing(b) /\ NextInOrder(b, p) /\ p \in batch[b].held
    /\ batch' = [batch EXCEPT
           ![b].todo = @ \ {p},
           ![b].created = IF \E c \in Batches : Active(<<c, p>>)
                          THEN @ ELSE @ \cup {p}]
    /\ UNCHANGED <<product, inHC, request, pages, alert>>

\* Seeded fault: the locks of the session outlive the transaction.
KeepsLocks(x) ==
    [x EXCEPT !.stage = "failed", !.todo = {}, !.created = {}]

\* Everything the transaction wrote is undone.
RolledBack(x) ==
    [x EXCEPT !.stage = "failed", !.todo = {}, !.held = {}, !.created = {}]

\* Product.DoesNotExist: one product that is gone ends the whole batch.
Fail(b, p) ==
    /\ Filing(b) /\ NextInOrder(b, p) /\ p \notin product
    /\ batch' = [batch EXCEPT ![b] = RolledBack(@)]
    /\ UNCHANGED <<product, inHC, request, pages, alert>>

\* Seeded fault: a batch of one request is not notified.
CommittedMany(x) ==
    [x EXCEPT !.held = {},
              !.stage = IF Cardinality(x.created) <= 1 THEN "ended" ELSE "notifying"]

\* Seeded fault: the locks are given back by the next statement only.
CommittedHolding(x) ==
    [x EXCEPT !.stage = IF x.created = {} THEN "ended" ELSE "notifying"]

Committed(x) ==
    [x EXCEPT !.held = {},
              !.stage = IF x.created = {} THEN "ended" ELSE "notifying"]

\* The end of the transaction.
Commit(b) ==
    /\ Filing(b) /\ batch[b].todo = {}
    /\ request' = [r \in Requests |->
           IF r[1] = b /\ r[2] \in batch[b].created THEN NewRow ELSE request[r]]
    /\ batch' = [batch EXCEPT ![b] = Committed(@)]
    /\ UNCHANGED <<product, inHC, pages, alert>>

\* _notify_reviewers_of_new_requests
NotifyReviewers(b) ==
    /\ batch[b].stage = "notifying"
    /\ alert' = IF Reviewers = {} THEN alert
                ELSE alert \cup {<<"Pending", <<b, p>>>> : p \in batch[b].created}
    /\ batch' = [batch EXCEPT ![b].stage = "ended"]
    /\ UNCHANGED <<product, inHC, request, pages>>

\* The worker dies, and the database undoes an open transaction.
Crash(b) ==
    /\ Crashes /\ batch[b].stage \in {"running", "notifying"}
    /\ batch' = [batch EXCEPT
           ![b] = [RolledBack(@) EXCEPT !.stage = "crashed", !.left = {}]]
    /\ UNCHANGED <<product, inHC, request, pages, alert>>

BatchStep(b) ==
    \/ \E p \in Products : \/ Evaluate(b, p) \/ EvaluateFails(b, p)
                           \/ Lock(b, p) \/ Save(b, p) \/ Fail(b, p)
    \/ Commit(b)
    \/ NotifyReviewers(b)

-----------------------------------------------------------------------------
(***************************************************************************)
(* The pages of a request.                                                 *)
(***************************************************************************)

\* is_in_group
InGroup(u, action) ==
    \/ u \in Admins
    \/ u \in Reviewers /\ action \in {"Reviewed", "Rejected"}
    \/ u \in Approvers /\ action \in {"Approved", "Rejected"}

\* has_valid_comments
HasComment(u, r) == u \in Admins \/ <<r, u>> \in comment

\* add_hc_discussion.  Comments of superusers are never asked for.
AddComment(u, r) ==
    /\ Exists(r) /\ u \notin Admins
    /\ comment' = comment \cup {<<r, u>>}
    /\ UNCHANGED <<product, inHC, batch, request, log, post, alert>>

\* delete_hc_discussion, by the author or by a superuser.
DeleteComment(u, r) ==
    /\ <<r, u>> \in comment
    /\ comment' = comment \ {<<r, u>>}
    /\ UNCHANGED <<product, inHC, batch, request, log, post, alert>>

\* What a page checks before it asks for the transition.
Open(u, action, r) ==
    /\ InGroup(u, action) /\ Exists(r) /\ HasComment(u, r)
    /\ Cardinality(post) < MaxPosts
    /\ post' = post \cup {[user |-> u, action |-> action, request |-> r,
                           stage |-> "deciding"]}
    /\ UNCHANGED <<product, inHC, batch, request, log, comment, alert>>

\* HC_STATUS_TRANSITIONS
Transitions == [Reviewed |-> {"Pending"},
                Approved |-> {"Reviewed"},
                Rejected |-> {"Pending", "Reviewed"}]

\* _validate_hc_status_transition on the row that was locked
Valid(m) == request[m.request].status \in Transitions[m.action]

ReviewedRow(x, u) == [x EXCEPT !.status = "Reviewed", !.reviewed_by = u]

ApprovedRow(x, u) ==
    [x EXCEPT !.status = "Approved", !.final_status = "Approved",
              !.approved_by = u]

\* Seeded fault: whoever rejects is taken for the reviewer.
RejectedAndReviewedRow(x, u) ==
    [x EXCEPT !.status = "Rejected", !.final_status = "Rejected",
              !.rejected_by = u, !.reviewed_by = u]

\* reviewed_at and reviewed_by are set together.
RejectedRow(x, u) ==
    [x EXCEPT !.status = "Rejected", !.final_status = "Rejected",
              !.rejected_by = u,
              !.reviewed_by = IF @ = Nobody THEN u ELSE @]

\* The row and its log are written by one transaction.
Decide(m, action, row) ==
    /\ m \in post /\ m.stage = "deciding" /\ m.action = action /\ Valid(m)
    /\ request' = [request EXCEPT ![m.request] = row]
    /\ log' = [log EXCEPT ![m.request] = Append(@,
           [changed_by |-> m.user, previous |-> request[m.request].status,
            current |-> action])]
    /\ post' = (post \ {m}) \cup {[m EXCEPT !.stage = "notifying"]}
    /\ UNCHANGED <<product, inHC, batch, comment, alert>>

\* mark_hc_participation_reviewed
MarkReviewed(m) ==
    Decide(m, "Reviewed", ReviewedRow(request[m.request], m.user))

\* approve_hc_participation
Approve(m) == Decide(m, "Approved", ApprovedRow(request[m.request], m.user))

\* reject_hc_participation
Reject(m) == Decide(m, "Rejected", RejectedRow(request[m.request], m.user))

\* InvalidHCParticipationTransition, or the request is gone.
Refuse(m) ==
    /\ m \in post /\ m.stage = "deciding" /\ ~Valid(m)
    /\ post' = post \ {m}
    /\ UNCHANGED <<product, inHC, batch, request, log, comment, alert>>

\* The approvers hear of a review, the person who ran the batch of a decision.
Told(m) ==
    IF m.action = "Reviewed" THEN Approvers # {} ELSE m.request[1] \in Manual

\* create_notification.  It reads the name of the product, which may be gone.
Notify(m) ==
    /\ m \in post /\ m.stage = "notifying"
    /\ alert' = IF Told(m) /\ m.request[2] \in product
                THEN alert \cup {<<m.action, m.request>>} ELSE alert
    /\ post' = post \ {m}
    /\ UNCHANGED <<product, inHC, batch, request, log, comment>>

-----------------------------------------------------------------------------
(***************************************************************************)
(* The rest of the application.                                            *)
(***************************************************************************)

\* A report with a hacking tag is imported, or the last one gets too old.
JoinOrLeave(p) ==
    /\ p \in product
    /\ inHC' = IF p \in inHC THEN inHC \ {p} ELSE inHC \cup {p}
    /\ UNCHANGED <<product, batch, request, pages, alert>>

\* A product is deleted with its requests, their logs and their comments; a
\* batch that has locked the row comes first, and what it then files for the
\* product makes the deletion fail.
DeleteProduct(p) ==
    /\ p \in product
    /\ \A b \in Batches : p \notin batch[b].held
    /\ product' = product \ {p}
    /\ inHC' = inHC \ {p}
    /\ request' = [r \in Requests |-> IF r[2] = p THEN NoRow ELSE request[r]]
    /\ log' = [r \in Requests |-> IF r[2] = p THEN << >> ELSE log[r]]
    /\ comment' = {c \in comment : c[1][2] # p}
    /\ UNCHANGED <<batch, post, alert>>

Next ==
    \/ \E b \in Batches : Start(b) \/ BatchStep(b) \/ Crash(b)
    \/ \E u \in Users, r \in Requests : AddComment(u, r) \/ DeleteComment(u, r)
    \/ \E u \in Users, a \in Actions, r \in Requests : Open(u, a, r)
    \/ \E m \in post : MarkReviewed(m) \/ Approve(m) \/ Reject(m)
                       \/ Refuse(m) \/ Notify(m)
    \/ \E p \in Products : JoinOrLeave(p) \/ DeleteProduct(p)

Spec == Init /\ [][Next]_vars

\* A batch that runs, and a page that has decided, are not stopped.
FairSpec ==
    /\ Spec
    /\ \A b \in Batches : WF_vars(BatchStep(b))
    /\ WF_vars(\E m \in post : Notify(m))

-----------------------------------------------------------------------------
(***************************************************************************)
(* Properties.                                                             *)
(***************************************************************************)

\* Rows are well typed; a batch holds locks only inside its transaction, and
\* has locked every product it files a request for.
TypeOK ==
    /\ product \subseteq Products /\ inHC \subseteq product
    /\ batch \in [Batches -> Batch]
    /\ request \in [Requests -> Row]
    /\ log \in [Requests -> Seq(Entry)]
    /\ comment \subseteq Requests \X Users
    /\ post \subseteq Post
    /\ alert \subseteq Status \X Requests
    /\ \A b \in Batches :
           /\ batch[b].held # {} => Filing(b)
           /\ batch[b].stage \in {"new", "running"} =>
                  batch[b].created \subseteq batch[b].held

\* A product never has two requests that wait for a decision, however many
\* batches run at once (the check for an existing one, helpers.py:224-233).
OneActive ==
    \A b, c \in Batches : \A p \in Products :
        Active(<<b, p>>) /\ Active(<<c, p>>) => b = c

WaitsFor(b, c) ==
    \E p \in batch[c].held : Filing(b) /\ NextInOrder(b, p) /\ b # c

\* Batches never wait for each other in a circle: locks are taken in the
\* order of the products (helpers.py:220).
NoDeadlock ==
    \A S \in SUBSET Batches :
        S # {} => \E b \in S : \A c \in S : ~WaitsFor(b, c)

ByReviewer(x) == [changed_by |-> x.reviewed_by,
                  previous |-> "Pending", current |-> "Reviewed"]

\* The ways to the status of row x that log l may tell.
Trail(x, l) ==
    \/ /\ x.status \in {"None", "Pending"} /\ x.final_status = "None"
       /\ l = << >>
    \/ /\ x.status = "Reviewed" /\ x.final_status = "None"
       /\ l = <<ByReviewer(x)>>
    \/ /\ x.status = "Approved" /\ x.final_status = "Approved"
       /\ InGroup(x.reviewed_by, "Reviewed") /\ InGroup(x.approved_by, "Approved")
       /\ l = <<ByReviewer(x), [changed_by |-> x.approved_by,
                    previous |-> "Reviewed", current |-> "Approved"]>>
    \/ /\ x.status = "Rejected" /\ x.final_status = "Rejected"
       /\ l = <<ByReviewer(x), [changed_by |-> x.rejected_by,
                    previous |-> "Reviewed", current |-> "Rejected"]>>
    \/ /\ x.status = "Rejected" /\ x.final_status = "Rejected"
       /\ x.reviewed_by = x.rejected_by
       /\ l = <<[changed_by |-> x.rejected_by,
                 previous |-> "Pending", current |-> "Rejected"]>>

\* The log of a request tells how it came to its status and who took each
\* step, and names the persons of the row: of two pages that decide at once
\* one is refused, and nothing is approved without a review by someone who may
\* review (helpers.py:296-402).
Audited == \A r \in Requests : Trail(request[r], log[r])

\* Every batch that starts comes to an end (helpers.py:164-267).
BatchEnds ==
    \A b \in Batches : batch[b].stage = "running" ~>
        batch[b].stage \in {"ended", "failed", "crashed"}

\* The reviewers hear of every request that a batch has filed, unless its
\* worker died, and whoever ran the batch hears of the decision, unless the
\* product is gone (helpers.py:235-236, 347-357, 390-400).
AllAreTold ==
    \A r \in Requests :
        /\ Exists(r) /\ Reviewers # {} ~>
               <<"Pending", r>> \in alert \/ batch[r[1]].stage = "crashed"
        /\ \A s \in {"Approved", "Rejected"} :
               request[r].status = s /\ r[1] \in Manual ~>
                   <<s, r>> \in alert \/ r[2] \notin product
=============================================================================
