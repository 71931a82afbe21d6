------------------------ MODULE HCParticipationProofs ------------------------
(***************************************************************************)
(* Proofs about HCParticipation, for any finite set of products and any    *)
(* batches and users.                                                       *)
(***************************************************************************)
EXTENDS HCParticipation, FiniteSetTheorems, SequenceTheorems, TLAPS

-----------------------------------------------------------------------------
(***************************************************************************)
(* Type correctness.                                                       *)
(***************************************************************************)

LEMMA InitTypes == Init => TypeOK
BY DEF Init, TypeOK, Batch, NewBatch, Row, NoRow, Status, Filing

\* A batch that writes a well-formed row of its own keeps the types.
LEMMA BatchTypes ==
    ASSUME TypeOK, NEW b \in Batches, NEW row \in Batch,
           batch' = [batch EXCEPT ![b] = row],
           row.held # {} => row.stage = "running" /\ row.left = {},
           row.stage \in {"new", "running"} => row.created \subseteq row.held,
           UNCHANGED <<product, inHC, pages>>,
           request' \in [Requests -> Row],
           alert' \subseteq Status \X Requests
    PROVE  TypeOK'
<1>1. \A c \in Batches : batch'[c] = IF c = b THEN row ELSE batch[c]
  BY DEF TypeOK
<1>2. batch' \in [Batches -> Batch]
  BY DEF TypeOK
<1>3. ASSUME NEW c \in Batches
      PROVE  /\ batch'[c].held # {} => Filing(c)'
             /\ batch'[c].stage \in {"new", "running"} =>
                    batch'[c].created \subseteq batch'[c].held
  BY <1>1 DEF TypeOK, Filing
<1> QED  BY <1>2, <1>3 DEF TypeOK, pages

LEMMA BatchStepTypes ==
    ASSUME TypeOK, NEW b \in Batches, Start(b) \/ BatchStep(b) \/ Crash(b)
    PROVE  TypeOK'
<1> DEFINE x == batch[b]
<1>1. /\ x \in Batch
      /\ x.held # {} => x.stage = "running" /\ x.left = {}
      /\ x.stage \in {"new", "running"} => x.created \subseteq x.held
  BY DEF TypeOK, Filing
<1>2. CASE Start(b)
  <2> DEFINE row == [x EXCEPT
                 !.stage = IF product = {} THEN "ended" ELSE "running",
                 !.left = product]
  <2>1. batch' = [batch EXCEPT ![b] = row]
    BY <1>2 DEF Start, TypeOK, Batch
  <2>2. row \in Batch /\ row.held = {} /\ row.created = {}
    BY <1>1, <1>2 DEF Start, TypeOK, Batch
  <2> QED  BY ZenonT(30), <1>2, <2>1, <2>2, BatchTypes DEF Start, TypeOK, Batch
<1>3. ASSUME NEW p \in Products, Evaluate(b, p) \/ EvaluateFails(b, p)
      PROVE  TypeOK'
  <2>1. PICK row \in Batch :
            /\ batch' = [batch EXCEPT ![b] = row]
            /\ row.held = x.held /\ row.created = x.created
    <3>1. CASE Evaluate(b, p)
      <4> DEFINE row == [x EXCEPT !.left = @ \ {p},
                    !.todo = IF Postulated(p) THEN @ \cup {p} ELSE @]
      <4>1. row \in Batch /\ row.held = x.held /\ row.created = x.created
        BY <1>1 DEF Batch
      <4>2. batch' = [batch EXCEPT ![b] = row]
        BY <3>1 DEF Evaluate, TypeOK, Batch
      <4> QED  BY <4>1, <4>2
    <3>2. CASE EvaluateFails(b, p)
      <4> DEFINE row == [x EXCEPT !.left = @ \ {p}]
      <4>1. row \in Batch /\ row.held = x.held /\ row.created = x.created
        BY <1>1 DEF Batch
      <4>2. batch' = [batch EXCEPT ![b] = row]
        BY <3>2 DEF EvaluateFails, TypeOK, Batch
      <4> QED  BY <4>1, <4>2
    <3> QED  BY <1>3, <3>1, <3>2
  <2>2. x.held = {} /\ x.created = {}
    BY <1>1, <1>3 DEF Evaluate, EvaluateFails
  <2> QED
    BY <1>3, <2>1, <2>2, BatchTypes DEF Evaluate, EvaluateFails, TypeOK
<1>4. ASSUME NEW p \in Products, Lock(b, p) PROVE TypeOK'
  <2> DEFINE row == [x EXCEPT !.held = @ \cup {p}]
  <2>1. row \in Batch /\ row.stage = "running" /\ row.left = {}
    BY <1>1, <1>4 DEF Lock, Filing, Batch
  <2>2. row.created \subseteq row.held
    BY <1>1, <1>4 DEF Lock, Filing, Batch
  <2>3. batch' = [batch EXCEPT ![b] = row]
    BY <1>4 DEF Lock
  <2> QED  BY <1>4, <2>1, <2>2, <2>3, BatchTypes DEF Lock, TypeOK
<1>5. ASSUME NEW p \in Products, Save(b, p) PROVE TypeOK'
  <2> DEFINE row == [x EXCEPT !.todo = @ \ {p},
                 !.created = IF \E c \in Batches : Active(<<c, p>>)
                             THEN @ ELSE @ \cup {p}]
  <2>1. row \in Batch /\ row.stage = "running" /\ row.left = {}
    BY <1>1, <1>5 DEF Save, Filing, Batch
  <2>2. row.created \subseteq row.held
    BY <1>1, <1>5 DEF Save, Filing, Batch
  <2>3. batch' = [batch EXCEPT ![b] = row]
    BY <1>5 DEF Save, TypeOK, Batch
  <2> QED  BY ZenonT(30), <1>5, <2>1, <2>2, <2>3, BatchTypes DEF Save, TypeOK
<1>6. ASSUME NEW p \in Products, Fail(b, p) PROVE TypeOK'
  <2>1. RolledBack(x) \in Batch
    BY <1>1 DEF RolledBack, Batch
  <2>2. RolledBack(x).held = {} /\ RolledBack(x).stage = "failed"
    BY <1>1 DEF RolledBack, Batch
  <2> QED  BY <1>6, <2>1, <2>2, BatchTypes DEF Fail, TypeOK
<1>7. CASE Commit(b)
  <2>1. /\ Committed(x) \in Batch /\ Committed(x).held = {}
        /\ Committed(x).stage \in {"ended", "notifying"}
    BY <1>1 DEF Committed, Batch
  <2>2. request' \in [Requests -> Row]
    BY <1>7 DEF Commit, TypeOK, Row, NewRow, NoRow, Status
  <2> QED  BY <1>7, <2>1, <2>2, BatchTypes DEF Commit, TypeOK
<1>8. CASE NotifyReviewers(b)
  <2> DEFINE row == [x EXCEPT !.stage = "ended"]
  <2>1. row \in Batch /\ row.stage = "ended" /\ row.held = {}
    BY <1>1, <1>8 DEF NotifyReviewers, Batch
  <2>2. \A p \in x.created : <<"Pending", <<b, p>>>> \in Status \X Requests
    BY <1>1 DEF Batch, Status, Requests
  <2>3. alert' \subseteq Status \X Requests
    BY <1>8, <2>2 DEF NotifyReviewers, TypeOK
  <2> QED  BY <1>8, <2>1, <2>3, BatchTypes DEF NotifyReviewers, TypeOK
<1>9. CASE Crash(b)
  <2> DEFINE row == [RolledBack(x) EXCEPT !.stage = "crashed", !.left = {}]
  <2>1. row \in Batch /\ row.stage = "crashed" /\ row.held = {}
    BY <1>1 DEF RolledBack, Batch
  <2> QED  BY <1>9, <2>1, BatchTypes DEF Crash, TypeOK
<1> QED
  BY <1>2, <1>3, <1>4, <1>5, <1>6, <1>7, <1>8, <1>9 DEF BatchStep

LEMMA DecideTypes ==
    ASSUME TypeOK, NEW m, MarkReviewed(m) \/ Approve(m) \/ Reject(m)
    PROVE  TypeOK'
<1> USE DEF MarkReviewed, Approve, Reject
<1> DEFINE r == m.request
           x == request[r]
<1>1. m \in Post /\ m \in post
  BY DEF Decide, TypeOK
<1>2. r \in Requests /\ m.user \in Users /\ m.action \in Actions /\ x \in Row
  BY <1>1 DEF TypeOK, Post
<1>3. /\ ReviewedRow(x, m.user) \in Row
      /\ ApprovedRow(x, m.user) \in Row
      /\ RejectedRow(x, m.user) \in Row
  BY <1>2 DEF ReviewedRow, ApprovedRow, RejectedRow, Row, Status
<1>4. request' \in [Requests -> Row]
  BY <1>2, <1>3 DEF Decide, TypeOK
<1>5. [changed_by |-> m.user, previous |-> x.status, current |-> m.action]
          \in Entry
  BY <1>2 DEF Entry, Row, Status, Actions
<1>6. log' \in [Requests -> Seq(Entry)]
  <2> DEFINE e == [changed_by |-> m.user, previous |-> x.status,
                   current |-> m.action]
  <2>1. log' = [log EXCEPT ![r] = Append(log[r], e)]
    BY DEF Decide
  <2>2. log \in [Requests -> Seq(Entry)] /\ log[r] \in Seq(Entry)
    BY <1>2 DEF TypeOK
  <2>3. e \in Entry
    BY <1>5
  <2> HIDE DEF e
  <2>4. Append(log[r], e) \in Seq(Entry)
    BY <2>2, <2>3
  <2> QED  BY <2>1, <2>2, <2>4
<1>7. [m EXCEPT !.stage = "notifying"] \in Post
  BY <1>1 DEF Post
<1>8. post' \subseteq Post
  BY <1>7 DEF Decide, TypeOK
<1> QED  BY <1>4, <1>6, <1>8 DEF Decide, TypeOK, Filing

LEMMA NextTypes == TypeOK /\ [Next]_vars => TypeOK'
<1> SUFFICES ASSUME TypeOK, [Next]_vars PROVE TypeOK'
  OBVIOUS
<1>1. ASSUME NEW b \in Batches, Start(b) \/ BatchStep(b) \/ Crash(b)
      PROVE  TypeOK'
  BY <1>1, BatchStepTypes
<1>2. ASSUME NEW u \in Users, NEW r \in Requests,
             AddComment(u, r) \/ DeleteComment(u, r)
      PROVE  TypeOK'
  BY <1>2 DEF AddComment, DeleteComment, TypeOK, Filing
<1>3. ASSUME NEW u \in Users, NEW a \in Actions, NEW r \in Requests,
             Open(u, a, r)
      PROVE  TypeOK'
  BY <1>3 DEF Open, TypeOK, Post, Filing
<1>4. ASSUME NEW m, MarkReviewed(m) \/ Approve(m) \/ Reject(m) PROVE TypeOK'
  BY <1>4, DecideTypes
<1>5. ASSUME NEW m, Refuse(m) PROVE TypeOK'
  BY <1>5 DEF Refuse, TypeOK, Filing
<1>6. ASSUME NEW m, Notify(m) PROVE TypeOK'
  <2>1. m \in Post
    BY <1>6 DEF Notify, TypeOK
  <2>2. <<m.action, m.request>> \in Status \X Requests
    BY <2>1 DEF Post, Actions, Status
  <2> QED  BY <1>6, <2>2 DEF Notify, TypeOK, Filing
<1>7. ASSUME NEW p \in Products, JoinOrLeave(p) PROVE TypeOK'
  BY <1>7 DEF JoinOrLeave, TypeOK, pages, Filing
<1>8. ASSUME NEW p \in Products, DeleteProduct(p) PROVE TypeOK'
  <2>1. NoRow \in Row
    BY DEF NoRow, Row, Status
  <2>2. request' \in [Requests -> Row] /\ log' \in [Requests -> Seq(Entry)]
    BY <1>8, <2>1 DEF DeleteProduct, TypeOK
  <2> QED  BY <1>8, <2>2 DEF DeleteProduct, TypeOK, Filing
<1>9. CASE UNCHANGED vars
  BY <1>9 DEF vars, TypeOK, Filing
<1> QED
  BY <1>1, <1>2, <1>3, <1>4, <1>5, <1>6, <1>7, <1>8, <1>9 DEF Next

\* Rows stay well typed, and locks stay inside the transactions.
THEOREM HCTyping == Spec => []TypeOK
BY InitTypes, NextTypes, PTL DEF Spec

-----------------------------------------------------------------------------
(***************************************************************************)
(* Locks.  What a transaction has locked nobody else has; what it has      *)
(* created has no other request that waits for a decision; and it holds    *)
(* no product after one that it still has to lock.                         *)
(***************************************************************************)

Exclusive ==
    \A b, c \in Batches : \A p \in batch[b].held \cap batch[c].held : b = c

Uncontested ==
    \A b, c \in Batches : batch[b].stage = "running" =>
        \A p \in batch[b].created : ~Active(<<c, p>>)

Ordered ==
    \A b \in Batches : \A p \in batch[b].held, q \in batch[b].todo : p <= q

Locking == Exclusive /\ Uncontested /\ Ordered

LEMMA InitLocking == Init => Locking
BY DEF Init, Locking, Exclusive, Uncontested, Ordered, NewBatch

\* A decision finds the request active, so that no page makes it active.
LEMMA DecideKeepsInactive ==
    ASSUME TypeOK, NEW m, MarkReviewed(m) \/ Approve(m) \/ Reject(m),
           NEW r \in Requests, Active(r)'
    PROVE  Active(r)
<1> USE DEF MarkReviewed, Approve, Reject
<1>1. m.request \in Requests /\ m.action \in Actions
  BY DEF Decide, TypeOK, Post
<1>2. request[m.request].status \in {"Pending", "Reviewed"}
  BY <1>1 DEF Decide, Valid, Transitions, Actions
<1>3. CASE r = m.request
  BY <1>2, <1>3 DEF Active
<1>4. CASE r # m.request
  BY <1>1, <1>4 DEF Decide, Active, TypeOK
<1> QED  BY <1>3, <1>4

\* A step of a batch that holds no more, wants no more and has created no
\* more than before keeps the locks in order.
LEMMA LocksShrink ==
    ASSUME TypeOK, Locking, NEW b \in Batches, NEW row \in Batch,
           batch' = [batch EXCEPT ![b] = row],
           row.held \subseteq batch[b].held,
           row.todo \subseteq batch[b].todo \/ row.held = {},
           row.stage = "running" =>
               /\ batch[b].stage = "running" \/ row.created = {}
               /\ row.created \subseteq batch[b].created,
           \A r \in Requests : Active(r)' => Active(r)
    PROVE  Locking'
<1>1. \A c \in Batches : batch'[c] = IF c = b THEN row ELSE batch[c]
  BY DEF TypeOK
<1>2. \A c \in Batches : batch[c] \in Batch
  BY DEF TypeOK
<1>3. Exclusive'
  BY <1>1 DEF Locking, Exclusive
<1>4. Uncontested'
  <2> SUFFICES ASSUME NEW c \in Batches, NEW d \in Batches,
                      batch'[c].stage = "running",
                      NEW p \in batch'[c].created, Active(<<d, p>>)'
               PROVE  FALSE
    BY DEF Uncontested
  <2>1. p \in batch[c].created /\ batch[c].stage = "running"
    BY <1>1
  <2>2. <<d, p>> \in Requests
    BY <1>2, <2>1 DEF Batch, Requests
  <2> QED  BY <2>1, <2>2 DEF Locking, Uncontested
<1>5. Ordered'
  BY <1>1 DEF Locking, Ordered
<1> QED  BY <1>3, <1>4, <1>5 DEF Locking

LEMMA LockLocking ==
    ASSUME TypeOK, Locking, NEW b \in Batches, NEW p \in Products, Lock(b, p)
    PROVE  Locking'
<1>1. batch' = [batch EXCEPT ![b].held = @ \cup {p}] /\ request' = request
  BY DEF Lock
<1>2. \A c \in Batches : batch[c] \in Batch
  BY DEF TypeOK
<1>3. \A c \in Batches :
          /\ batch'[c].held = IF c = b THEN batch[c].held \cup {p}
                              ELSE batch[c].held
          /\ batch'[c].todo = batch[c].todo
          /\ batch'[c].created = batch[c].created
          /\ batch'[c].stage = batch[c].stage
  BY <1>1, <1>2 DEF TypeOK, Batch
<1>4. Exclusive'
  <2>1. \A c \in Batches \ {b} : p \notin batch[c].held
    BY DEF Lock, Free
  <2> SUFFICES ASSUME NEW c \in Batches, NEW d \in Batches,
                      NEW q \in batch'[c].held, q \in batch'[d].held
               PROVE  c = d
    BY DEF Exclusive
  <2>2. CASE q = p /\ q \notin batch[b].held
    BY <1>3, <2>1, <2>2
  <2>3. CASE q # p \/ q \in batch[b].held
    <3>1. q \in batch[c].held
      BY <1>3, <2>3
    <3>2. q \in batch[d].held
      BY <1>3, <2>3
    <3> QED  BY <3>1, <3>2 DEF Locking, Exclusive
  <2> QED  BY <2>2, <2>3
<1>5. Uncontested'
  BY <1>1, <1>3 DEF Locking, Uncontested, Active
<1>6. Ordered'
  <2>1. \A q \in batch[b].todo : p <= q
    BY DEF Lock, NextInOrder
  <2> QED  BY <1>3, <2>1 DEF Locking, Ordered
<1> QED  BY <1>4, <1>5, <1>6 DEF Locking

LEMMA SaveLocking ==
    ASSUME TypeOK, Locking, NEW b \in Batches, NEW p \in Products, Save(b, p)
    PROVE  Locking'
<1>1. request' = request /\ batch[b] \in Batch /\ batch[b].stage = "running"
  BY DEF Save, TypeOK, Filing
<1>2. \A c \in Batches : batch[c] \in Batch
  BY DEF TypeOK
<1>3. \A c \in Batches :
          /\ batch'[c].held = batch[c].held
          /\ batch'[c].todo \subseteq batch[c].todo
          /\ batch'[c].stage = batch[c].stage
          /\ c # b => batch'[c].created = batch[c].created
  BY <1>2 DEF Save, TypeOK, Batch
<1>4. batch'[b].created = IF \E c \in Batches : Active(<<c, p>>)
                          THEN batch[b].created ELSE batch[b].created \cup {p}
  BY <1>2 DEF Save, TypeOK, Batch
<1>5. Exclusive'
  BY <1>3 DEF Locking, Exclusive
<1>6. Uncontested'
  <2> SUFFICES ASSUME NEW c \in Batches, NEW d \in Batches,
                      batch'[c].stage = "running",
                      NEW q \in batch'[c].created, Active(<<d, q>>)
               PROVE  FALSE
    BY <1>1 DEF Uncontested, Active
  <2>1. CASE q \in batch[c].created
    BY <1>3, <2>1 DEF Locking, Uncontested
  <2>2. CASE q \notin batch[c].created
    BY <1>3, <1>4, <2>2
  <2> QED  BY <2>1, <2>2
<1>7. Ordered'
  BY <1>3 DEF Locking, Ordered
<1> QED  BY <1>5, <1>6, <1>7 DEF Locking

\* A batch that commits makes requests active only for products it has
\* locked, which no other transaction has created a request for.
LEMMA CommitLocking ==
    ASSUME TypeOK, Locking, NEW b \in Batches, Commit(b)
    PROVE  Locking'
<1> DEFINE row == Committed(batch[b])
<1>1. batch[b] \in Batch /\ batch' = [batch EXCEPT ![b] = row]
  BY DEF Commit, TypeOK
<1>2. row.held = {} /\ row.stage # "running"
  BY <1>1 DEF Committed, Batch
<1>3. \A c \in Batches : batch'[c] = IF c = b THEN row ELSE batch[c]
  BY <1>1 DEF TypeOK
<1>4. Exclusive'
  BY <1>2, <1>3 DEF Locking, Exclusive
<1>5. Uncontested'
  <2> SUFFICES ASSUME NEW c \in Batches, NEW d \in Batches,
                      batch'[c].stage = "running",
                      NEW p \in batch'[c].created, Active(<<d, p>>)'
               PROVE  FALSE
    BY DEF Uncontested
  <2>1. c # b /\ batch[c].stage = "running" /\ p \in batch[c].created
    BY <1>2, <1>3
  <2>2. p \in batch[c].held /\ <<d, p>> \in Requests
    BY <2>1 DEF TypeOK, Batch, Requests
  <2>3. ~Active(<<d, p>>)
    BY <2>1 DEF Locking, Uncontested
  <2>4. d = b /\ p \in batch[b].created
    BY <2>2, <2>3 DEF Commit, Active
  <2>5. p \in batch[b].held
    BY <2>4 DEF Commit, Filing, TypeOK
  <2> QED  BY <2>1, <2>2, <2>5 DEF Locking, Exclusive
<1>6. Ordered'
  BY <1>2, <1>3 DEF Locking, Ordered
<1> QED  BY <1>4, <1>5, <1>6 DEF Locking

LEMMA BatchStepLocking ==
    ASSUME TypeOK, Locking, NEW b \in Batches,
           Start(b) \/ BatchStep(b) \/ Crash(b)
    PROVE  Locking'
<1> DEFINE x == batch[b]
<1>1. /\ x \in Batch
      /\ x.held # {} => x.stage = "running" /\ x.left = {}
      /\ x.stage \in {"new", "running"} => x.created \subseteq x.held
  BY DEF TypeOK, Filing
<1>2. request' = request => \A r \in Requests : Active(r)' => Active(r)
  BY DEF Active
<1>3. CASE Start(b)
  <2> DEFINE row == [x EXCEPT
                 !.stage = IF product = {} THEN "ended" ELSE "running",
                 !.left = product]
  <2>1. batch' = [batch EXCEPT ![b] = row]
    BY <1>3 DEF Start, TypeOK, Batch
  <2>2. row \in Batch /\ row.held = {} /\ row.created = {}
    BY <1>1, <1>3 DEF Start, TypeOK, Batch
  <2> QED  BY ZenonT(30), <1>2, <1>3, <2>1, <2>2, LocksShrink DEF Start
<1>4. ASSUME NEW p \in Products, Evaluate(b, p) \/ EvaluateFails(b, p)
      PROVE  Locking'
  <2>1. x.held = {} /\ x.created = {}
    BY <1>1, <1>4 DEF Evaluate, EvaluateFails
  <2>2. CASE Evaluate(b, p)
    <3> DEFINE row == [x EXCEPT !.left = @ \ {p},
                  !.todo = IF Postulated(p) THEN @ \cup {p} ELSE @]
    <3>1. row \in Batch /\ row.held = x.held /\ row.created = x.created
      BY <1>1 DEF Batch
    <3>2. batch' = [batch EXCEPT ![b] = row] /\ request' = request
      BY <2>2 DEF Evaluate, TypeOK, Batch
    <3> HIDE DEF row
    <3> QED  BY <1>2, <2>1, <3>1, <3>2, LocksShrink
  <2>3. CASE EvaluateFails(b, p)
    <3> DEFINE row == [x EXCEPT !.left = @ \ {p}]
    <3>1. row \in Batch /\ row.held = x.held /\ row.created = x.created
      BY <1>1 DEF Batch
    <3>2. batch' = [batch EXCEPT ![b] = row]
      BY <2>3 DEF EvaluateFails, TypeOK, Batch
    <3> QED  BY <1>2, <2>1, <2>3, <3>1, <3>2, LocksShrink DEF EvaluateFails
  <2> QED  BY <1>4, <2>2, <2>3
<1>5. ASSUME NEW p \in Products, Fail(b, p) PROVE Locking'
  <2>1. /\ RolledBack(x) \in Batch /\ RolledBack(x).held = {}
        /\ RolledBack(x).stage = "failed"
    BY <1>1 DEF RolledBack, Batch
  <2> QED  BY <1>2, <1>5, <2>1, LocksShrink DEF Fail
<1>6. CASE NotifyReviewers(b)
  <2> DEFINE row == [x EXCEPT !.stage = "ended"]
  <2>1. row \in Batch /\ row.stage = "ended" /\ row.held = {}
    BY <1>1, <1>6 DEF NotifyReviewers, Batch
  <2> QED  BY <1>2, <1>6, <2>1, LocksShrink DEF NotifyReviewers
<1>7. CASE Crash(b)
  <2> DEFINE row == [RolledBack(x) EXCEPT !.stage = "crashed", !.left = {}]
  <2>1. row \in Batch /\ row.stage = "crashed" /\ row.held = {}
    BY <1>1 DEF RolledBack, Batch
  <2> QED  BY <1>2, <1>7, <2>1, LocksShrink DEF Crash
<1> QED
  BY <1>3, <1>4, <1>5, <1>6, <1>7, LockLocking, SaveLocking, CommitLocking
     DEF BatchStep

\* Steps of the pages and of the rest of the application lock nothing.
LEMMA OtherLocking ==
    ASSUME TypeOK, Locking, batch' = batch,
           \A r \in Requests : Active(r)' => Active(r)
    PROVE  Locking'
<1>1. \A b, c \in Batches : \A p \in batch[b].created : <<c, p>> \in Requests
  BY DEF TypeOK, Batch, Requests
<1> QED  BY <1>1 DEF Locking, Exclusive, Uncontested, Ordered

LEMMA NextLocking == TypeOK /\ Locking /\ [Next]_vars => Locking'
<1> SUFFICES ASSUME TypeOK, Locking, [Next]_vars PROVE Locking'
  OBVIOUS
<1>1. ASSUME NEW b \in Batches, Start(b) \/ BatchStep(b) \/ Crash(b)
      PROVE  Locking'
  BY <1>1, BatchStepLocking
<1>2. CASE request' = request /\ batch' = batch
  BY <1>2, OtherLocking DEF Active
<1>3. ASSUME NEW m, MarkReviewed(m) \/ Approve(m) \/ Reject(m)
      PROVE  Locking'
  BY <1>3, DecideKeepsInactive, OtherLocking
     DEF MarkReviewed, Approve, Reject, Decide
<1>4. ASSUME NEW p \in Products, DeleteProduct(p) PROVE Locking'
  <2>1. \A r \in Requests : Active(r)' => Active(r)
    BY <1>4 DEF DeleteProduct, Active, NoRow
  <2> QED  BY <1>4, <2>1, OtherLocking DEF DeleteProduct
<1> QED
  BY <1>1, <1>2, <1>3, <1>4 DEF Next, AddComment, DeleteComment, Open, Refuse,
     Notify, JoinOrLeave, vars

-----------------------------------------------------------------------------
(***************************************************************************)
(* One active request.                                                     *)
(***************************************************************************)

LEMMA InitOneActive == Init => OneActive
BY DEF Init, OneActive, Active, NoRow, Requests

LEMMA NextOneActive ==
    TypeOK /\ Locking /\ OneActive /\ [Next]_vars => OneActive'
<1> SUFFICES ASSUME TypeOK, Locking, OneActive, [Next]_vars PROVE OneActive'
  OBVIOUS
<1>1. CASE \A r \in Requests : Active(r)' => Active(r)
  BY <1>1 DEF OneActive, Requests
<1>2. ASSUME NEW b \in Batches, Commit(b) PROVE OneActive'
  <2> SUFFICES ASSUME NEW c \in Batches, NEW d \in Batches,
                      NEW p \in Products,
                      Active(<<c, p>>)', Active(<<d, p>>)'
               PROVE  c = d
    BY DEF OneActive
  <2>1. batch[b].stage = "running" /\ <<c, p>> \in Requests
                                   /\ <<d, p>> \in Requests
    BY <1>2 DEF Commit, Filing, Requests
  <2>2. Active(<<c, p>>) \/ (c = b /\ p \in batch[b].created)
    BY <1>2, <2>1 DEF Commit, Active
  <2>3. Active(<<d, p>>) \/ (d = b /\ p \in batch[b].created)
    BY <1>2, <2>1 DEF Commit, Active
  <2>4. p \in batch[b].created => ~Active(<<c, p>>) /\ ~Active(<<d, p>>)
    BY <2>1 DEF Locking, Uncontested
  <2> QED  BY <2>2, <2>3, <2>4 DEF OneActive
<1>3. CASE request' = request
  BY <1>1, <1>3 DEF Active
<1>4. ASSUME NEW m, MarkReviewed(m) \/ Approve(m) \/ Reject(m)
      PROVE  OneActive'
  BY <1>1, <1>4, DecideKeepsInactive
<1>5. ASSUME NEW p \in Products, DeleteProduct(p) PROVE OneActive'
  <2>1. \A r \in Requests : Active(r)' => Active(r)
    BY <1>5 DEF DeleteProduct, Active, NoRow
  <2> QED  BY <1>1, <2>1
<1> QED
  BY <1>2, <1>3, <1>4, <1>5 DEF Next, Start, BatchStep, Crash, Evaluate,
     EvaluateFails, Lock, Save, Fail, NotifyReviewers, AddComment,
     DeleteComment, Open, Refuse, Notify, JoinOrLeave, vars

\* A product never has two requests that wait for a decision, however many
\* batches run at once.
THEOREM HCOneActive == Spec => []OneActive
<1>1. Init => TypeOK /\ Locking /\ OneActive
  BY InitTypes, InitLocking, InitOneActive
<1>2. (TypeOK /\ Locking /\ OneActive) /\ [Next]_vars
          => (TypeOK /\ Locking /\ OneActive)'
  BY NextTypes, NextLocking, NextOneActive
<1> QED  BY <1>1, <1>2, PTL DEF Spec

-----------------------------------------------------------------------------
(***************************************************************************)
(* No circle of batches that wait.                                         *)
(***************************************************************************)

\* A finite set of numbers that has a member has a greatest one.
LEMMA GreatestExists ==
    ASSUME NEW T \in SUBSET Nat, IsFiniteSet(T), T # {}
    PROVE  \E x \in T : \A y \in T : y <= x
<1> DEFINE above(x) == {y \in T : x < y}
           F == {above(x) : x \in T}
<1>1. IsWellFoundedOn(StrictSubsetOrdering(T), FiniteSubsetsOf(T))
  BY FS_StrictSubsetOrderingWellFounded
<1>2. F \subseteq FiniteSubsetsOf(T) /\ F # {}
  <2>1. FiniteSubsetsOf(T) = SUBSET T
    BY FS_FiniteSubsetsOfFinite
  <2>2. \A x \in T : above(x) \in SUBSET T /\ above(x) \in F
    OBVIOUS
  <2>3. F \subseteq SUBSET T
    BY <2>2
  <2>4. F # {}
    BY <2>2
  <2> QED  BY <2>1, <2>3, <2>4
<1>3. PICK A \in F : \A B \in F : ~ (<<B, A>> \in StrictSubsetOrdering(T))
  <2> HIDE DEF F
  <2> QED  BY <1>1, <1>2, WFMin
<1>4. PICK x \in T : A = above(x)
  BY <1>3
<1>5. ASSUME NEW y \in T, x < y PROVE FALSE
  <2>1. above(y) \subseteq A /\ y \in A /\ y \notin above(y)
    <3>1. \A z \in T : y < z => x < z
      BY <1>5
    <3>2. ~ (y < y)
      BY <1>5
    <3> QED  BY <1>4, <1>5, <3>1, <3>2
  <2>2. above(y) \in F /\ A \in SUBSET T /\ above(y) \in SUBSET T
    BY <1>4
  <2>3. <<above(y), A>> \in StrictSubsetOrdering(T)
    BY <2>1, <2>2 DEF StrictSubsetOrdering
  <2> QED  BY <1>3, <2>2, <2>3
<1> QED  BY <1>5

\* The batch of a circle that wants the last product waits for nobody.
LEMMA LockingNoDeadlock == TypeOK /\ Locking => NoDeadlock
<1> SUFFICES ASSUME TypeOK, Locking, NEW S \in SUBSET Batches, S # {},
                    \A b \in S : \E c \in S : WaitsFor(b, c)
             PROVE  FALSE
  BY DEF NoDeadlock
<1> DEFINE wants(b, p) == \E c \in S : WaitsFor(b, c) /\ p \in batch[c].held
                                       /\ NextInOrder(b, p)
           T == {p \in Products : \E b \in S : wants(b, p)}
<1>1. \A b \in S : \E p \in Products : wants(b, p)
  BY DEF WaitsFor, TypeOK, Batch
<1>2. T \in SUBSET Nat /\ IsFiniteSet(T) /\ T # {}
  BY <1>1, ProductsAssumption, FS_Subset
<1>3. PICK p \in T : \A q \in T : q <= p
  <2> HIDE DEF T
  <2> QED  BY <1>2, GreatestExists
<1>4. PICK b \in S, c \in S :
          WaitsFor(b, c) /\ p \in batch[c].held /\ NextInOrder(b, p)
  BY <1>3
<1>5. PICK q \in Products, d \in S :
          WaitsFor(c, d) /\ q \in batch[d].held /\ NextInOrder(c, q)
  BY <1>1
<1>6. p <= q /\ q <= p
  <2>1. q \in T
    BY <1>5
  <2>2. q \in batch[c].todo
    BY <1>5 DEF NextInOrder
  <2> QED  BY <1>3, <1>4, <2>1, <2>2 DEF Locking, Ordered
<1>7. p = q
  <2>1. p \in Nat /\ q \in Nat
    BY <1>2, <1>5, ProductsAssumption
  <2> QED  BY <1>6, <2>1
<1>8. c # d
  BY <1>5 DEF WaitsFor
<1> QED  BY <1>4, <1>5, <1>7, <1>8 DEF Locking, Exclusive

\* Batches never wait for each other in a circle, whatever their number.
THEOREM HCNoDeadlock == Spec => []NoDeadlock
<1>1. Init => TypeOK /\ Locking
  BY InitTypes, InitLocking
<1>2. (TypeOK /\ Locking) /\ [Next]_vars => (TypeOK /\ Locking)'
  BY NextTypes, NextLocking
<1>3. TypeOK /\ Locking => NoDeadlock
  BY LockingNoDeadlock
<1> QED  BY <1>1, <1>2, <1>3, PTL DEF Spec

-----------------------------------------------------------------------------
(***************************************************************************)
(* The trail of the decisions.  A batch that has not committed has no      *)
(* request; who is named as the reviewer of a reviewed request may review; *)
(* and a page is served for someone who may do what it asks for.           *)
(***************************************************************************)

Unfiled ==
    \A b \in Batches : batch[b].stage \in {"new", "running"} =>
        \A p \in Products : request[<<b, p>>].status = "None"

Named(x) ==
    /\ x.status \in {"None", "Pending"} => x.reviewed_by = Nobody
    /\ x.status = "Reviewed" => /\ x.reviewed_by \in Users
                                /\ InGroup(x.reviewed_by, "Reviewed")

Trailing ==
    /\ Unfiled
    /\ \A r \in Requests : Named(request[r]) /\ Trail(request[r], log[r])
    /\ \A m \in post : InGroup(m.user, m.action)

LEMMA InitTrailing == Init => Trailing
<1> SUFFICES ASSUME Init PROVE Trailing
  OBVIOUS
<1>1. \A r \in Requests : request[r] = NoRow /\ log[r] = << >>
  BY DEF Init
<1>2. Named(NoRow) /\ Trail(NoRow, << >>)
  BY DEF Named, Trail, NoRow
<1>3. Unfiled
  BY <1>1 DEF Unfiled, Requests, NoRow
<1> QED  BY <1>1, <1>2, <1>3 DEF Trailing, Init

\* Each decision adds to the log what it does to the row.
LEMMA DecisionTrail ==
    ASSUME NEW x \in Row, NEW l, NEW u \in Users, NEW a \in Actions,
           Named(x), Trail(x, l), x.status \in Transitions[a], InGroup(u, a),
           NEW e, e = [changed_by |-> u, previous |-> x.status, current |-> a]
    PROVE  /\ a = "Reviewed" => /\ Named(ReviewedRow(x, u))
                                /\ Trail(ReviewedRow(x, u), Append(l, e))
           /\ a = "Approved" => /\ Named(ApprovedRow(x, u))
                                /\ Trail(ApprovedRow(x, u), Append(l, e))
           /\ a = "Rejected" => /\ Named(RejectedRow(x, u))
                                /\ Trail(RejectedRow(x, u), Append(l, e))
<1>1. Append(<< >>, e) = <<e>>
  OBVIOUS
<1>2. Append(<<ByReviewer(x)>>, e) = <<ByReviewer(x), e>>
  <2> DEFINE d == ByReviewer(x)
  <2> HIDE DEF d
  <2>1. <<d>> \in Seq({d, e}) /\ e \in {d, e}
    OBVIOUS
  <2>2. Append(<<d>>, e) = <<d, e>>
    <3> DEFINE s == Append(<<d>>, e)
    <3>1. /\ s \in Seq({d, e}) /\ <<d, e>> \in Seq({d, e})
          /\ Len(s) = 2 /\ Len(<<d, e>>) = 2
          /\ s[1] = d /\ s[2] = e
      BY <2>1
    <3>2. \A i \in 1 .. 2 : s[i] = <<d, e>>[i]
      BY <3>1
    <3> HIDE DEF s
    <3>3. s = <<d, e>>
      BY <3>1, <3>2, SeqEqual
    <3> QED  BY <3>3 DEF s
  <2> QED  BY <2>2 DEF d
<1>3. /\ x.status = "Pending" => l = << >>
      /\ x.status = "Reviewed" => l = <<ByReviewer(x)>>
      /\ x.status \in {"Pending", "Reviewed"} => x.final_status = "None"
  BY DEF Trail
<1>4. CASE a = "Reviewed"
  <2> DEFINE y == ReviewedRow(x, u)
  <2>1. /\ y.status = "Reviewed" /\ y.final_status = "None"
        /\ y.reviewed_by = u /\ x.status = "Pending"
    BY <1>3, <1>4 DEF ReviewedRow, Row, Transitions
  <2>2. Append(l, e) = <<ByReviewer(y)>>
    BY <1>1, <1>3, <1>4, <2>1 DEF ByReviewer
  <2> HIDE DEF y
  <2>3. Named(y) /\ Trail(y, Append(l, e))
    BY <1>4, <2>1, <2>2 DEF Named, Trail
  <2> QED  BY <1>4, <2>3 DEF y
<1>5. CASE a = "Approved"
  <2> DEFINE y == ApprovedRow(x, u)
  <2>1. /\ y.status = "Approved" /\ y.final_status = "Approved"
        /\ y.reviewed_by = x.reviewed_by /\ y.approved_by = u
        /\ x.status = "Reviewed"
    BY <1>5 DEF ApprovedRow, Row, Transitions
  <2>2. Append(l, e) = <<ByReviewer(y), [changed_by |-> y.approved_by,
            previous |-> "Reviewed", current |-> "Approved"]>>
    BY <1>2, <1>3, <1>5, <2>1 DEF ByReviewer
  <2>3. InGroup(y.reviewed_by, "Reviewed")
    BY <2>1 DEF Named
  <2> HIDE DEF y
  <2>4. Named(y) /\ Trail(y, Append(l, e))
    BY <1>5, <2>1, <2>2, <2>3 DEF Named, Trail
  <2> QED  BY <1>5, <2>4 DEF y
<1>6. CASE a = "Rejected"
  <2> DEFINE y == RejectedRow(x, u)
  <2>1. /\ y.status = "Rejected" /\ y.final_status = "Rejected"
        /\ y.rejected_by = u
        /\ y.reviewed_by = IF x.reviewed_by = Nobody THEN u ELSE x.reviewed_by
        /\ x.status \in {"Pending", "Reviewed"}
    BY <1>6 DEF RejectedRow, Row, Transitions
  <2>2. CASE x.status = "Pending"
    <3>1. y.reviewed_by = u /\ l = << >>
      BY <1>3, <2>1, <2>2 DEF Named
    <3>2. Append(l, e) = <<[changed_by |-> y.rejected_by,
              previous |-> "Pending", current |-> "Rejected"]>>
      BY <1>1, <1>6, <2>1, <2>2, <3>1
    <3> HIDE DEF y
    <3> QED  BY <1>6, <2>1, <3>1, <3>2 DEF Named, Trail, y
  <2>3. CASE x.status = "Reviewed"
    <3>1. y.reviewed_by = x.reviewed_by
      BY <2>1, <2>3, PeopleAssumption DEF Named
    <3>2. Append(l, e) = <<ByReviewer(y), [changed_by |-> y.rejected_by,
              previous |-> "Reviewed", current |-> "Rejected"]>>
      BY <1>2, <1>3, <1>6, <2>1, <2>3, <3>1 DEF ByReviewer
    <3> HIDE DEF y
    <3> QED  BY <1>6, <2>1, <3>2 DEF Named, Trail, y
  <2> QED  BY <2>1, <2>2, <2>3
<1> QED  BY <1>4, <1>5, <1>6 DEF Actions

LEMMA DecideTrailing ==
    ASSUME TypeOK, Trailing, NEW m, MarkReviewed(m) \/ Approve(m) \/ Reject(m)
    PROVE  Trailing'
<1> USE DEF MarkReviewed, Approve, Reject
<1> DEFINE r == m.request
           x == request[r]
           e == [changed_by |-> m.user, previous |-> x.status,
                 current |-> m.action]
<1>1. m \in Post /\ m \in post /\ batch' = batch
  BY DEF Decide, TypeOK
<1>2. r \in Requests /\ m.user \in Users /\ m.action \in Actions /\ x \in Row
  BY <1>1 DEF TypeOK, Post
<1>3. Named(x) /\ Trail(x, log[r]) /\ InGroup(m.user, m.action)
  BY <1>1, <1>2 DEF Trailing
<1>4. x.status \in Transitions[m.action]
  BY DEF Decide, Valid
<1>5. PICK y : /\ request' = [request EXCEPT ![r] = y]
               /\ Named(y) /\ Trail(y, Append(log[r], e))
  BY <1>2, <1>3, <1>4, DecisionTrail DEF Decide
<1>6. log' = [log EXCEPT ![r] = Append(log[r], e)]
  BY DEF Decide
<1>7. \A s \in Requests : Named(request'[s]) /\ Trail(request'[s], log'[s])
  BY <1>2, <1>5, <1>6 DEF Trailing, TypeOK
<1>8. Unfiled'
  <2> SUFFICES ASSUME NEW b \in Batches, NEW p \in Products,
                      batch[b].stage \in {"new", "running"}
               PROVE  request'[<<b, p>>].status = "None"
    BY <1>1 DEF Unfiled
  <2>1. request[<<b, p>>].status = "None" /\ <<b, p>> \in Requests
    BY DEF Trailing, Unfiled, Requests
  <2>2. r # <<b, p>>
    BY <1>2, <1>4, <2>1 DEF Transitions, Actions
  <2> QED  BY <1>5, <2>1, <2>2 DEF TypeOK
<1>9. \A n \in post' : InGroup(n.user, n.action)
  <2>1. post' = (post \ {m}) \cup {[m EXCEPT !.stage = "notifying"]}
    BY DEF Decide
  <2>2. /\ [m EXCEPT !.stage = "notifying"].user = m.user
        /\ [m EXCEPT !.stage = "notifying"].action = m.action
    BY <1>1 DEF Post
  <2> QED  BY <1>3, <2>1, <2>2 DEF Trailing
<1> QED  BY <1>7, <1>8, <1>9 DEF Trailing, InGroup, Named, Trail, ByReviewer

\* A batch files only requests that nothing has been logged for.
LEMMA CommitTrailing ==
    ASSUME TypeOK, Trailing, NEW b \in Batches, Commit(b)
    PROVE  Trailing'
<1>1. batch[b] \in Batch /\ log' = log /\ post' = post
  BY DEF Commit, TypeOK, pages
<1>2. \A c \in Batches : c # b => batch'[c] = batch[c]
  BY DEF Commit, TypeOK
<1>3. batch'[b].stage \in {"ended", "notifying"}
  BY <1>1 DEF Commit, Committed, TypeOK, Batch
<1>4. Named(NewRow) /\ Trail(NewRow, << >>)
  BY DEF Named, Trail, NewRow, NoRow
<1>5. ASSUME NEW r \in Requests
      PROVE  Named(request'[r]) /\ Trail(request'[r], log[r])
  <2>1. CASE r[1] = b /\ r[2] \in batch[b].created
    <3>1. request[r].status = "None"
      BY <2>1 DEF Commit, Filing, Trailing, Unfiled, Requests
    <3>2. log[r] = << >>
      BY <3>1 DEF Trailing, Trail
    <3>3. request'[r] = NewRow
      BY <2>1 DEF Commit
    <3> QED  BY <1>4, <3>2, <3>3
  <2>2. CASE ~(r[1] = b /\ r[2] \in batch[b].created)
    <3>1. request'[r] = request[r]
      BY <2>2 DEF Commit
    <3> QED  BY <3>1 DEF Trailing
  <2> QED  BY <2>1, <2>2
<1>6. Unfiled'
  <2> SUFFICES ASSUME NEW c \in Batches, NEW p \in Products,
                      batch'[c].stage \in {"new", "running"}
               PROVE  request'[<<c, p>>].status = "None"
    BY DEF Unfiled
  <2>1. c # b
    BY <1>3
  <2>2. request'[<<c, p>>] = request[<<c, p>>]
    BY <2>1 DEF Commit, Requests
  <2> QED  BY <1>2, <2>1, <2>2 DEF Trailing, Unfiled
<1> QED
  BY <1>1, <1>5, <1>6 DEF Trailing, InGroup, Named, Trail, ByReviewer

\* Every other step of a batch writes no request and starts no batch anew.
LEMMA BatchStepUnfiled ==
    ASSUME TypeOK, NEW b \in Batches,
           Start(b) \/ BatchStep(b) \/ Crash(b), ~Commit(b)
    PROVE  /\ request' = request /\ log' = log /\ post' = post
           /\ \A c \in Batches : batch'[c].stage \in {"new", "running"} =>
                  batch[c].stage \in {"new", "running"}
<1> USE DEF BatchStep, Start, Evaluate, EvaluateFails, Lock, Save, Fail,
        NotifyReviewers, Crash
<1>1. request' = request /\ log' = log /\ post' = post
  BY DEF pages
<1>2. batch[b] \in Batch
  BY DEF TypeOK
<1>3. batch[b].stage \notin {"new", "running"} =>
          batch'[b].stage \notin {"new", "running"}
  <2> SUFFICES ASSUME batch[b].stage \notin {"new", "running"}
               PROVE  batch'[b].stage \notin {"new", "running"}
    OBVIOUS
  <2>1. batch[b].stage = "notifying" /\ (NotifyReviewers(b) \/ Crash(b))
    BY <1>2 DEF Filing
  <2>2. CASE NotifyReviewers(b)
    BY <1>2, <2>2 DEF TypeOK, Batch
  <2>3. CASE Crash(b)
    BY <1>2, <2>3 DEF RolledBack, TypeOK, Batch
  <2> QED  BY <2>1, <2>2, <2>3
<1>4. \A c \in Batches : c # b => batch'[c] = batch[c]
  BY DEF TypeOK
<1> QED  BY <1>1, <1>3, <1>4

LEMMA NextTrailing == TypeOK /\ Trailing /\ [Next]_vars => Trailing'
<1> SUFFICES ASSUME TypeOK, Trailing, [Next]_vars PROVE Trailing'
  OBVIOUS
<1> USE DEF InGroup, Named, Trail, ByReviewer
<1>1. ASSUME NEW b \in Batches, Start(b) \/ BatchStep(b) \/ Crash(b)
      PROVE  Trailing'
  BY <1>1, CommitTrailing, BatchStepUnfiled DEF Trailing, Unfiled
<1>2. CASE UNCHANGED <<batch, request, log>> /\ post' \subseteq post
  BY <1>2 DEF Trailing, Unfiled
<1>3. ASSUME NEW u \in Users, NEW a \in Actions, NEW r \in Requests,
             Open(u, a, r)
      PROVE  Trailing'
  BY <1>3 DEF Open, Trailing, Unfiled
<1>4. ASSUME NEW m, MarkReviewed(m) \/ Approve(m) \/ Reject(m)
      PROVE  Trailing'
  BY <1>4, DecideTrailing
<1>5. ASSUME NEW p \in Products, DeleteProduct(p) PROVE Trailing'
  <2>1. Named(NoRow) /\ Trail(NoRow, << >>) /\ NoRow.status = "None"
    BY DEF NoRow
  <2>2. ASSUME NEW r \in Requests
        PROVE  Named(request'[r]) /\ Trail(request'[r], log'[r])
    BY <1>5, <2>1 DEF DeleteProduct, Trailing
  <2>3. Unfiled'
    BY <1>5, <2>1 DEF DeleteProduct, Trailing, Unfiled, Requests
  <2> QED  BY <1>5, <2>2, <2>3 DEF DeleteProduct, Trailing
<1> QED
  BY <1>1, <1>2, <1>3, <1>4, <1>5 DEF Next, AddComment, DeleteComment,
     Refuse, Notify, JoinOrLeave, pages, vars

\* The log of a request tells how it came to its status, who took each step
\* and that they might.
THEOREM HCAudit == Spec => []Audited
<1>1. Init => TypeOK /\ Trailing
  BY InitTypes, InitTrailing
<1>2. (TypeOK /\ Trailing) /\ [Next]_vars => (TypeOK /\ Trailing)'
  BY NextTypes, NextTrailing
<1>3. Trailing => Audited
  BY DEF Trailing, Audited
<1> QED  BY <1>1, <1>2, <1>3, PTL DEF Spec
=============================================================================
