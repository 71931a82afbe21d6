--------------------------- MODULE WebhooksProofs ---------------------------
(***************************************************************************)
(* For any endpoints, any number of sends at once and any bounds: the rows *)
(* are well typed, and an endpoint with a temporary error always knows     *)
(* when its outage began and when it failed last.  The second needs the    *)
(* same of every row that a task has loaded, for the task saves it whole:  *)
(* that is what CopiesAreDated adds.                                       *)
(***************************************************************************)
EXTENDS Webhooks, TLAPS

\* Rows that a send or a reactivation holds are dated, and have the status
\* for which they were taken.
CopiesAreDated ==
    /\ \A s \in Senders : \A e \in DOMAIN sending[s] :
           Dated(sending[s][e]) /\ sending[s][e].status \in Sendable
    /\ \A e \in DOMAIN reviving :
           Dated(reviving[e]) /\ reviving[e].status = "inactive_tmp"

Inv == TypeOK /\ OutagesAreDated /\ CopiesAreDated

-----------------------------------------------------------------------------
LEMMA LoadedRows ==
    ASSUME NEW rows \in Loaded
    PROVE  /\ DOMAIN rows \subseteq Endpoints
           /\ \A e \in DOMAIN rows : rows[e] \in Row
<1>1. PICK E \in SUBSET Endpoints : rows \in [E -> Row]
  BY DEF Loaded
<1> QED  BY <1>1

LEMMA WithoutLoaded ==
    ASSUME NEW rows \in Loaded, NEW e
    PROVE  /\ Without(rows, e) \in Loaded
           /\ DOMAIN Without(rows, e) = DOMAIN rows \ {e}
           /\ \A x \in DOMAIN Without(rows, e) : Without(rows, e)[x] = rows[x]
<1> DEFINE E == DOMAIN rows \ {e}
<1>1. E \in SUBSET Endpoints /\ \A x \in E : rows[x] \in Row
  BY LoadedRows
<1>2. [x \in E |-> rows[x]] \in [E -> Row]
  BY <1>1
<1> QED  BY <1>1, <1>2 DEF Without, Loaded

LEMMA NothingLoaded == Nothing \in Loaded /\ DOMAIN Nothing = {}
<1>1. Nothing \in [{} -> Row] /\ {} \in SUBSET Endpoints
  BY DEF Nothing
<1> QED  BY <1>1 DEF Loaded, Nothing

LEMMA CleanRow ==
    ASSUME NEW s \in Status
    PROVE  Clean(s) \in Row /\ (s \notin Tmp => Dated(Clean(s)))
  BY DEF Clean, Row, Dated, None

LEMMA OlderAge ==
    ASSUME NEW a \in Ages \cup {None}
    PROVE  /\ Older(a) \in Ages \cup {None}
           /\ a = None => Older(a) = None
           /\ \A b \in Ages : a \in 0 .. b => Older(a) \in 0 .. Older(b)
<1>1. Day \in Nat
  BY AgesAssumption
<1>2. /\ Older(a) \in Ages \cup {None}
      /\ a = None => Older(a) = None
  BY <1>1 DEF Older, Ages, None
<1>3. ASSUME NEW b \in Ages, a \in 0 .. b
      PROVE  Older(a) \in 0 .. Older(b)
  <2>1. a \in Int /\ b \in Int /\ 0 <= a /\ a <= b /\ b <= Day + 1
    BY <1>1, <1>3 DEF Ages
  <2>2. /\ Older(a) = IF a <= Day THEN a + 1 ELSE a
        /\ Older(b) = IF b <= Day THEN b + 1 ELSE b
    BY <1>1, <2>1 DEF Older
  <2> QED  BY <1>1, <2>1, <2>2
<1> QED  BY <1>2, <1>3

LEMMA AgedRow ==
    ASSUME NEW r \in Row, Dated(r)
    PROVE  Aged(r) \in Row /\ Dated(Aged(r)) /\ Aged(r).status = r.status
<1> DEFINE f == r.first_error
           l == r.last_error
           q == Aged(r)
<1>1. /\ r.status \in Status /\ f \in Ages \cup {None}
      /\ l \in Ages \cup {None}
  BY DEF Row
<1>2. q = [status |-> r.status, first_error |-> Older(f),
           last_error |-> Older(l)]
  BY DEF Aged
<1>3. /\ Older(f) \in Ages \cup {None} /\ Older(l) \in Ages \cup {None}
      /\ f = None => Older(f) = None
      /\ l = None => Older(l) = None
      /\ f \in Ages /\ l \in 0 .. f => Older(l) \in 0 .. Older(f)
  BY <1>1, OlderAge
<1>4. ASSUME l \in 0 .. f PROVE f \in Ages
  <2>1. ~(l \in 0 .. -1)
    OBVIOUS
  <2>2. f # None
    BY <1>4, <2>1 DEF None
  <2> QED  BY <1>1, <2>2
<1> HIDE DEF f, l, q
<1>5. q \in Row /\ q.status = r.status
  BY <1>1, <1>2, <1>3 DEF Row
<1>6. Dated(q)
  BY <1>2, <1>3, <1>4 DEF Dated, f, l
<1> QED  BY <1>5, <1>6 DEF q

LEMMA FailedRowDated ==
    ASSUME NEW r \in Row, Dated(r), r.status \in Sendable
    PROVE  FailedRow(r) \in Row /\ Dated(FailedRow(r))
<1>1. 0 \in Ages /\ "inactive_tmp" \in Status
      /\ "inactive_permanent" \in Status
  BY AgesAssumption DEF Ages, Status, Tmp
<1>2. CASE TooLong(r)
  <2>1. FailedRow(r) = [status |-> "inactive_permanent",
                        first_error |-> r.first_error, last_error |-> 0]
    BY <1>2 DEF FailedRow, Row
  <2> QED  BY <2>1, <1>1 DEF Row, Dated, Tmp
<1>3. CASE ~TooLong(r) /\ r.status = "active"
  <2>1. FailedRow(r) = [status |-> "inactive_tmp", first_error |-> 0,
                        last_error |-> 0]
    BY <1>3 DEF FailedRow
  <2> QED  BY <2>1, <1>1 DEF Row, Dated, Tmp
<1>4. CASE ~TooLong(r) /\ r.status = "active_tmp"
  <2>1. FailedRow(r) = [status |-> "inactive_tmp",
                        first_error |-> r.first_error, last_error |-> 0]
    BY <1>4 DEF FailedRow
  <2>2. r.first_error \in Ages /\ 0 \in 0 .. r.first_error
    BY <1>4, AgesAssumption DEF Dated, Row, Ages, None, Tmp
  <2> QED  BY <2>1, <2>2, <1>1 DEF Row, Dated, Tmp
<1> QED  BY <1>2, <1>3, <1>4 DEF Sendable

-----------------------------------------------------------------------------
LEMMA WebhookInit == Init => Inv
<1> SUFFICES ASSUME Init PROVE Inv
  OBVIOUS
<1>1. "new" \in Status /\ Clean("new") \in Row /\ Dated(Clean("new"))
  BY CleanRow DEF Status, Absent, Tmp
<1>2. TypeOK
  BY <1>1, NothingLoaded DEF Init, TypeOK, Idle
<1> QED  BY <1>1, <1>2, NothingLoaded
         DEF Init, Inv, OutagesAreDated, CopiesAreDated

\* A step that saves one row: the row it writes is typed and dated.
LEMMA SavedRow ==
    ASSUME Inv, NEW e \in Endpoints, NEW r \in Row, Dated(r),
           row' = [row EXCEPT ![e] = r]
    PROVE  row' \in [Endpoints -> Row] /\ OutagesAreDated'
<1>1. \A x \in Endpoints : row'[x] = IF x = e THEN r ELSE row[x]
  BY DEF Inv, TypeOK
<1> QED  BY <1>1 DEF Inv, TypeOK, OutagesAreDated

\* A step that drops rows from one send.
LEMMA DroppedCopy ==
    ASSUME Inv, NEW s \in Senders, NEW rows \in Loaded,
           DOMAIN rows \subseteq DOMAIN sending[s],
           \A x \in DOMAIN rows : rows[x] = sending[s][x],
           sending' = [sending EXCEPT ![s] = rows], UNCHANGED reviving
    PROVE  sending' \in [Senders -> Loaded] /\ CopiesAreDated'
<1>1. \A t \in Senders : sending'[t] = IF t = s THEN rows ELSE sending[t]
  BY DEF Inv, TypeOK
<1> QED  BY <1>1 DEF Inv, TypeOK, CopiesAreDated

LEMMA SendKeeps ==
    ASSUME Inv, NEW s \in Senders, Start(s) \/ Send(s) \/ Die(s)
    PROVE  Inv'
<1>1. CASE Start(s)
  <2> DEFINE E == {x \in Endpoints : row[x].status \in Sendable}
             rows == [e \in E |-> row[e]]
  <2>1. /\ sending' = [sending EXCEPT ![s] = rows]
        /\ UNCHANGED <<row, queued, reviving, cleaning, editing>>
    BY <1>1 DEF Start
  <2>2. rows \in [E -> Row] /\ E \in SUBSET Endpoints
    BY DEF Inv, TypeOK
  <2>3. rows \in Loaded
    BY <2>2 DEF Loaded
  <2>4. \A e \in DOMAIN rows : Dated(rows[e]) /\ rows[e].status \in Sendable
    BY DEF Inv, OutagesAreDated
  <2> HIDE DEF rows
  <2>5. \A t \in Senders : sending'[t] = IF t = s THEN rows ELSE sending[t]
    BY <2>1 DEF Inv, TypeOK
  <2>6. TypeOK'
    BY <2>1, <2>3 DEF Inv, TypeOK
  <2> QED  BY <2>1, <2>4, <2>5, <2>6 DEF Inv, OutagesAreDated, CopiesAreDated
<1>2. ASSUME NEW e \in Endpoints, Delivered(s, e) \/ Fail(s, e) \/ Refused(s, e)
      PROVE  Inv'
  <2>1. /\ e \in DOMAIN sending[s]
        /\ sending' = [sending EXCEPT ![s] = Without(sending[s], e)]
        /\ UNCHANGED <<reviving, cleaning, editing>>
    BY <1>2 DEF Delivered, Fail, Refused
  <2>2. sending[s] \in Loaded
    BY DEF Inv, TypeOK
  <2>3. sending' \in [Senders -> Loaded] /\ CopiesAreDated'
    <3> DEFINE rows == Without(sending[s], e)
    <3>1. /\ rows \in Loaded /\ DOMAIN rows = DOMAIN sending[s] \ {e}
          /\ \A x \in DOMAIN rows : rows[x] = sending[s][x]
      BY <2>2, WithoutLoaded
    <3> HIDE DEF rows
    <3>2. sending' = [sending EXCEPT ![s] = rows] /\ UNCHANGED reviving
      BY <2>1 DEF rows
    <3>3. DOMAIN rows \subseteq DOMAIN sending[s]
      BY <3>1
    <3> QED  BY <3>1, <3>2, <3>3, DroppedCopy
  <2>4. /\ sending[s][e] \in Row /\ Dated(sending[s][e])
        /\ sending[s][e].status \in Sendable
    BY <2>1, <2>2, LoadedRows DEF Inv, CopiesAreDated
  <2>5. /\ row' \in [Endpoints -> Row] /\ OutagesAreDated'
        /\ queued' \in [Endpoints -> SUBSET {0, 1}]
    <3>1. CASE Delivered(s, e)
      BY <3>1 DEF Delivered, Inv, TypeOK, OutagesAreDated
    <3>2. CASE Fail(s, e)
      <4>1. row' = [row EXCEPT ![e] = FailedRow(sending[s][e])]
        BY <3>2, Zenon DEF Fail
      <4>2. FailedRow(sending[s][e]) \in Row /\ Dated(FailedRow(sending[s][e]))
        BY <2>4, FailedRowDated
      <4>3. row' \in [Endpoints -> Row] /\ OutagesAreDated'
        BY <4>1, <4>2, SavedRow
      <4>4. queued' \in [Endpoints -> SUBSET {0, 1}]
        BY <3>2 DEF Fail, Inv, TypeOK
      <4> QED  BY <4>3, <4>4
    <3>3. CASE Refused(s, e)
      <4> DEFINE r == [status |-> "inactive_permanent", first_error |-> 0,
                       last_error |-> 0]
      <4>1. r \in Row /\ Dated(r)
        BY AgesAssumption DEF Row, Ages, Status, Dated, Tmp
      <4> HIDE DEF r
      <4>2. row' = [row EXCEPT ![e] = r] /\ UNCHANGED queued
        BY <3>3 DEF Refused, r
      <4> QED  BY <4>1, <4>2, SavedRow DEF Inv, TypeOK
    <3> QED  BY <1>2, <3>1, <3>2, <3>3
  <2> QED  BY <2>1, <2>3, <2>5 DEF Inv, TypeOK
<1>3. CASE Die(s)
  <2>1. sending' \in [Senders -> Loaded] /\ CopiesAreDated'
    BY <1>3, NothingLoaded, DroppedCopy DEF Die
  <2> QED  BY <1>3, <2>1 DEF Die, Inv, TypeOK, OutagesAreDated
<1> QED  BY <1>1, <1>2, <1>3 DEF Send

\* A reactivation loads the row only while it is "inactive_tmp".
LEMMA ReviveKeeps ==
    ASSUME Inv, NEW e \in Endpoints, Revive(e), UNCHANGED sending
    PROVE  reviving' \in Loaded /\ CopiesAreDated'
<1>1. CASE row[e].status # "inactive_tmp"
  BY <1>1 DEF Revive, Inv, TypeOK, CopiesAreDated
<1>2. CASE row[e].status = "inactive_tmp"
  <2> DEFINE E == DOMAIN reviving \cup {e}
             rows == [x \in E |-> IF x = e THEN row[e] ELSE reviving[x]]
  <2>1. reviving \in Loaded /\ row[e] \in Row /\ Dated(row[e])
    BY DEF Inv, TypeOK, OutagesAreDated
  <2>2. E \in SUBSET Endpoints /\ rows \in [E -> Row]
    BY <2>1, LoadedRows
  <2>3. rows \in Loaded
    BY <2>2 DEF Loaded
  <2>4. \A x \in E : Dated(rows[x]) /\ rows[x].status = "inactive_tmp"
    BY <1>2, <2>1 DEF Inv, CopiesAreDated
  <2>5. reviving' = rows
    BY <1>2 DEF Revive
  <2> HIDE DEF rows
  <2> QED  BY <2>2, <2>3, <2>4, <2>5 DEF Inv, CopiesAreDated
<1> QED  BY <1>1, <1>2

LEMMA RevivalKeeps ==
    ASSUME Inv, NEW e \in Endpoints, Reactivate(e) \/ Lose(e) \/ Revived(e)
    PROVE  Inv'
<1>1. CASE Reactivate(e)
  <2>1. reviving' \in Loaded /\ CopiesAreDated'
    BY <1>1, ReviveKeeps DEF Reactivate
  <2>2. queued' \in [Endpoints -> SUBSET {0, 1}]
    BY <1>1 DEF Reactivate, Inv, TypeOK
  <2> QED  BY <1>1, <2>1, <2>2 DEF Reactivate, Inv, TypeOK, OutagesAreDated
<1>2. CASE Lose(e)
  BY <1>2 DEF Lose, Inv, TypeOK, OutagesAreDated, CopiesAreDated
<1>3. CASE Revived(e)
  <2> DEFINE r == [reviving[e] EXCEPT !.status = "active_tmp"]
  <2>1. /\ reviving[e] \in Row /\ Dated(reviving[e])
        /\ reviving[e].status = "inactive_tmp" /\ reviving \in Loaded
    BY <1>3, LoadedRows DEF Revived, Inv, TypeOK, CopiesAreDated
  <2>2. r = [status |-> "active_tmp", first_error |-> reviving[e].first_error,
             last_error |-> reviving[e].last_error]
    BY <2>1 DEF Row
  <2>3. r \in Row /\ Dated(r)
    BY <2>1, <2>2 DEF Row, Dated, Tmp, Status
  <2>4. row' = [row EXCEPT ![e] = r]
    BY <1>3 DEF Revived
  <2> HIDE DEF r
  <2>5. row' \in [Endpoints -> Row] /\ OutagesAreDated'
    BY <2>3, <2>4, SavedRow
  <2>6. reviving' = Without(reviving, e) /\ UNCHANGED sending
    BY <1>3 DEF Revived
  <2>7. reviving' \in Loaded /\ CopiesAreDated'
    <3> DEFINE rows == Without(reviving, e)
    <3>1. /\ rows \in Loaded /\ DOMAIN rows = DOMAIN reviving \ {e}
          /\ \A x \in DOMAIN rows : rows[x] = reviving[x]
      BY <2>1, WithoutLoaded
    <3> HIDE DEF rows
    <3>2. reviving' = rows /\ UNCHANGED sending
      BY <2>6 DEF rows
    <3> QED  BY <3>1, <3>2 DEF Inv, CopiesAreDated
  <2> QED  BY <1>3, <2>5, <2>7 DEF Revived, Inv, TypeOK
<1> QED  BY <1>1, <1>2, <1>3

LEMMA CleanUpKeeps ==
    ASSUME Inv, CleanUpStep
    PROVE  Inv'
<1>1. CASE CleanUp \/ FindStuck \/ CleanedUp
  BY <1>1 DEF CleanUp, FindStuck, CleanedUp, Idle, Inv, TypeOK,
              OutagesAreDated, CopiesAreDated
<1>2. ASSUME NEW e \in Endpoints, Recover(e)
      PROVE  Inv'
  <2>1. Clean("active") \in Row /\ Dated(Clean("active"))
    BY CleanRow DEF Status, Sendable, Tmp
  <2>2. row' \in [Endpoints -> Row] /\ OutagesAreDated'
    BY <1>2, <2>1, SavedRow DEF Recover
  <2> QED  BY <1>2, <2>2 DEF Recover, Inv, TypeOK, CopiesAreDated
<1>3. ASSUME NEW e \in Endpoints, Unstick(e)
      PROVE  Inv'
  <2>1. reviving' \in Loaded /\ CopiesAreDated'
    BY <1>3, ReviveKeeps DEF Unstick, Inv, TypeOK, CopiesAreDated
  <2> QED  BY <1>3, <2>1 DEF Unstick, Idle, Inv, TypeOK, OutagesAreDated
<1> QED  BY <1>1, <1>2, <1>3 DEF CleanUpStep

LEMMA UserKeeps ==
    ASSUME Inv, NEW e \in Endpoints, User(e)
    PROVE  Inv'
<1>1. CASE Edit(e) \/ EditRefused(e)
  BY <1>1 DEF Edit, EditRefused, Inv, TypeOK, OutagesAreDated, CopiesAreDated
<1>2. CASE Add(e) \/ Edited(e) \/ Deactivate(e) \/ Delete(e)
  <2>1. PICK s \in {"active", "inactive_permanent", "removed"} :
            row' = [row EXCEPT ![e] = Clean(s)]
    BY <1>2 DEF Add, Edited, Deactivate, Delete
  <2>2. Clean(s) \in Row /\ Dated(Clean(s))
    BY CleanRow DEF Status, Sendable, Absent, Tmp
  <2>3. row' \in [Endpoints -> Row] /\ OutagesAreDated'
    BY <2>1, <2>2, SavedRow
  <2> QED  BY <1>2, <2>3 DEF Add, Edited, Deactivate, Delete, Inv, TypeOK,
                            CopiesAreDated
<1> QED  BY <1>1, <1>2 DEF User

LEMMA LoadedAged ==
    ASSUME NEW rows \in Loaded, \A e \in DOMAIN rows : Dated(rows[e])
    PROVE  /\ AllAged(rows) \in Loaded
           /\ DOMAIN AllAged(rows) = DOMAIN rows
           /\ \A e \in DOMAIN rows :
                  /\ Dated(AllAged(rows)[e])
                  /\ AllAged(rows)[e].status = rows[e].status
<1> DEFINE E == DOMAIN rows
<1>1. E \in SUBSET Endpoints /\ \A e \in E : rows[e] \in Row
  BY LoadedRows
<1>2. \A e \in E : /\ Aged(rows[e]) \in Row /\ Dated(Aged(rows[e]))
                   /\ Aged(rows[e]).status = rows[e].status
  BY <1>1, AgedRow
<1>3. AllAged(rows) \in [E -> Row]
  BY <1>2 DEF AllAged
<1> QED  BY <1>1, <1>2, <1>3 DEF AllAged, Loaded

LEMMA TickKeeps == Inv /\ Tick => Inv'
<1> SUFFICES ASSUME Inv, Tick PROVE Inv'
  OBVIOUS
<1>1. row \in Loaded /\ DOMAIN row = Endpoints
  BY DEF Inv, TypeOK, Loaded
<1>2. row' \in [Endpoints -> Row] /\ OutagesAreDated'
  <2>1. \A e \in Endpoints : /\ Aged(row[e]) \in Row /\ Dated(Aged(row[e]))
    BY AgedRow DEF Inv, TypeOK, OutagesAreDated
  <2>2. row' = [e \in Endpoints |-> Aged(row[e])]
    BY <1>1 DEF Tick, AllAged
  <2> QED  BY <2>1, <2>2 DEF OutagesAreDated
<1>3. \A s \in Senders :
          /\ AllAged(sending[s]) \in Loaded
          /\ DOMAIN AllAged(sending[s]) = DOMAIN sending[s]
          /\ \A e \in DOMAIN sending[s] :
                 /\ Dated(AllAged(sending[s])[e])
                 /\ AllAged(sending[s])[e].status \in Sendable
  BY LoadedAged DEF Inv, TypeOK, CopiesAreDated
<1>4. /\ AllAged(reviving) \in Loaded
      /\ DOMAIN AllAged(reviving) = DOMAIN reviving
      /\ \A e \in DOMAIN reviving :
             /\ Dated(AllAged(reviving)[e])
             /\ AllAged(reviving)[e].status = "inactive_tmp"
  BY LoadedAged DEF Inv, TypeOK, CopiesAreDated
<1>5. /\ sending' = [s \in Senders |-> AllAged(sending[s])]
      /\ reviving' = AllAged(reviving) /\ UNCHANGED <<cleaning, editing>>
  BY DEF Tick
<1>6. queued' \in [Endpoints -> SUBSET {0, 1}]
  BY DEF Tick
<1>7. TypeOK'
  BY <1>2, <1>3, <1>4, <1>5, <1>6 DEF Inv, TypeOK
<1>8. CopiesAreDated'
  BY <1>3, <1>4, <1>5 DEF CopiesAreDated
<1> QED  BY <1>2, <1>7, <1>8 DEF Inv

LEMMA WebhookNext == Inv /\ [Next]_vars => Inv'
<1> SUFFICES ASSUME Inv, [Next]_vars PROVE Inv'
  OBVIOUS
<1>1. CASE UNCHANGED vars
  BY <1>1 DEF vars, Inv, TypeOK, OutagesAreDated, CopiesAreDated
<1>2. CASE Next
  BY <1>2, SendKeeps, RevivalKeeps, CleanUpKeeps, UserKeeps, TickKeeps DEF Next
<1> QED  BY <1>1, <1>2

\* Every reachable state is well typed: no age is negative, no send holds a
\* row that does not exist, for any number of endpoints, sends and bounds.
THEOREM WebhookTyping == Spec => []TypeOK
<1>1. Inv => TypeOK
  BY DEF Inv
<1> QED  BY <1>1, WebhookInit, WebhookNext, PTL DEF Spec

\* An endpoint with a temporary error always has the two dates by which the
\* clean-up of helper.py:896 finds it, however many sends save old rows.
THEOREM WebhookDating == Spec => []OutagesAreDated
<1>1. Inv => OutagesAreDated
  BY DEF Inv
<1> QED  BY <1>1, WebhookInit, WebhookNext, PTL DEF Spec
=============================================================================
