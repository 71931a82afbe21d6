----------------------- MODULE TransferFindingProofs -----------------------
(***************************************************************************)
(* For any transfers, findings, copies and acceptances: the state is well  *)
(* typed, and an original that is mitigated is not active.  The invariant  *)
(* is inductive as it stands, for every handler writes whole rows of which *)
(* none is both; what the proof adds is the typing of what the two jobs    *)
(* have read.                                                              *)
(***************************************************************************)
EXTENDS TransferFinding, TLAPS

Inv == TypeOK /\ MitigatedStaysOut

\* Rows of originals that are not both mitigated and active.
Sound == {r \in Finding : ~(r.is_mitigated /\ r.active)}

-----------------------------------------------------------------------------
LEMMA SoundFindings ==
    ASSUME TypeOK
    PROVE  MitigatedStaysOut <=> \A f \in Findings : finding[f] \in Sound
BY DEF TypeOK, MitigatedStaysOut, Sound, Finding

LEMMA SoundRow ==
    ASSUME NEW a \in BOOLEAN, NEW m \in BOOLEAN, ~(a /\ m),
           NEW s \in {"Risk Active", "Transfer Pending", "Transfer Accepted",
                      "Transfer Rejected", "Transfer Expired"}
    PROVE  Row(a, m, s) \in Sound
BY DEF Row, Sound, Finding

\* Every row that a handler of transfers saves is sound.
LEMMA SavedRows ==
    ASSUME NEW r \in Sound
    PROVE  /\ GivenBack(r, "Transfer Rejected") \in Sound
           /\ GivenBack(r, "Transfer Expired") \in Sound
           /\ GivenBack(r, "Risk Active") \in Sound
           /\ PendingRow(r) \in Sound
           /\ AcceptedRow(r) \in Sound
           /\ ToldClosed(r) \in Sound
           /\ ToldAccepted(r) \in Sound
           /\ ToldReactive(r) \in Sound
<1>1. /\ r.active \in BOOLEAN /\ r.is_mitigated \in BOOLEAN
      /\ ~(r.active /\ r.is_mitigated)
      /\ r.risk_status \in {"Risk Active", "Transfer Pending",
             "Transfer Accepted", "Transfer Rejected", "Transfer Expired"}
  BY DEF Sound, Finding
<1> QED  BY <1>1, SoundRow
         DEF GivenBack, PendingRow, AcceptedRow, ToldClosed, ToldAccepted,
             ToldReactive

LEMMA TypedCopyRow ==
    ASSUME NEW a \in BOOLEAN, NEW m \in BOOLEAN, NEW x \in BOOLEAN,
           NEW s \in {"Risk Active", "Risk Accepted", "Risk Expired"}
    PROVE  CopyRow(a, m, x, s) \in Copy
BY DEF CopyRow, Copy

LEMMA CopyColumns ==
    ASSUME NEW r \in Copy
    PROVE  /\ r.active \in BOOLEAN /\ r.is_mitigated \in BOOLEAN
           /\ r.risk_accepted \in BOOLEAN
           /\ r.risk_status \in {"Risk Active", "Risk Accepted", "Risk Expired"}
BY DEF Copy

LEMMA NewCopyTyped == NewCopy \in Copy
BY TypedCopyRow DEF NewCopy

LEMMA ExpiredCopyTyped ==
    ASSUME NEW r \in Copy
    PROVE  ExpiredCopy(r) \in Copy
BY CopyColumns, TypedCopyRow DEF ExpiredCopy

-----------------------------------------------------------------------------
(***************************************************************************)
(* Typing of functions that change at one place, and of what a job read.   *)
(***************************************************************************)
LEMMA OnePlace ==
    ASSUME NEW A, NEW B, NEW g \in [A -> B], NEW x, NEW v \in B
    PROVE  [g EXCEPT ![x] = v] \in [A -> B]
OBVIOUS

LEMMA RowsRead ==
    ASSUME NEW rows \in Rows
    PROVE  /\ DOMAIN rows \subseteq Copies
           /\ \A c \in DOMAIN rows : rows[c] \in Copy
<1>1. PICK C \in SUBSET Copies : rows \in [C -> Copy]
  BY DEF Rows
<1> QED  BY <1>1

LEMMA RestrictedRows ==
    ASSUME NEW rows \in Rows, NEW C, C \subseteq DOMAIN rows
    PROVE  Restrict(rows, C) \in Rows
<1>1. C \in SUBSET Copies /\ \A c \in C : rows[c] \in Copy
  BY RowsRead
<1>2. [c \in C |-> rows[c]] \in [C -> Copy]
  BY <1>1
<1> QED  BY <1>1, <1>2 DEF Restrict, Rows

LEMMA WithoutRows ==
    ASSUME NEW rows \in Rows, NEW c
    PROVE  Without(rows, c) \in Rows
BY RestrictedRows DEF Without

LEMMA ListRead ==
    ASSUME NEW list \in Lists
    PROVE  /\ DOMAIN list \subseteq Acceptances
           /\ list \in [DOMAIN list -> Rows]
<1>1. PICK A \in SUBSET Acceptances : list \in [A -> Rows]
  BY DEF Lists
<1> QED  BY <1>1

LEMMA WithoutList ==
    ASSUME NEW list \in Lists, NEW a
    PROVE  Without(list, a) \in Lists
<1> DEFINE A == DOMAIN list \ {a}
<1>1. A \in SUBSET Acceptances /\ \A b \in A : list[b] \in Rows
  BY ListRead
<1>2. [b \in A |-> list[b]] \in [A -> Rows]
  BY <1>1
<1> QED  BY <1>1, <1>2 DEF Without, Restrict, Lists

LEMMA ChangedList ==
    ASSUME NEW list \in Lists, NEW a, NEW rows \in Rows
    PROVE  /\ [list EXCEPT ![a] = rows] \in Lists
           /\ DOMAIN [list EXCEPT ![a] = rows] = DOMAIN list
<1>1. /\ DOMAIN list \in SUBSET Acceptances
      /\ [list EXCEPT ![a] = rows] \in [DOMAIN list -> Rows]
  BY ListRead, OnePlace
<1> QED  BY <1>1 DEF Lists

LEMMA EmptyList == <<>> \in Lists /\ DOMAIN <<>> = {}
<1>1. <<>> \in [{} -> Rows] /\ {} \in SUBSET Acceptances
  OBVIOUS
<1> QED  BY <1>1 DEF Lists

-----------------------------------------------------------------------------
LEMMA TransferInit == Init => Inv
<1> SUFFICES ASSUME Init PROVE Inv
  OBVIOUS
<1>1. \A c \in Copies : copy[c] \in Copy
  <2>1. \A c \in Copies : copy[c] = [NewCopy EXCEPT !.exists = FALSE]
    BY DEF Init
  <2>2. [NewCopy EXCEPT !.exists = FALSE] \in Copy
    BY NewCopyTyped DEF Copy
  <2> QED  BY <2>1, <2>2
<1>2. raJob \in [left : Lists, at : Acceptances \cup {"no acceptance"}]
      /\ raJob.at \in DOMAIN raJob.left \cup {"no acceptance"}
  BY EmptyList DEF Init, RaIdle
<1>3. job \in [left : SUBSET Transfers, at : Transfers \cup {"no transfer"},
               todo : SUBSET Findings]
  BY DEF Init, Idle
<1>4. finding \in [Findings -> Finding] /\ MitigatedStaysOut
  BY DEF Init, Finding, MitigatedStaysOut
<1>5. /\ transfer \in [Transfers -> TransferStatus]
      /\ link \in [Transfers -> [Findings -> Link]]
      /\ acceptance \in [Acceptances -> [status : AcceptanceStatus,
                                         findings : SUBSET Copies]]
  BY DEF Init, TransferStatus, Link, AcceptanceStatus
<1>6. copy \in [Copies -> Copy]
  BY <1>1 DEF Init
<1> QED  BY <1>2, <1>3, <1>4, <1>5, <1>6 DEF Inv, TypeOK

\* What an action that leaves a job alone keeps of it.
LEMMA SoundNow ==
    ASSUME Inv
    PROVE  finding \in [Findings -> Sound]
BY SoundFindings DEF Inv, TypeOK

LEMMA SoundNext ==
    ASSUME finding' \in [Findings -> Sound]
    PROVE  finding' \in [Findings -> Finding] /\ MitigatedStaysOut'
BY DEF Sound, Finding, MitigatedStaysOut

\* The events save sound rows, and only to originals.
LEMMA EventsAreSound ==
    ASSUME Inv, NEW c,
           \/ Follow(c, ToldClosed)
           \/ Follow(c, ToldAccepted)
           \/ Follow(c, ToldReactive)
    PROVE  finding' \in [Findings -> Sound]
<1>1. finding \in [Findings -> Sound]
  BY SoundNow
<1>2. CASE Follow(c, ToldClosed)
  BY <1>1, <1>2, SavedRows DEF Follow
<1>3. CASE Follow(c, ToldAccepted)
  BY <1>1, <1>3, SavedRows DEF Follow
<1>4. CASE Follow(c, ToldReactive)
  BY <1>1, <1>4, SavedRows DEF Follow
<1> QED  BY <1>2, <1>3, <1>4

\* One original gets a sound row.
LEMMA OneOriginal ==
    ASSUME Inv, NEW f \in Findings, NEW r \in Sound,
           finding' = [finding EXCEPT ![f] = r]
    PROVE  finding' \in [Findings -> Finding] /\ MitigatedStaysOut'
<1>1. finding' \in [Findings -> Sound]
  BY SoundNow, OnePlace
<1> QED  BY <1>1, SoundNext

LEMMA TransferPages ==
    ASSUME Inv, NEW t \in Transfers, TransferStep(t)
    PROVE  Inv'
<1> USE DEF Inv
<1>1. finding \in [Findings -> Sound]
  BY SoundNow
<1>2. CASE Create(t) \/ Edit(t) \/ DayComes(t)
  <2>1. \E s \in TransferStatus : transfer' = [transfer EXCEPT ![t] = s]
    BY <1>2, EditToAssumption DEF Create, Edit, DayComes, TransferStatus
  <2>2. transfer' \in [Transfers -> TransferStatus]
    BY <2>1 DEF TypeOK
  <2>3. UNCHANGED <<link, finding, copy, acceptance, job, raJob>>
    BY <1>2 DEF Create, Edit, DayComes
  <2> QED  BY <2>2, <2>3 DEF TypeOK, MitigatedStaysOut
<1>3. CASE Delete(t)
  <2>1. finding' \in [Findings -> Sound]
    BY <1>1, <1>3, SavedRows DEF Delete
  <2>2. /\ transfer' \in [Transfers -> TransferStatus]
        /\ link' \in [Transfers -> [Findings -> Link]]
    BY <1>3 DEF Delete, TypeOK, TransferStatus, Link
  <2> QED  BY <1>3, <2>1, <2>2, SoundNext DEF Delete, TypeOK
<1>4. ASSUME NEW S \in SUBSET Findings, Request(t, S)
      PROVE  Inv'
  <2>1. finding' \in [Findings -> Sound]
    BY <1>1, <1>4, SavedRows DEF Request
  <2>2. /\ transfer' \in [Transfers -> TransferStatus]
        /\ link' \in [Transfers -> [Findings -> Link]]
    BY <1>4 DEF Request, TypeOK, TransferStatus, Link
  <2> QED  BY <1>4, <2>1, <2>2, SoundNext DEF Request, TypeOK
<1>5. ASSUME NEW f \in Findings, CreateLink(t, f)
      PROVE  Inv'
  BY <1>5 DEF CreateLink, TypeOK, Link, MitigatedStaysOut
<1>6. ASSUME NEW f \in Findings, Accept(t, f)
      PROVE  Inv'
  <2>1. finding' \in [Findings -> Finding] /\ MitigatedStaysOut'
    BY <1>1, <1>6, SavedRows, OneOriginal DEF Accept
  <2>2. copy' \in [Copies -> Copy] /\ link' \in [Transfers -> [Findings -> Link]]
    BY <1>6, NewCopyTyped, CopyOfAssumption DEF Accept, TypeOK, Link
  <2> QED  BY <1>6, <2>1, <2>2 DEF Accept, TypeOK
<1>7. ASSUME NEW f \in Findings, Reject(t, f)
      PROVE  Inv'
  <2>1. finding' \in [Findings -> Finding] /\ MitigatedStaysOut'
    BY <1>1, <1>7, SavedRows, OneOriginal DEF Reject
  <2> QED  BY <1>7, <2>1 DEF Reject, TypeOK
<1>8. ASSUME NEW f \in Findings, DeleteLink(t, f)
      PROVE  Inv'
  <2>1. finding' \in [Findings -> Finding] /\ MitigatedStaysOut'
    BY <1>1, <1>8, SavedRows, OneOriginal DEF DeleteLink
  <2>2. link' \in [Transfers -> [Findings -> Link]]
    BY <1>8 DEF DeleteLink, TypeOK, Link
  <2> QED  BY <1>8, <2>1, <2>2 DEF DeleteLink, TypeOK
<1> QED  BY <1>2, <1>3, <1>4, <1>5, <1>6, <1>7, <1>8 DEF TransferStep

LEMMA TransferJob ==
    ASSUME Inv, JobStart \/ JobStep
    PROVE  Inv'
<1> USE DEF Inv
<1>1. CASE JobStart
  BY <1>1 DEF JobStart, Idle, TypeOK, MitigatedStaysOut
<1>2. CASE Taken
  BY <1>2 DEF Taken, TypeOK, MitigatedStaysOut
<1>3. ASSUME NEW t \in Transfers, Take(t)
      PROVE  Inv'
  BY <1>3 DEF Take, Linked, TypeOK, TransferStatus, MitigatedStaysOut
<1>4. ASSUME NEW f \in Findings, ExpireFinding(f)
      PROVE  Inv'
  <2>1. finding' \in [Findings -> Finding] /\ MitigatedStaysOut'
    BY <1>4, SoundNow, SavedRows, OneOriginal DEF ExpireFinding
  <2>2. job' \in [left : SUBSET Transfers, at : Transfers \cup {"no transfer"},
                  todo : SUBSET Findings]
    BY <1>4 DEF ExpireFinding, Idle, TypeOK
  <2> QED  BY <1>4, <2>1, <2>2 DEF ExpireFinding, TypeOK
<1> QED  BY <1>1, <1>2, <1>3, <1>4 DEF JobStep

LEMMA Unaccepted ==
    ASSUME Inv, NEW c \in Copies, NEW active \in BOOLEAN, Unaccept(c, active)
    PROVE  /\ copy' \in [Copies -> Copy]
           /\ acceptance' \in [Acceptances -> [status : AcceptanceStatus,
                                               findings : SUBSET Copies]]
<1>1. copy[c] \in Copy
  BY DEF Inv, TypeOK
<1>2. CopyRow(active, ~active, FALSE, copy[c].risk_status) \in Copy
  BY <1>1, CopyColumns, TypedCopyRow
<1>3. copy' \in [Copies -> Copy]
  BY <1>2 DEF Unaccept, Inv, TypeOK
<1>4. ASSUME NEW a \in Acceptances
      PROVE  acceptance'[a] \in [status : AcceptanceStatus, findings : SUBSET Copies]
  BY DEF Unaccept, Inv, TypeOK
<1> QED  BY <1>3, <1>4 DEF Unaccept

LEMMA CopyPages ==
    ASSUME Inv, CopyStep
    PROVE  Inv'
<1> USE DEF Inv
<1>1. ASSUME NEW c \in Copies, CloseCopy(c)
      PROVE  Inv'
  <2>1. finding' \in [Findings -> Sound]
    BY <1>1, EventsAreSound DEF CloseCopy
  <2> QED  BY <1>1, <2>1, Unaccepted, SoundNext DEF CloseCopy, TypeOK
<1>2. ASSUME NEW c \in Copies, CloseCopyByApi(c)
      PROVE  Inv'
  <2>1. finding' \in [Findings -> Sound]
    BY <1>2, EventsAreSound DEF CloseCopyByApi
  <2>2. CopyRow(FALSE, TRUE, copy[c].risk_accepted, copy[c].risk_status) \in Copy
    BY CopyColumns, TypedCopyRow DEF TypeOK
  <2>3. copy' \in [Copies -> Copy]
    BY <1>2, <2>2 DEF CloseCopyByApi, TypeOK
  <2> QED  BY <1>2, <2>1, <2>3, SoundNext DEF CloseCopyByApi, TypeOK
<1>3. ASSUME NEW c \in Copies, ReopenCopy(c)
      PROVE  Inv'
  BY <1>3, Unaccepted DEF ReopenCopy, TypeOK, MitigatedStaysOut
<1>4. ASSUME NEW a \in Acceptances, Reinstate(a)
      PROVE  Inv'
  <2>1. ASSUME NEW c \in Copies
        PROVE  /\ copy[c] \in Copy
               /\ CopyRow(FALSE, copy[c].is_mitigated, TRUE, copy[c].risk_status)
                      \in Copy
    BY CopyColumns, TypedCopyRow DEF TypeOK
  <2>2. copy' \in [Copies -> Copy]
    BY <1>4, <2>1 DEF Reinstate
  <2>3. acceptance' \in [Acceptances -> [status : AcceptanceStatus,
                                         findings : SUBSET Copies]]
    BY <1>4 DEF Reinstate, TypeOK, AcceptanceStatus
  <2> QED  BY <1>4, <2>2, <2>3 DEF Reinstate, TypeOK, MitigatedStaysOut
<1>5. ASSUME NEW a \in Acceptances, NEW c \in Copies, AcceptCopy(a, c)
      PROVE  Inv'
  <2>1. finding' \in [Findings -> Sound]
    BY <1>5, EventsAreSound DEF AcceptCopy
  <2>2. CopyRow(FALSE, copy[c].is_mitigated, TRUE, "Risk Accepted") \in Copy
    BY CopyColumns, TypedCopyRow DEF TypeOK
  <2>3. copy' \in [Copies -> Copy]
    BY <1>5, <2>2 DEF AcceptCopy, TypeOK
  <2>4. acceptance' \in [Acceptances -> [status : AcceptanceStatus,
                                         findings : SUBSET Copies]]
    BY <1>5 DEF AcceptCopy, TypeOK
  <2> QED  BY <1>5, <2>1, <2>3, <2>4, SoundNext DEF AcceptCopy, TypeOK
<1> QED  BY <1>1, <1>2, <1>3, <1>4, <1>5 DEF CopyStep

LEMMA OneAcceptance ==
    ASSUME TypeOK, NEW a \in Acceptances, NEW s \in AcceptanceStatus
    PROVE  [acceptance EXCEPT ![a].status = s]
               \in [Acceptances -> [status : AcceptanceStatus,
                                    findings : SUBSET Copies]]
<1> DEFINE q == [acceptance[a] EXCEPT !.status = s]
<1>1. /\ acceptance \in [Acceptances -> [status : AcceptanceStatus,
                                         findings : SUBSET Copies]]
      /\ q \in [status : AcceptanceStatus, findings : SUBSET Copies]
  BY DEF TypeOK
<1>2. [acceptance EXCEPT ![a].status = s] = [acceptance EXCEPT ![a] = q]
  OBVIOUS
<1> HIDE DEF q
<1> QED  BY <1>1, <1>2, OnePlace

LEMMA AcceptanceDays ==
    ASSUME Inv, NEW a \in Acceptances, Extend(a) \/ AcceptanceDayComes(a)
    PROVE  Inv'
<1>1. acceptance' \in [Acceptances -> [status : AcceptanceStatus,
                                       findings : SUBSET Copies]]
  <2>1. \E s \in AcceptanceStatus :
            acceptance' = [acceptance EXCEPT ![a].status = s]
    BY DEF Extend, AcceptanceDayComes, AcceptanceStatus
  <2> QED  BY <2>1, OneAcceptance DEF Inv
<1> QED  BY <1>1 DEF Inv, Extend, AcceptanceDayComes, TypeOK, MitigatedStaysOut

-----------------------------------------------------------------------------
LEMMA AcceptanceJobStarts ==
    ASSUME Inv, RaJobStart
    PROVE  Inv'
<1> DEFINE D == {a \in Acceptances : acceptance[a].status = "due"}
           list == [a \in D |-> Restrict(copy, acceptance[a].findings)]
<1>1. ASSUME NEW a \in D
      PROVE  Restrict(copy, acceptance[a].findings) \in Rows
  <2>1. /\ acceptance[a].findings \in SUBSET Copies
        /\ \A c \in acceptance[a].findings : copy[c] \in Copy
    BY DEF Inv, TypeOK
  <2>2. [c \in acceptance[a].findings |-> copy[c]]
            \in [acceptance[a].findings -> Copy]
    BY <2>1
  <2> QED  BY <2>1, <2>2 DEF Restrict, Rows
<1>2. list \in [D -> Rows] /\ D \in SUBSET Acceptances
  BY <1>1
<1>3. list \in Lists
  BY <1>2 DEF Lists
<1>4. raJob' = [left |-> list, at |-> "no acceptance"]
  BY DEF RaJobStart, RaIdle
<1> HIDE DEF list
<1>5. /\ raJob' \in [left : Lists, at : Acceptances \cup {"no acceptance"}]
      /\ raJob'.at \in DOMAIN raJob'.left \cup {"no acceptance"}
  BY <1>3, <1>4
<1>6. UNCHANGED <<transfer, link, finding, copy, acceptance, job>>
  BY DEF RaJobStart
<1> QED  BY <1>5, <1>6 DEF Inv, TypeOK, MitigatedStaysOut

\* A step of the job leaves a list of acceptances that is typed.
LEMMA AcceptanceJob ==
    ASSUME Inv, RaJobStep
    PROVE  Inv'
<1> USE DEF Inv
<1>1. /\ raJob.left \in Lists
      /\ raJob = [left |-> raJob.left, at |-> raJob.at]
      /\ raJob.at \in DOMAIN raJob.left \cup {"no acceptance"}
      /\ DOMAIN raJob.left \subseteq Acceptances
      /\ raJob.left \in [DOMAIN raJob.left -> Rows]
  BY ListRead DEF TypeOK
<1>2. CASE RaTaken
  <2>1. raJob' = [left |-> Without(raJob.left, raJob.at), at |-> "no acceptance"]
    BY <1>2 DEF RaTaken
  <2>2. Without(raJob.left, raJob.at) \in Lists
    BY <1>1, WithoutList
  <2>3. acceptance' \in [Acceptances -> [status : AcceptanceStatus,
                                         findings : SUBSET Copies]]
    BY <1>1, <1>2, OneAcceptance DEF RaTaken, AcceptanceStatus
  <2>4. /\ raJob' \in [left : Lists, at : Acceptances \cup {"no acceptance"}]
        /\ raJob'.at \in DOMAIN raJob'.left \cup {"no acceptance"}
    BY <2>1, <2>2
  <2>5. UNCHANGED <<transfer, link, finding, copy, job>>
    BY <1>2 DEF RaTaken
  <2> QED  BY <2>3, <2>4, <2>5 DEF TypeOK, MitigatedStaysOut
<1>3. ASSUME NEW a \in Acceptances, RaTake(a)
      PROVE  Inv'
  BY <1>1, <1>3 DEF RaTake, TypeOK, MitigatedStaysOut
<1>4. ASSUME NEW c \in Copies, ExpireCopy(c)
      PROVE  Inv'
  <2> DEFINE at == raJob.at
             r == raJob.left[at][c]
             rows == Without(raJob.left[at], c)
             list == [raJob.left EXCEPT ![at] = rows]
             done == [left |-> list, at |-> at]
  <2>1. /\ at \in DOMAIN raJob.left /\ raJob.left[at] \in Rows
        /\ c \in DOMAIN raJob.left[at]
    BY <1>1, <1>4 DEF ExpireCopy
  <2>2. r \in Copy /\ ExpiredCopy(r) \in Copy
    BY <2>1, RowsRead, ExpiredCopyTyped
  <2>3. list \in Lists /\ DOMAIN list = DOMAIN raJob.left
    BY <1>1, <2>1, WithoutRows, ChangedList
  <2>5. raJob' \in {done, RaIdle}
    BY <1>4 DEF ExpireCopy
  <2>6. /\ raJob' \in [left : Lists, at : Acceptances \cup {"no acceptance"}]
        /\ raJob'.at \in DOMAIN raJob'.left \cup {"no acceptance"}
    <3>1. CASE raJob' = done
      <4> HIDE DEF list
      <4>1. /\ raJob'.left = list /\ raJob'.at = at
            /\ raJob' = [left |-> list, at |-> at]
        BY <3>1
      <4> QED  BY <1>1, <2>1, <2>3, <4>1
    <3>2. CASE raJob' = RaIdle
      BY <3>2, EmptyList DEF RaIdle
    <3> QED  BY <2>5, <3>1, <3>2
  <2>7. copy' \in [Copies -> Copy]
    BY <1>4, <2>2 DEF ExpireCopy, TypeOK
  <2>8. finding' \in [Findings -> Finding] /\ MitigatedStaysOut'
    <3>1. CASE UNCHANGED finding
      BY <3>1 DEF TypeOK, MitigatedStaysOut
    <3>2. CASE Follow(c, ToldReactive)
      BY <3>2, EventsAreSound, SoundNext
    <3> QED  BY <1>4, <3>1, <3>2 DEF ExpireCopy
  <2> QED  BY <1>4, <2>6, <2>7, <2>8 DEF ExpireCopy, TypeOK
<1> QED  BY <1>2, <1>3, <1>4 DEF RaJobStep

LEMMA Originals ==
    ASSUME Inv, NEW f \in Findings, Mitigate(f) \/ Report(f) \/ Reopen(f)
    PROVE  Inv'
<1> DEFINE s == finding[f].risk_status
           rows == {Row(FALSE, TRUE, s), Row(TRUE, FALSE, s),
                    Row(s # "Transfer Accepted", FALSE, s)}
<1>1. rows \subseteq Sound
  BY SoundRow DEF Inv, TypeOK, Finding
<1>2. PICK r \in rows : Become(f, r)
  BY DEF Mitigate, Report, Reopen
<1> HIDE DEF rows
<1>3. finding' \in [Findings -> Finding] /\ MitigatedStaysOut'
  BY <1>1, <1>2, OneOriginal DEF Become
<1> QED  BY <1>2, <1>3 DEF Inv, Become, TypeOK

LEMMA TransferNext == Inv /\ [Next]_vars => Inv'
<1> SUFFICES ASSUME Inv, [Next]_vars PROVE Inv'
  OBVIOUS
<1>1. CASE UNCHANGED vars
  BY <1>1 DEF vars, Inv, TypeOK, MitigatedStaysOut
<1>2. CASE Next
  BY <1>2, TransferPages, TransferJob, CopyPages, AcceptanceDays,
     AcceptanceJobStarts, AcceptanceJob, Originals DEF Next
<1> QED  BY <1>1, <1>2

-----------------------------------------------------------------------------
\* Every state is well typed, what the two jobs have read included.
THEOREM TransferTyping == Spec => []TypeOK
<1>1. Inv => TypeOK
  BY DEF Inv
<1> QED  BY <1>1, TransferInit, TransferNext, PTL DEF Spec

\* An original that was mitigated is not active again by what is decided about
\* its transfers, by their expiration or by what happens to its copy
\* (close_or_reactive_related_finding, reset_finding_related, expire_now).
THEOREM TransferMitigation == Spec => []MitigatedStaysOut
<1>1. Inv => MitigatedStaysOut
  BY DEF Inv
<1> QED  BY <1>1, TransferInit, TransferNext, PTL DEF Spec
=============================================================================
