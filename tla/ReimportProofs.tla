--------------------------- MODULE ReimportProofs ---------------------------
(***************************************************************************)
(* Proofs about Reimport, for any reports, options, runs and findings:     *)
(* rows stay clean whatever copy of them is saved, reports in a row create *)
(* nothing twice, triage survives, and a run that nobody disturbs leaves   *)
(* each finding as the last item of the report that means it says.  The    *)
(* last one follows the run item by item: after each, a finding is as the  *)
(* last item so far that has its hash code decides, and the other findings *)
(* are as the run has found them.                                          *)
(***************************************************************************)
EXTENDS Reimport, SequenceTheorems, WellFoundedInduction, TLAPS

-----------------------------------------------------------------------------
(***************************************************************************)
(* Rows.                                                                   *)
(***************************************************************************)
Clean(row) ==
    row.active => ~row.is_mitigated /\ ~row.false_p /\ ~row.risk_accepted

\* What is kept of a row that was triaged.
Keeps(old, new) ==
    (old.false_p => new.false_p) /\ (old.risk_accepted => new.risk_accepted)

\* A new finding.
LEMMA CreatedRow ==
    ASSUME NEW item \in Item, NEW options
    PROVE  Created(item, options) \in Finding /\ Clean(Created(item, options))
BY DEF Item, Created, Row, Finding, Clean

\* What the importer makes of a row in memory.
LEMMA ProcessedRow ==
    ASSUME NEW row \in Finding, Clean(row), NEW item \in Item
    PROVE  /\ Processed(row, item) \in Finding
           /\ Clean(Processed(row, item))
           /\ Keeps(row, Processed(row, item))
           /\ Processed(row, item).key = row.key
BY DEF Item, Processed, Finding, Clean, Keeps, Uncloses, Special, Reactivates, Saved

\* What closing makes of a row that was read before.
LEMMA ClosedRow ==
    ASSUME NEW old \in Finding, NEW now \in Finding,
           NEW new,
           new = [[old EXCEPT !.false_p = now.false_p,
                              !.risk_accepted = now.risk_accepted]
                     EXCEPT !.active = FALSE, !.is_mitigated = TRUE]
    PROVE  new \in Finding /\ Clean(new) /\ Keeps(now, new) /\ new.key = old.key
BY DEF Finding, Clean, Keeps

-----------------------------------------------------------------------------
(***************************************************************************)
(* The table of findings, and where a run is.                              *)
(***************************************************************************)
LEMMA RowsAre ==
    \A x : x \in Rows <=> DOMAIN x \subseteq Id /\ x \in [DOMAIN x -> Finding]
BY DEF Rows

LEMMA PutRow ==
    ASSUME finding \in Rows, NEW f \in Id, NEW row \in Finding, Put(f, row)
    PROVE  /\ finding' \in Rows
           /\ DOMAIN finding' = DOMAIN finding \cup {f}
           /\ finding'[f] = row
           /\ \A g \in DOMAIN finding \ {f} : finding'[g] = finding[g]
<1>1. DOMAIN finding \subseteq Id /\ finding \in [DOMAIN finding -> Finding]
  BY RowsAre
<1>2. finding' = [g \in DOMAIN finding \cup {f} |-> IF g = f THEN row ELSE finding[g]]
  BY DEF Put
<1>3. finding' \in [DOMAIN finding \cup {f} -> Finding]
  BY <1>1, <1>2
<1>4. finding' \in Rows
  BY <1>1, <1>3, RowsAre
<1> QED  BY <1>2, <1>4

LEMMA DeletedRow ==
    ASSUME finding \in Rows, NEW f, Delete(f)
    PROVE  /\ finding' \in Rows
           /\ DOMAIN finding' = DOMAIN finding \ {f}
           /\ \A g \in DOMAIN finding' : finding'[g] = finding[g]
<1>1. DOMAIN finding \subseteq Id /\ finding \in [DOMAIN finding -> Finding]
  BY RowsAre
<1>2. finding' = [g \in DOMAIN finding \ {f} |-> finding[g]]
  BY DEF Delete, Restrict
<1>3. finding' \in [DOMAIN finding \ {f} -> Finding]
  BY <1>1, <1>2
<1>4. DOMAIN finding' = DOMAIN finding \ {f}
  BY <1>2
<1>5. finding' \in Rows
  BY <1>1, <1>3, <1>4, RowsAre
<1>6. \A g \in DOMAIN finding' : finding'[g] = finding[g]
  BY <1>2
<1> QED  BY <1>4, <1>5, <1>6

\* One field of what a run is at.
LEMMA RunShape ==
    ASSUME NEW x \in Run
    PROVE  /\ x.step \in {"idle", "match", "create", "save", "close"}
           /\ x.step = "idle" => x = Idle
           /\ x.step # "idle" =>
                 /\ x.report \in Reports /\ x.options \in Options
                 /\ x.original \in Rows /\ x.alone \in BOOLEAN
           /\ x.step \in {"match", "create", "save"} =>
                 x.next \in Nat \ {0} /\ x.kept \in SUBSET Id
           /\ x.step = "save" => x.id \in Id /\ x.row \in Finding
           /\ x.step = "close" => x.left \in SUBSET Id
BY DEF Run, Idle

\* Nothing but its being alone changes.
LEMMA Interrupted ==
    ASSUME NEW x \in Run, x.step # "idle",
           NEW y, y = [x EXCEPT !.alone = FALSE]
    PROVE  /\ y \in Run /\ y.step = x.step /\ ~y.alone
           /\ y.report = x.report /\ y.options = x.options /\ y.original = x.original
           /\ x.step \in {"match", "create", "save"} => y.next = x.next /\ y.kept = x.kept
           /\ x.step = "save" => y.id = x.id /\ y.row = x.row
           /\ x.step = "close" => y.left = x.left
<1>1. CASE x \in [step : {"match", "create"}, report : Reports, next : Nat \ {0},
                  options : Options, original : Rows, kept : SUBSET Id, alone : BOOLEAN]
  BY <1>1 DEF Run
<1>2. CASE x \in [step : {"save"}, report : Reports, next : Nat \ {0},
                  options : Options, original : Rows, kept : SUBSET Id, alone : BOOLEAN,
                  id : Id, row : Finding]
  BY <1>2 DEF Run
<1>3. CASE x \in [step : {"close"}, report : Reports, options : Options,
                  original : Rows, left : SUBSET Id, alone : BOOLEAN]
  BY <1>3 DEF Run
<1> QED  BY <1>1, <1>2, <1>3 DEF Run, Idle

-----------------------------------------------------------------------------
(***************************************************************************)
(* The invariant.                                                          *)
(***************************************************************************)
\* Where a run is agrees with what it has read.
Fit ==
    \A r \in Runs :
        /\ run[r].step = "create" => run[r].next <= Len(run[r].report)
        /\ run[r].step = "save" => Clean(run[r].row)
        /\ run[r].step = "close" => run[r].left \subseteq DOMAIN run[r].original

AllClean == \A f \in DOMAIN finding : Clean(finding[f])

\* A hash code is for ever: copies of a row have the one that the row has.
Stable ==
    \A r \in Runs :
        /\ run[r].step # "idle" =>
              /\ DOMAIN run[r].original \subseteq 1 .. created
              /\ \A f \in DOMAIN run[r].original \cap DOMAIN finding :
                    run[r].original[f].key = finding[f].key
        /\ run[r].step = "save" =>
              /\ run[r].id \in 1 .. created
              /\ run[r].id \in DOMAIN finding => run[r].row.key = finding[run[r].id].key

Inv == TypeOK /\ Fit /\ AllClean /\ Stable

LEMMA CurrentItem ==
    ASSUME TypeOK, NEW r \in Runs, run[r].step \in {"match", "create"},
           run[r].next <= Len(run[r].report)
    PROVE  Current(r) \in Item
<1>1. run[r] \in Run
  BY DEF TypeOK
<1>2. run[r].report \in Reports /\ run[r].next \in Nat \ {0}
  BY <1>1, RunShape
<1>3. run[r].report \in Seq(Item)
  BY <1>2, ReportsAssumption
<1> QED  BY <1>2, <1>3 DEF Current

\* What becomes of the findings in a step: one is new ...
Grows ==
    /\ created' = created + 1
    /\ DOMAIN finding' = DOMAIN finding \cup {created'}
    /\ \A g \in DOMAIN finding : finding'[g] = finding[g]

\* ... or each is what it was, with other marks, or gone.
Changes ==
    /\ created' = created
    /\ DOMAIN finding' \subseteq DOMAIN finding
    /\ \A g \in DOMAIN finding' : finding'[g].key = finding[g].key

LEMMA PutKnown ==
    ASSUME Inv, NEW f \in DOMAIN finding, NEW row \in Finding, Clean(row),
           row.key = finding[f].key, Put(f, row), created' = created
    PROVE  finding' \in Rows /\ AllClean' /\ Changes
           /\ finding'[f] = row /\ DOMAIN finding' = DOMAIN finding
<1>1. finding \in Rows /\ DOMAIN finding \subseteq Id
  BY RowsAre DEF Inv, TypeOK
<1>2. /\ finding' \in Rows
      /\ DOMAIN finding' = DOMAIN finding \cup {f}
      /\ finding'[f] = row
      /\ \A g \in DOMAIN finding \ {f} : finding'[g] = finding[g]
  BY <1>1, PutRow
<1> QED  BY <1>2 DEF Inv, AllClean, Changes

LEMMA ActFindings ==
    ASSUME Inv, Act
    PROVE  finding' \in Rows /\ AllClean' /\ Changes
<1>1. PICK f \in DOMAIN finding :
          \/ \E false_p \in BOOLEAN : Close(f, false_p)
          \/ Reopen(f) \/ MarkFalsePositive(f) \/ Accept(f) \/ Release(f)
          \/ Hide(f) \/ Delete(f)
  BY DEF Act
<1>2. finding[f] \in Finding /\ Clean(finding[f]) /\ created' = created
      /\ finding \in Rows
  BY RowsAre DEF Inv, TypeOK, AllClean, Act
<1>3. CASE Delete(f)
  BY <1>2, <1>3, DeletedRow DEF Inv, AllClean, Changes
<1>4. CASE ~Delete(f)
  <2>1. PICK row \in Finding :
            Clean(row) /\ row.key = finding[f].key /\ Put(f, row)
    BY <1>1, <1>2, <1>4 DEF Close, Reopen, MarkFalsePositive, Accept, Release, Hide,
                            Saved, Finding, Clean
  <2> QED  BY <1>2, <2>1, PutKnown
<1> QED  BY <1>3, <1>4

\* A row that was loaded for an item.
LEMMA FirstRow ==
    ASSUME Inv, NEW r \in Runs, NEW f \in First(r)
    PROVE  /\ f \in DOMAIN finding /\ f \in Id /\ f \in 1 .. created
           /\ finding[f] \in Finding /\ Clean(finding[f])
           /\ Current(r) \in Item /\ run[r].step = "match"
           /\ finding[f].key = Current(r).key
<1>1. /\ f \in DOMAIN finding /\ finding[f].key = Current(r).key
      /\ run[r].step = "match" /\ run[r].next <= Len(run[r].report)
  <2>1. f \in DOMAIN finding /\ Reading(r) /\ f \in Matches(r, Current(r).key)
    BY DEF First
  <2> QED  BY <2>1 DEF Reading, Busy, Matches
<1>2. Current(r) \in Item
  BY <1>1, CurrentItem DEF Inv
<1>3. DOMAIN finding \subseteq Id /\ finding[f] \in Finding /\ f \in 1 .. created
  BY <1>1, RowsAre DEF Inv, TypeOK
<1> QED  BY <1>1, <1>2, <1>3 DEF Inv, AllClean

LEMMA StepFindings ==
    ASSUME Inv, Next
    PROVE  finding' \in Rows /\ AllClean' /\ (Grows \/ Changes)
<1>1. CASE Act
  BY <1>1, ActFindings
<1>2. CASE \E r \in Runs : Create(r)
  <2>1. PICK r \in Runs : Create(r)
    BY <1>2
  <2>2. run[r].step = "create" /\ run[r].next <= Len(run[r].report)
    BY <2>1 DEF Create, Busy, Inv, Fit
  <2>3. Current(r) \in Item
    BY <2>2, CurrentItem DEF Inv
  <2>4. PICK row \in Finding : Clean(row) /\ Put(created', row)
    BY <2>1, <2>3, CreatedRow DEF Create
  <2>5. created' = created + 1 /\ created' \in Id /\ created' \notin DOMAIN finding
        /\ finding \in Rows
    BY <2>1, BoundsAssumption DEF Create, Inv, TypeOK, Id
  <2>6. /\ finding' \in Rows
        /\ DOMAIN finding' = DOMAIN finding \cup {created'}
        /\ finding'[created'] = row
        /\ \A g \in DOMAIN finding \ {created'} : finding'[g] = finding[g]
    BY <2>4, <2>5, PutRow
  <2> QED  BY <2>4, <2>5, <2>6 DEF Inv, AllClean, Grows
<1>3. CASE \E r \in Runs : \E f \in First(r) : Match(r, f)
  <2>0. PICK r \in Runs : \E f \in First(r) : Match(r, f)
    BY <1>3
  <2>1. PICK f \in First(r) : Match(r, f)
    BY <2>0
  <2>2. /\ f \in DOMAIN finding /\ finding[f] \in Finding /\ Clean(finding[f])
        /\ Current(r) \in Item
    BY FirstRow
  <2>3. CASE Put(f, Processed(finding[f], Current(r)))
    BY <2>1, <2>2, <2>3, ProcessedRow, PutKnown DEF Match
  <2>4. CASE finding' = finding
    BY <2>1, <2>4 DEF Match, Inv, TypeOK, AllClean, Changes
  <2> QED  BY <2>1, <2>3, <2>4 DEF Match
<1>4. CASE \E r \in Runs : Save(r)
  <2>1. PICK r \in Runs : Save(r)
    BY <1>4
  <2>2. CASE run[r].id \in DOMAIN finding /\ Put(run[r].id, run[r].row)
    <3>1. run[r] \in Run /\ run[r].step = "save" /\ created' = created
      BY <2>1 DEF Save, Busy, Inv, TypeOK
    <3>2. run[r].row \in Finding /\ Clean(run[r].row)
          /\ run[r].row.key = finding[run[r].id].key
      BY <2>2, <3>1, RunShape DEF Inv, Fit, Stable
    <3> QED  BY <2>2, <3>1, <3>2, PutKnown
  <2>3. CASE finding' = finding
    BY <2>1, <2>3 DEF Save, Inv, TypeOK, AllClean, Changes
  <2> QED  BY <2>1, <2>2, <2>3 DEF Save
<1>5. CASE \E r \in Runs : \E f \in Id : CloseOld(r, f)
  <2>1. PICK r \in Runs, f \in Id : CloseOld(r, f)
    BY <1>5
  <2>2. CASE finding' = finding
    BY <2>1, <2>2 DEF CloseOld, Inv, TypeOK, AllClean, Changes
  <2>3. CASE finding' # finding
    <3>1. /\ f \in DOMAIN finding
          /\ Put(f, [Refreshed(r, f) EXCEPT !.active = FALSE, !.is_mitigated = TRUE])
      BY <2>1, <2>3 DEF CloseOld
    <3>2. run[r] \in Run /\ run[r].step = "close" /\ created' = created
          /\ f \in DOMAIN run[r].original
      BY <2>1 DEF CloseOld, Busy, Inv, TypeOK, Fit
    <3>3. run[r].original[f] \in Finding /\ finding[f] \in Finding
          /\ run[r].original[f].key = finding[f].key
      BY <3>1, <3>2, RunShape, RowsAre DEF Inv, TypeOK, Stable
    <3>4. PICK row \in Finding : Clean(row) /\ row.key = finding[f].key /\ Put(f, row)
      <4> DEFINE row == [Refreshed(r, f) EXCEPT !.active = FALSE, !.is_mitigated = TRUE]
      <4>1. row \in Finding /\ Clean(row) /\ row.key = finding[f].key
        BY <3>3, ClosedRow DEF Refreshed
      <4> QED  BY <3>1, <4>1
    <3> QED  BY <3>1, <3>2, <3>4, PutKnown
  <2> QED  BY <2>2, <2>3
<1>6. CASE finding' = finding /\ created' = created
  BY <1>6 DEF Inv, TypeOK, AllClean, Changes
<1> QED  BY <1>1, <1>2, <1>3, <1>4, <1>5, <1>6 DEF Next, RunStep, Start, Miss,
             Settle, End, Skip

\* What becomes of a run in a step, from x to y.
Goes(x, y) ==
    /\ y \in Run
    /\ y.step = "create" =>
          /\ y.next <= Len(y.report) /\ y.report = x.report /\ y.next = x.next
          /\ \/ x.step = "create"
             \/ /\ finding' = finding
                /\ \A f \in DOMAIN finding : finding[f].key # x.report[x.next].key
    /\ y.step = "close" => y.left \subseteq DOMAIN y.original
    /\ y.step # "idle" =>
          \/ x.step # "idle" /\ y.original = x.original
          \/ y.original = finding /\ finding' = finding /\ created' = created
    /\ y.step = "save" =>
          /\ Clean(y.row)
          /\ \/ x.step = "save" /\ y.id = x.id /\ y.row = x.row
             \/ y.id \in DOMAIN finding' /\ y.row.key = finding'[y.id].key

LEMMA GoesOn ==
    ASSUME Inv, NEW r \in Runs, NEW y,
           \/ y = run[r]
           \/ run[r].step # "idle" /\ y = [run[r] EXCEPT !.alone = FALSE]
    PROVE  Goes(run[r], y)
<1>1. run[r] \in Run
  BY DEF Inv, TypeOK
<1>2. CASE y = run[r]
  BY <1>1, <1>2 DEF Goes, Inv, Fit
<1>3. CASE run[r].step # "idle" /\ y = [run[r] EXCEPT !.alone = FALSE]
  <2>1. /\ y \in Run /\ y.step = run[r].step
        /\ y.report = run[r].report /\ y.original = run[r].original
        /\ y.step = "create" => y.next = run[r].next
        /\ y.step = "save" => y.id = run[r].id /\ y.row = run[r].row
        /\ y.step = "close" => y.left = run[r].left
    BY <1>1, <1>3, Interrupted
  <2> QED  BY <1>3, <2>1 DEF Goes, Inv, Fit
<1> QED  BY <1>2, <1>3

LEMMA ActRuns ==
    ASSUME Inv, Act, NEW r \in Runs
    PROVE  Goes(run[r], run'[r]) /\ run' = [q \in Runs |-> run'[q]]
<1>1. run' = [s \in Runs |->
                 IF Busy(s, "idle") THEN Idle ELSE [run[s] EXCEPT !.alone = FALSE]]
  BY DEF Act
<1>2. run[r] \in Run
  BY DEF Inv, TypeOK
<1>3. run[r].step = "idle" => run'[r] = run[r]
  BY <1>1, <1>2, RunShape DEF Busy
<1>4. run[r].step # "idle" => run'[r] = [run[r] EXCEPT !.alone = FALSE]
  BY <1>1 DEF Busy
<1> QED  BY <1>1, <1>3, <1>4, GoesOn

LEMMA StartRuns ==
    ASSUME Inv, NEW s \in Runs, Start(s), NEW r \in Runs
    PROVE  Goes(run[r], run'[r]) /\ run' = [q \in Runs |-> run'[q]]
<1> DEFINE alone == \A q \in Runs : Busy(q, "idle")
<1>1. PICK report \in Reports, options \in Options :
          run' = [q \in Runs |->
                     CASE q = s -> [step |-> "match", report |-> report, next |-> 1,
                                    options |-> options, original |-> finding,
                                    kept |-> {}, alone |-> alone]
                       [] q # s /\ ~Busy(q, "idle") -> [run[q] EXCEPT !.alone = FALSE]
                       [] OTHER -> run[q]]
  BY DEF Start
<1>2. run' = [q \in Runs |-> run'[q]]
  BY <1>1
<1>3. CASE r = s
  <2>1. run'[r] = [step |-> "match", report |-> report, next |-> 1,
                   options |-> options, original |-> finding, kept |-> {}, alone |-> alone]
    BY <1>1, <1>3
  <2>2. alone \in BOOLEAN
    OBVIOUS
  <2>3. finding \in Rows /\ finding' = finding /\ created' = created
    BY DEF Start, Inv, TypeOK
  <2> HIDE DEF alone
  <2>4. run'[r] \in Run
    BY <2>1, <2>2, <2>3 DEF Run
  <2> QED  BY <1>2, <2>1, <2>3, <2>4 DEF Goes
<1>4. CASE r # s /\ ~Busy(r, "idle")
  <2>1. run'[r] = [run[r] EXCEPT !.alone = FALSE]
    BY <1>1, <1>4
  <2> QED  BY <1>2, <1>4, <2>1, GoesOn DEF Busy
<1>5. CASE r # s /\ Busy(r, "idle")
  <2>1. run'[r] = run[r]
    BY <1>1, <1>5
  <2> QED  BY <1>2, <2>1, GoesOn
<1> QED  BY <1>3, <1>4, <1>5
LEMMA Moved ==
    ASSUME Inv, NEW r \in Runs, NEW y, run' = [run EXCEPT ![r] = y], Goes(run[r], y)
    PROVE  /\ run' = [q \in Runs |-> run'[q]]
           /\ run'[r] = y /\ \A q \in Runs \ {r} : run'[q] = run[q]
           /\ \A q \in Runs : Goes(run[q], run'[q])
<1>1. run \in [Runs -> Run]
  BY DEF Inv, TypeOK
<1>2. /\ run' = [q \in Runs |-> run'[q]]
      /\ run'[r] = y /\ \A q \in Runs \ {r} : run'[q] = run[q]
  BY <1>1
<1>3. \A q \in Runs \ {r} : Goes(run[q], run[q])
  BY GoesOn
<1>4. ASSUME NEW q \in Runs PROVE Goes(run[q], run'[q])
  BY <1>2, <1>3
<1> QED  BY <1>2, <1>4

LEMMA HoldingRuns ==
    ASSUME Inv, NEW r \in Runs, run[r].step \in {"match", "create"},
           NEW f \in Id, NEW row \in Finding, NEW kept \in SUBSET Id,
           Holding(r, f, row, kept),
           Clean(row), f \in DOMAIN finding', row.key = finding'[f].key
    PROVE  /\ run' = [q \in Runs |-> run'[q]]
           /\ \A q \in Runs \ {r} : run'[q] = run[q]
           /\ \A q \in Runs : Goes(run[q], run'[q])
           /\ run'[r].step = "save" /\ run'[r].id = f /\ run'[r].row = row
           /\ run'[r].alone = run[r].alone
<1> DEFINE y == [step |-> "save", report |-> run[r].report, next |-> run[r].next,
        options |-> run[r].options, original |-> run[r].original, kept |-> kept,
        alone |-> run[r].alone, id |-> f, row |-> row]
<1>1. run \in [Runs -> Run] /\ run[r] \in Run
  BY DEF Inv, TypeOK
<1>2. run' = [run EXCEPT ![r] = y]
  BY <1>1 DEF Holding
<1>3. /\ run[r].report \in Reports /\ run[r].options \in Options
      /\ run[r].original \in Rows /\ run[r].alone \in BOOLEAN
      /\ run[r].next \in Nat \ {0}
  BY <1>1, RunShape
<1>4. y \in Run
  BY <1>3 DEF Run
<1>5. Goes(run[r], y)
  BY <1>4 DEF Goes
<1>6. y.step = "save" /\ y.id = f /\ y.row = row /\ y.alone = run[r].alone
  OBVIOUS
<1> HIDE DEF y
<1> QED  BY <1>2, <1>5, <1>6, Moved

LEMMA AdvanceRuns ==
    ASSUME Inv, NEW r \in Runs, run[r].step \in {"match", "save"},
           NEW kept \in SUBSET Id, Advance(r, kept)
    PROVE  /\ run' = [q \in Runs |-> run'[q]]
           /\ \A q \in Runs \ {r} : run'[q] = run[q]
           /\ \A q \in Runs : Goes(run[q], run'[q])
           /\ run'[r].step = "match" /\ run'[r].alone = run[r].alone
<1> DEFINE y == [step |-> "match", report |-> run[r].report, next |-> run[r].next + 1,
        options |-> run[r].options, original |-> run[r].original, kept |-> kept,
        alone |-> run[r].alone]
<1>1. run \in [Runs -> Run] /\ run[r] \in Run
  BY DEF Inv, TypeOK
<1>2. run' = [run EXCEPT ![r] = y]
  BY <1>1 DEF Advance
<1>3. /\ run[r].report \in Reports /\ run[r].options \in Options
      /\ run[r].original \in Rows /\ run[r].alone \in BOOLEAN
      /\ run[r].next + 1 \in Nat \ {0}
  BY <1>1, RunShape
<1>4. y \in Run
  BY <1>3 DEF Run
<1>5. Goes(run[r], y)
  BY <1>4 DEF Goes
<1>6. y.step = "match" /\ y.alone = run[r].alone
  OBVIOUS
<1> HIDE DEF y
<1> QED  BY <1>2, <1>5, <1>6, Moved

LEMMA IdleRuns ==
    ASSUME Inv, NEW r \in Runs, run' = [run EXCEPT ![r] = Idle]
    PROVE  /\ run' = [q \in Runs |-> run'[q]]
           /\ run'[r] = Idle /\ \A q \in Runs \ {r} : run'[q] = run[q]
           /\ \A q \in Runs : Goes(run[q], run'[q])
<1>1. Goes(run[r], Idle)
  BY DEF Goes, Idle, Run
<1> QED  BY <1>1, Moved
\* A run that goes on leaves the others alone.
Alone(r) ==
    /\ run' = [q \in Runs |-> run'[q]]
    /\ \A q \in Runs \ {r} : run'[q] = run[q]
    /\ \A q \in Runs : Goes(run[q], run'[q])
    /\ run[r].step # "idle"
    /\ run'[r].step # "idle" => run'[r].alone = run[r].alone

\* A run that holds a row has it as it was saved, or with the marks of triage
\* that the finding has.
Holds(r) ==
    run'[r].step = "save" =>
        /\ run[r].step # "save"
        /\ run'[r].id \in DOMAIN finding' /\ Keeps(finding'[run'[r].id], run'[r].row)

LEMMA MissRuns ==
    ASSUME Inv, NEW r \in Runs, Miss(r)
    PROVE  Alone(r)
<1> DEFINE y == [run[r] EXCEPT !.step = "create"]
<1>1. run \in [Runs -> Run] /\ run[r] \in Run
  BY DEF Inv, TypeOK
<1>2. run' = [run EXCEPT ![r] = y]
  BY <1>1 DEF Miss
<1>3. run[r].step = "match" /\ run[r].next <= Len(run[r].report)
  BY DEF Miss, Reading, Busy
<1>4. run[r] \in [step : {"match", "create"}, report : Reports, next : Nat \ {0},
          options : Options, original : Rows, kept : SUBSET Id, alone : BOOLEAN]
  BY <1>1, <1>3 DEF Run, Idle
<1>5. /\ y \in [step : {"match", "create"}, report : Reports, next : Nat \ {0},
          options : Options, original : Rows, kept : SUBSET Id, alone : BOOLEAN]
      /\ y.step = "create" /\ y.next = run[r].next /\ y.report = run[r].report
      /\ y.original = run[r].original /\ y.alone = run[r].alone
  BY <1>4
<1> HIDE DEF y
<1>6. y \in Run
  BY <1>5 DEF Run
<1>7. finding' = finding
      /\ \A f \in DOMAIN finding : finding[f].key # run[r].report[run[r].next].key
  BY DEF Miss, Matches, Current
<1>8. Goes(run[r], y)
  BY <1>3, <1>5, <1>6, <1>7 DEF Goes
<1> QED  BY <1>2, <1>3, <1>5, <1>8, Moved DEF Alone

LEMMA SettleRuns ==
    ASSUME Inv, NEW r \in Runs, Settle(r)
    PROVE  Alone(r)
<1>1. run \in [Runs -> Run] /\ run[r] \in Run /\ run[r].step = "match"
  BY DEF Inv, TypeOK, Settle, Busy
<1> DEFINE left == IF run[r].options.close_old_findings
                   THEN DOMAIN run[r].original \ run[r].kept ELSE {}
           y == [step |-> "close", report |-> run[r].report,
                 options |-> run[r].options, original |-> run[r].original,
                 left |-> left, alone |-> run[r].alone]
<1>2. run' = [run EXCEPT ![r] = y]
  BY <1>1 DEF Settle
<1>3. /\ run[r].report \in Reports /\ run[r].options \in Options
      /\ run[r].original \in Rows /\ run[r].alone \in BOOLEAN
  BY <1>1, RunShape
<1>4. left \subseteq DOMAIN run[r].original /\ left \in SUBSET Id
  BY <1>3, RowsAre
<1> HIDE DEF left
<1>5. y \in Run
  BY <1>3, <1>4 DEF Run
<1>6. Goes(run[r], y)
  BY <1>1, <1>4, <1>5 DEF Goes
<1>7. y.alone = run[r].alone
  OBVIOUS
<1> HIDE DEF y
<1> QED  BY <1>1, <1>2, <1>6, <1>7, Moved DEF Alone

LEMMA CloseRuns ==
    ASSUME Inv, NEW r \in Runs, NEW f, CloseOld(r, f)
    PROVE  Alone(r) /\ Holds(r)
<1>1. run \in [Runs -> Run] /\ run[r] \in Run /\ run[r].step = "close"
  BY DEF Inv, TypeOK, CloseOld, Busy
<1>2. CASE run' = [run EXCEPT ![r] = Idle]
  BY <1>1, <1>2, IdleRuns DEF Alone, Holds, Idle
<1>3. CASE run' = [run EXCEPT ![r].left = @ \ {f}]
  <2> DEFINE y == [run[r] EXCEPT !.left = run[r].left \ {f}]
  <2>1. run' = [run EXCEPT ![r] = y]
    BY <1>1, <1>3
  <2>2. run[r] \in [step : {"close"}, report : Reports, options : Options,
                    original : Rows, left : SUBSET Id, alone : BOOLEAN]
    BY <1>1 DEF Run, Idle
  <2>3. /\ y \in [step : {"close"}, report : Reports, options : Options,
                   original : Rows, left : SUBSET Id, alone : BOOLEAN]
        /\ y.step = "close" /\ y.left \subseteq run[r].left
        /\ y.original = run[r].original /\ y.alone = run[r].alone
    BY <2>2
  <2>4. run[r].left \subseteq DOMAIN run[r].original
    BY <1>1 DEF Inv, Fit
  <2> HIDE DEF y
  <2>5. y \in Run
    BY <2>3 DEF Run
  <2>6. Goes(run[r], y)
    BY <1>1, <2>3, <2>4, <2>5 DEF Goes
  <2> QED  BY <1>1, <2>1, <2>3, <2>6, Moved DEF Alone, Holds
<1> QED  BY <1>2, <1>3 DEF CloseOld, Fails
LEMMA CreateRuns ==
    ASSUME Inv, NEW r \in Runs, Create(r)
    PROVE  Alone(r) /\ Holds(r) /\ Grows /\ finding'[created'].key = Current(r).key
<1>1. run[r] \in Run /\ run[r].step = "create" /\ run[r].next <= Len(run[r].report)
  BY DEF Inv, TypeOK, Fit, Create, Busy
<1>2. Current(r) \in Item /\ run[r].kept \in SUBSET Id
  BY <1>1, CurrentItem, RunShape DEF Inv
<1> DEFINE row == Created(Current(r), run[r].options)
<1>3. row \in Finding /\ Clean(row)
  BY <1>2, CreatedRow
<1>4. created' = created + 1 /\ created' \in Id /\ created' \notin DOMAIN finding
      /\ finding \in Rows
  BY BoundsAssumption DEF Create, Inv, TypeOK, Id
<1>5. row.key = Current(r).key
  BY DEF Created, Row
<1>6. Put(created', row) /\ Holding(r, created', row, run[r].kept)
  BY DEF Create
<1> HIDE DEF row
<1>7. /\ DOMAIN finding' = DOMAIN finding \cup {created'} /\ finding'[created'] = row
      /\ \A g \in DOMAIN finding \ {created'} : finding'[g] = finding[g]
  BY <1>3, <1>4, <1>6, PutRow
<1>8. Alone(r) /\ run'[r].id = created' /\ run'[r].row = row
  BY <1>1, <1>2, <1>3, <1>4, <1>6, <1>7, HoldingRuns DEF Alone
<1> QED  BY <1>1, <1>4, <1>5, <1>7, <1>8 DEF Holds, Grows, Keeps

LEMMA MatchRuns ==
    ASSUME Inv, NEW r \in Runs, NEW f \in First(r), Match(r, f)
    PROVE  Alone(r) /\ Holds(r)
           /\ \A g \in DOMAIN finding' : Keeps(finding[g], finding'[g])
<1> DEFINE row == Processed(finding[f], Current(r))
           kept == IF Kept(finding[f], Current(r)) THEN run[r].kept \cup {f}
                   ELSE run[r].kept
<1>1. /\ f \in DOMAIN finding /\ f \in Id
      /\ finding[f] \in Finding /\ Clean(finding[f])
      /\ Current(r) \in Item /\ run[r].step = "match"
  BY FirstRow
<1>2. row \in Finding /\ Clean(row) /\ Keeps(finding[f], row) /\ row.key = finding[f].key
  BY <1>1, ProcessedRow
<1>3. run[r] \in Run /\ finding \in Rows
  BY DEF Inv, TypeOK
<1>4. kept \in SUBSET Id
  BY <1>1, <1>3, RunShape
<1>5. Holding(r, f, row, kept) /\ (Put(f, row) \/ finding' = finding)
  BY DEF Match
<1> HIDE DEF row, kept
<1>6. /\ f \in DOMAIN finding' /\ DOMAIN finding' = DOMAIN finding
      /\ finding'[f] = row \/ finding'[f] = finding[f]
      /\ \A g \in DOMAIN finding \ {f} : finding'[g] = finding[g]
  <2>1. CASE Put(f, row)
    BY <1>1, <1>2, <1>3, <2>1, PutRow
  <2>2. CASE finding' = finding
    BY <1>1, <2>2
  <2> QED  BY <1>5, <2>1, <2>2
<1>7. Alone(r) /\ run'[r].id = f /\ run'[r].row = row
  BY <1>1, <1>2, <1>4, <1>5, <1>6, HoldingRuns DEF Alone
<1> QED  BY <1>1, <1>2, <1>6, <1>7 DEF Holds, Keeps

LEMMA OneRun ==
    ASSUME Inv, NEW r \in Runs, RunStep(r), ~Start(r)
    PROVE  Alone(r) /\ Holds(r)
<1>0. run[r] \in Run
  BY DEF Inv, TypeOK
<1>1. CASE Miss(r)
  <2>1. run'[r].step = "create"
    BY <1>1 DEF Miss, Inv, TypeOK
  <2> QED  BY <1>1, <2>1, MissRuns DEF Holds
<1>2. CASE Create(r)
  BY <1>2, CreateRuns
<1>3. CASE Save(r)
  <2>1. run[r].step = "save" /\ run[r].kept \in SUBSET Id
    BY <1>0, <1>3, RunShape DEF Save, Busy
  <2>2. CASE Advance(r, run[r].kept)
    BY <2>1, <2>2, AdvanceRuns DEF Alone, Holds
  <2>3. CASE run' = [run EXCEPT ![r] = Idle]
    BY <2>1, <2>3, IdleRuns DEF Alone, Holds, Idle
  <2> QED  BY <1>3, <2>2, <2>3 DEF Save, Fails
<1>4. CASE Settle(r)
  <2>1. run'[r].step = "close"
    BY <1>4 DEF Settle, Inv, TypeOK
  <2> QED  BY <1>4, <2>1, SettleRuns DEF Holds
<1>5. CASE End(r)
  BY <1>5, IdleRuns DEF Alone, Holds, Idle, End, Busy
<1>6. CASE \E f \in First(r) : Skip(r, f)
  <2>1. PICK f \in First(r) : Skip(r, f)
    BY <1>6
  <2>2. f \in Id /\ run[r].step = "match" /\ run[r].kept \in SUBSET Id
    BY <1>0, FirstRow, RunShape
  <2>3. PICK kept \in SUBSET Id : Advance(r, kept)
    BY <2>1, <2>2 DEF Skip
  <2> QED  BY <2>2, <2>3, AdvanceRuns DEF Alone, Holds
<1>7. CASE \E f \in First(r) : Match(r, f)
  BY <1>7, MatchRuns
<1>8. CASE \E f \in Id : CloseOld(r, f)
  BY <1>8, CloseRuns
<1> QED  BY <1>1, <1>2, <1>3, <1>4, <1>5, <1>6, <1>7, <1>8 DEF RunStep
LEMMA StepRuns ==
    ASSUME Inv, Next
    PROVE  run' \in [Runs -> Run] /\ \A r \in Runs : Goes(run[r], run'[r])
<1>1. run' = [q \in Runs |-> run'[q]] /\ \A r \in Runs : Goes(run[r], run'[r])
  <2>1. CASE Act
    <3>1. run' = [q \in Runs |-> run'[q]]
      BY <2>1 DEF Act
    <3> QED  BY <2>1, <3>1, ActRuns
  <2>2. CASE \E s \in Runs : Start(s)
    <3>1. PICK s \in Runs : Start(s)
      BY <2>2
    <3>2. \A r \in Runs : Goes(run[r], run'[r]) /\ run' = [q \in Runs |-> run'[q]]
      BY <3>1, StartRuns
    <3> QED  BY <3>1, <3>2
  <2>3. CASE \E s \in Runs : RunStep(s) /\ ~Start(s)
    BY <2>3, OneRun DEF Alone
  <2> QED  BY <2>1, <2>2, <2>3 DEF Next
<1> QED  BY <1>1 DEF Goes

LEMMA Counters ==
    ASSUME Inv, Next
    PROVE  /\ created' \in 0 .. MaxId /\ begun' \in 0 .. MaxRuns /\ acts' \in 0 .. MaxActs
           /\ overlap' \in BOOLEAN
<1>1. /\ MaxId \in Nat /\ MaxRuns \in Nat /\ MaxActs \in Nat
      /\ created \in 0 .. MaxId /\ begun \in 0 .. MaxRuns /\ acts \in 0 .. MaxActs
      /\ overlap \in BOOLEAN
  BY BoundsAssumption DEF Inv, TypeOK
<1>2. CASE Act
  BY <1>1, <1>2 DEF Act
<1>3. ASSUME NEW r \in Runs, RunStep(r)
      PROVE  /\ created' = created \/ (created < MaxId /\ created' = created + 1)
             /\ begun' = begun \/ (begun < MaxRuns /\ begun' = begun + 1)
             /\ acts' = acts /\ overlap' \in BOOLEAN
  <2>1. CASE Start(r)
    BY <2>1 DEF Start
  <2>2. CASE Create(r)
    BY <1>1, <2>2 DEF Create
  <2>3. CASE \E f \in First(r) : Skip(r, f) \/ Match(r, f)
    BY <1>1, <2>3 DEF Skip, Match
  <2>4. CASE \E f \in Id : CloseOld(r, f)
    BY <1>1, <2>4 DEF CloseOld
  <2>5. CASE Miss(r) \/ Save(r) \/ Settle(r) \/ End(r)
    BY <1>1, <2>5 DEF Miss, Save, Settle, End
  <2> QED  BY <1>3, <2>1, <2>2, <2>3, <2>4, <2>5 DEF RunStep
<1> QED  BY <1>1, <1>2, <1>3 DEF Next

LEMMA InvStep ==
    ASSUME Inv, [Next]_vars
    PROVE  Inv'
<1>1. CASE UNCHANGED vars
  BY <1>1 DEF vars, Inv, TypeOK, Fit, AllClean, Clean, Stable
<1>2. CASE Next
  <2>1. finding' \in Rows /\ AllClean' /\ (Grows \/ Changes)
    BY <1>2, StepFindings
  <2>2. run' \in [Runs -> Run] /\ \A r \in Runs : Goes(run[r], run'[r])
    BY <1>2, StepRuns
  <2>3. created \in 0 .. MaxId /\ DOMAIN finding \subseteq 1 .. created /\ MaxId \in Nat
    BY BoundsAssumption DEF Inv, TypeOK
  <2>4. created' \in 0 .. MaxId /\ begun' \in 0 .. MaxRuns /\ acts' \in 0 .. MaxActs
        /\ overlap' \in BOOLEAN
    BY <1>2, Counters
  <2>5. created' \in Nat /\ created \in 0 .. created' /\ DOMAIN finding' \subseteq 1 .. created'
    BY <2>1, <2>3, <2>4 DEF Grows, Changes
  <2>7. TypeOK'
    BY <2>1, <2>2, <2>4, <2>5 DEF TypeOK
  <2>8. Fit'
    <3>1. ASSUME NEW r \in Runs, run'[r].step = "save"
          PROVE  Clean(run'[r].row)
      BY <2>2, <3>1 DEF Goes, Clean
    <3> QED  BY <2>2, <3>1 DEF Goes, Fit, Clean
  <2>9. Stable'
    <3> SUFFICES ASSUME NEW r \in Runs
                 PROVE  /\ run'[r].step # "idle" =>
                              /\ DOMAIN run'[r].original \subseteq 1 .. created'
                              /\ \A f \in DOMAIN run'[r].original \cap DOMAIN finding' :
                                    run'[r].original[f].key = finding'[f].key
                        /\ run'[r].step = "save" =>
                              /\ run'[r].id \in 1 .. created'
                              /\ run'[r].id \in DOMAIN finding' =>
                                    run'[r].row.key = finding'[run'[r].id].key
      BY DEF Stable
    <3>1. \A f \in 1 .. created :
              f \in DOMAIN finding' => f \in DOMAIN finding
                                       /\ finding'[f].key = finding[f].key
      BY <2>1, <2>3 DEF Grows, Changes
    <3>2. 1 .. created \subseteq 1 .. created'
      BY <2>3, <2>5
    <3>3. ASSUME run'[r].step # "idle"
          PROVE  /\ DOMAIN run'[r].original \subseteq 1 .. created'
                 /\ \A f \in DOMAIN run'[r].original \cap DOMAIN finding' :
                       run'[r].original[f].key = finding'[f].key
      <4>1. CASE run[r].step # "idle" /\ run'[r].original = run[r].original
        BY <3>1, <3>2, <4>1 DEF Inv, Stable
      <4>2. CASE run'[r].original = finding /\ finding' = finding
        BY <2>5, <4>2
      <4> QED  BY <2>2, <3>3, <4>1, <4>2 DEF Goes
    <3>4. ASSUME run'[r].step = "save"
          PROVE  /\ run'[r].id \in 1 .. created'
                 /\ run'[r].id \in DOMAIN finding' =>
                       run'[r].row.key = finding'[run'[r].id].key
      <4>1. CASE run[r].step = "save" /\ run'[r].id = run[r].id /\ run'[r].row = run[r].row
        BY <3>1, <3>2, <4>1 DEF Inv, Stable
      <4>2. CASE run'[r].id \in DOMAIN finding'
                 /\ run'[r].row.key = finding'[run'[r].id].key
        BY <2>5, <4>2
      <4> QED  BY <2>2, <3>4, <4>1, <4>2 DEF Goes
    <3> QED  BY <3>3, <3>4
  <2> QED  BY <2>1, <2>7, <2>8, <2>9 DEF Inv
<1> QED  BY <1>1, <1>2

LEMMA InvInit == Init => Inv
<1> SUFFICES ASSUME Init PROVE Inv
  OBVIOUS
<1>1. finding = <<>> /\ DOMAIN finding = {}
  BY DEF Init
<1>2. finding \in Rows
  <2>1. finding \in Seq(Finding) /\ Len(finding) = 0
    BY <1>1
  <2>2. finding \in [1 .. 0 -> Finding]
    BY <2>1, LenProperties
  <2> QED  BY <1>1, <2>2, RowsAre
<1>3. run \in [Runs -> Run] /\ \A r \in Runs : run[r] = Idle
  BY DEF Init, Run
<1>4. Idle.step = "idle"
  BY DEF Idle
<1>5. /\ created = 0 /\ begun = 0 /\ acts = 0 /\ overlap = FALSE
      /\ MaxId \in Nat /\ MaxRuns \in Nat /\ MaxActs \in Nat
  BY BoundsAssumption DEF Init
<1>6. created \in 0 .. MaxId /\ begun \in 0 .. MaxRuns /\ acts \in 0 .. MaxActs
  BY <1>5
<1>7. overlap \in BOOLEAN
  BY <1>5
<1>8. TypeOK
  BY <1>1, <1>2, <1>3, <1>6, <1>7 DEF TypeOK
<1> QED  BY <1>1, <1>3, <1>4, <1>8 DEF Inv, Fit, AllClean, Stable

LEMMA Invariance == Spec => []Inv
BY InvInit, InvStep, PTL DEF Spec
-----------------------------------------------------------------------------
(***************************************************************************)
(* The theorems.                                                           *)
(***************************************************************************)
\* The state keeps its type, for any hash codes, reports and requests.
THEOREM Typing == Spec => []TypeOK
<1>1. Inv => TypeOK
  BY DEF Inv
<1> QED  BY <1>1, Invariance, PTL

\* A finding that is open carries no mark of being closed, although rows are
\* saved as a whole from copies that others have overtaken.
THEOREM CleanWhenOpen == Spec => []OpenIsClean
<1>1. Inv => OpenIsClean
  BY DEF Inv, AllClean, Clean, OpenIsClean
<1> QED  BY <1>1, Invariance, PTL

\* While no imports have overlapped there is at most one, its findings are all
\* different, and what it is about to create is not there.
Unique ==
    ~overlap =>
        /\ \A r, s \in Runs : run[r].step # "idle" /\ run[s].step # "idle" => r = s
        /\ \A f, g \in DOMAIN finding : finding[f].key = finding[g].key => f = g
        /\ \A r \in Runs : run[r].step = "create" => Matches(r, Current(r).key) = {}

LEMMA Started ==
    ASSUME NEW s \in Runs, Start(s)
    PROVE  /\ run'[s].step = "match"
           /\ run'[s].alone <=> \A q \in Runs : Busy(q, "idle")
           /\ \A q \in Runs \ {s} :
                 \/ Busy(q, "idle") /\ run'[q] = run[q]
                 \/ ~Busy(q, "idle") /\ run'[q] = [run[q] EXCEPT !.alone = FALSE]
<1> DEFINE alone == \A q \in Runs : Busy(q, "idle")
<1>1. PICK report \in Reports, options \in Options :
          run' = [q \in Runs |->
                     CASE q = s -> [step |-> "match", report |-> report, next |-> 1,
                                    options |-> options, original |-> finding,
                                    kept |-> {}, alone |-> alone]
                       [] q # s /\ ~Busy(q, "idle") -> [run[q] EXCEPT !.alone = FALSE]
                       [] OTHER -> run[q]]
  BY DEF Start
<1>2. alone \in BOOLEAN
  OBVIOUS
<1>3. run'[s] = [step |-> "match", report |-> report, next |-> 1, options |-> options,
                 original |-> finding, kept |-> {}, alone |-> alone]
  <2> HIDE DEF alone
  <2> QED  BY <1>1
<1>4. ASSUME NEW q \in Runs \ {s}, Busy(q, "idle")
      PROVE  run'[q] = run[q]
  <2> HIDE DEF alone
  <2> QED  BY <1>1, <1>4
<1>5. ASSUME NEW q \in Runs \ {s}, ~Busy(q, "idle")
      PROVE  run'[q] = [run[q] EXCEPT !.alone = FALSE]
  <2> HIDE DEF alone
  <2> QED  BY <1>1, <1>5
<1>6. run'[s].step = "match" /\ run'[s].alone = alone
  <2> HIDE DEF alone
  <2> QED  BY <1>3
<1> QED  BY <1>2, <1>4, <1>5, <1>6

LEMMA UniqueStep ==
    ASSUME Inv, Unique, [Next]_vars
    PROVE  Unique'
<1>1. CASE UNCHANGED vars
  BY <1>1 DEF vars, Unique, Matches, Current
<1>2. CASE Act
  <2>1. Changes /\ overlap' = overlap
    BY <1>2, ActFindings DEF Act
  <2>2. ASSUME NEW r \in Runs
        PROVE  /\ run'[r].step = run[r].step
               /\ run[r].step = "create" => Current(r)' = Current(r)
    <3>1. run[r] \in Run
      BY DEF Inv, TypeOK
    <3>2. \/ run'[r] = run[r]
          \/ run[r].step # "idle" /\ run'[r] = [run[r] EXCEPT !.alone = FALSE]
      BY <1>2, <3>1, RunShape DEF Act, Busy
    <3> QED  BY <3>1, <3>2, Interrupted DEF Current
  <2> QED  BY <2>1, <2>2 DEF Unique, Changes, Matches
<1>3. ASSUME NEW s \in Runs, Start(s)
      PROVE  Unique'
  <2>1. finding' = finding /\ created' = created
    BY <1>3 DEF Start
  <2>2. CASE \A q \in Runs : Busy(q, "idle")
    <3>1. run'[s].step = "match" /\ \A q \in Runs \ {s} : run'[q] = run[q]
      BY <1>3, <2>2, Started
    <3>2. ~overlap' => ~overlap
      BY <1>3 DEF Start
    <3>3. \A q \in Runs \ {s} : run'[q].step = "idle"
      BY <2>2, <3>1 DEF Busy
    <3>4. \A q \in Runs : run'[q].step # "create"
      BY <3>1, <3>3
    <3> QED  BY <2>1, <3>2, <3>3, <3>4 DEF Unique
  <2>3. CASE ~\A q \in Runs : Busy(q, "idle")
    <3>1. overlap'
      BY <1>3, <2>3 DEF Start
    <3> QED  BY <3>1 DEF Unique
  <2> QED  BY <2>2, <2>3
<1>4. ASSUME NEW s \in Runs, RunStep(s), ~Start(s)
      PROVE  Unique'
  <2>1. Alone(s)
    BY <1>4, OneRun
  <2>2. /\ \A q \in Runs \ {s} : run'[q] = run[q]
        /\ run[s].step # "idle" /\ overlap' = overlap
    BY <1>4, <2>1 DEF Alone, RunStep, Miss, Create, Skip, Match, Save, Settle, CloseOld, End
  <2> SUFFICES ASSUME ~overlap PROVE Unique'
    BY <2>2 DEF Unique
  <2>3. /\ \A q \in Runs \ {s} : run[q].step = "idle" /\ run'[q].step = "idle"
        /\ \A f, g \in DOMAIN finding : finding[f].key = finding[g].key => f = g
    BY <2>2 DEF Unique
  <2>4. CASE Create(s)
    <3>1. /\ Grows /\ finding'[created'].key = Current(s).key
          /\ run'[s].step = "save"
      BY <2>4, CreateRuns DEF Create, Holding, Inv, TypeOK
    <3>2. Matches(s, Current(s).key) = {}
      BY <2>4 DEF Create, Busy, Unique
    <3>3. \A f, g \in DOMAIN finding' : finding'[f].key = finding'[g].key => f = g
      BY <2>3, <3>1, <3>2 DEF Grows, Matches
    <3> QED  BY <2>3, <3>1, <3>3 DEF Unique
  <2>5. CASE ~Create(s)
    <3>1. created' = created
      BY <1>4, <2>5 DEF RunStep, Miss, Skip, Match, Save, Settle, CloseOld, End
    <3>2. Changes
      BY <1>4, <3>1, StepFindings DEF Next, Grows, Inv, TypeOK
    <3>3. run[s].step # "create"
      BY <1>4, <2>5 DEF RunStep, Miss, Skip, Match, Save, Settle, CloseOld, End, First,
                        Reading, Busy
    <3>4. ASSUME run'[s].step = "create" PROVE Matches(s, Current(s).key)' = {}
      BY <2>1, <3>3, <3>4 DEF Alone, Goes, Matches, Current
    <3> QED  BY <2>3, <3>2, <3>4 DEF Unique, Changes
  <2> QED  BY <2>4, <2>5
<1> QED  BY <1>1, <1>2, <1>3, <1>4 DEF Next
\* While reports are imported one after the other, whatever people do, no
\* finding is created twice.
THEOREM NothingTwice == Spec => []OneFindingPerKey
<1>1. Init => Unique
  BY DEF Init, Idle, Unique
<1>2. Inv /\ Unique /\ [Next]_vars => Unique'
  BY UniqueStep
<1>3. Unique => OneFindingPerKey
  BY DEF Unique, OneFindingPerKey
<1> QED  BY <1>1, <1>2, <1>3, Invariance, PTL DEF Spec

\* A run that is alone is the only one, and the row that it holds has the marks
\* that its finding has.
Undisturbed ==
    \A r \in Runs :
        run[r].step # "idle" /\ run[r].alone =>
            /\ \A s \in Runs \ {r} : run[s].step = "idle"
            /\ run[r].step = "save" /\ run[r].id \in DOMAIN finding =>
                  Keeps(finding[run[r].id], run[r].row)

LEMMA UndisturbedStep ==
    ASSUME Inv, Undisturbed, [Next]_vars
    PROVE  Undisturbed'
<1>1. CASE UNCHANGED vars
  BY <1>1 DEF vars, Undisturbed, Keeps
<1>2. CASE Act
  <2>1. ASSUME NEW r \in Runs
        PROVE  run'[r].step # "idle" => ~run'[r].alone
    <3>1. run[r] \in Run
      BY DEF Inv, TypeOK
    <3>2. \/ run'[r] = Idle
          \/ run[r].step # "idle" /\ run'[r] = [run[r] EXCEPT !.alone = FALSE]
      BY <1>2 DEF Act, Busy
    <3> QED  BY <3>1, <3>2, Interrupted DEF Idle
  <2> QED  BY <2>1 DEF Undisturbed
<1>3. ASSUME NEW s \in Runs, Start(s)
      PROVE  Undisturbed'
  <2>1. ASSUME NEW r \in Runs, run'[r].step # "idle", run'[r].alone
        PROVE  /\ \A q \in Runs \ {r} : run'[q].step = "idle"
               /\ run'[r].step # "save"
    <3>2. r = s
      <4>1. CASE r # s /\ ~Busy(r, "idle")
        <5>1. run[r] \in Run /\ run'[r] = [run[r] EXCEPT !.alone = FALSE]
          BY <1>3, <4>1, Started DEF Inv, TypeOK
        <5> QED  BY <2>1, <4>1, <5>1, Interrupted DEF Busy
      <4>2. CASE r # s /\ Busy(r, "idle")
        <5>1. run'[r] = run[r]
          BY <1>3, <4>2, Started
        <5> QED  BY <2>1, <4>2, <5>1 DEF Busy
      <4> QED  BY <4>1, <4>2
    <3>3. run'[s].step = "match" /\ \A q \in Runs : Busy(q, "idle")
      BY <1>3, <2>1, <3>2, Started
    <3>4. \A q \in Runs \ {s} : run'[q] = run[q]
      BY <1>3, <3>3, Started
    <3> QED  BY <3>2, <3>3, <3>4 DEF Busy
  <2> QED  BY <2>1 DEF Undisturbed
<1>4. ASSUME NEW s \in Runs, RunStep(s), ~Start(s)
      PROVE  Undisturbed'
  <2>1. Alone(s) /\ Holds(s)
    BY <1>4, OneRun
  <2>2. ASSUME NEW r \in Runs, run'[r].step # "idle", run'[r].alone
        PROVE  r = s /\ \A q \in Runs \ {r} : run'[q].step = "idle"
    <3>1. run[r].step # "idle" /\ run[r].alone
      BY <2>1, <2>2 DEF Alone
    <3>2. r = s
      BY <2>1, <3>1 DEF Alone, Undisturbed
    <3> QED  BY <2>1, <3>1, <3>2 DEF Alone, Undisturbed
  <2> QED  BY <2>1, <2>2 DEF Undisturbed, Holds, Keeps
<1> QED  BY <1>1, <1>2, <1>3, <1>4 DEF Next
LEMMA TriageStep ==
    ASSUME Inv, Undisturbed, Next, acts' = acts,
           NEW f \in DOMAIN finding \cap DOMAIN finding',
           ~\E r \in Runs : Busy(r, "save") /\ run[r].id = f /\ ~run[r].alone
    PROVE  Keeps(finding[f], finding'[f])
<1>1. PICK r \in Runs : RunStep(r)
  <2>1. acts \in Nat
    BY BoundsAssumption DEF Inv, TypeOK
  <2>2. ~Act
    BY <2>1 DEF Act
  <2> QED  BY <2>2 DEF Next
<1>2. finding \in Rows /\ run[r] \in Run /\ f \in Id /\ finding[f] \in Finding
  BY RowsAre DEF Inv, TypeOK
<1>3. CASE Create(r)
  BY <1>3, CreateRuns DEF Grows, Keeps
<1>4. CASE \E g \in First(r) : Match(r, g)
  BY <1>4, MatchRuns
<1>5. CASE Save(r) /\ finding' # finding
  <2>1. /\ run[r].step = "save" /\ run[r].id \in DOMAIN finding
        /\ Put(run[r].id, run[r].row)
    BY <1>5 DEF Save, Busy
  <2>2. run[r].id \in Id /\ run[r].row \in Finding
    BY <1>2, <2>1, RunShape
  <2>3. /\ finding'[run[r].id] = run[r].row
        /\ \A g \in DOMAIN finding \ {run[r].id} : finding'[g] = finding[g]
    BY <1>2, <2>1, <2>2, PutRow
  <2>4. run[r].id = f => Keeps(finding[f], run[r].row)
    BY <2>1 DEF Undisturbed, Busy
  <2> QED  BY <2>3, <2>4 DEF Keeps
<1>6. CASE \E g \in Id : CloseOld(r, g) /\ finding' # finding
  <2>1. PICK g \in Id : CloseOld(r, g) /\ finding' # finding
    BY <1>6
  <2>2. /\ g \in DOMAIN finding /\ run[r].step = "close" /\ g \in DOMAIN run[r].original
        /\ Put(g, [Refreshed(r, g) EXCEPT !.active = FALSE, !.is_mitigated = TRUE])
    BY <2>1 DEF CloseOld, Busy, Inv, Fit
  <2>3. run[r].original[g] \in Finding /\ finding[g] \in Finding
    BY <1>2, <2>2, RunShape, RowsAre
  <2>4. PICK row \in Finding : Keeps(finding[g], row) /\ Put(g, row)
    <3> DEFINE row == [Refreshed(r, g) EXCEPT !.active = FALSE, !.is_mitigated = TRUE]
    <3>1. row \in Finding /\ Keeps(finding[g], row)
      BY <2>3, ClosedRow DEF Refreshed
    <3> QED  BY <2>2, <3>1
  <2>5. finding'[g] = row /\ \A h \in DOMAIN finding \ {g} : finding'[h] = finding[h]
    BY <1>2, <2>4, PutRow
  <2> QED  BY <2>4, <2>5 DEF Keeps
<1>7. CASE finding' = finding
  BY <1>7 DEF Keeps
<1> QED  BY <1>1, <1>3, <1>4, <1>5, <1>6, <1>7 DEF RunStep, Start, Miss, Settle, End, Skip

\* No run takes the mark of a false positive or of an accepted risk from a
\* finding, not even when it closes what it had read before the decision, but
\* for the save of an item whose finding was triaged after its turn.
THEOREM TriageSurvives == Spec => TriageKept
<1>1. Init => Undisturbed
  BY DEF Init, Idle, Undisturbed
<1>2. Inv /\ Undisturbed /\ [Next]_vars => Undisturbed'
  BY UndisturbedStep
<1>3. Inv /\ Undisturbed /\ [Next]_vars =>
          [\A f \in DOMAIN finding \cap DOMAIN finding' :
              \A mark \in {"false_p", "risk_accepted"} :
                  finding[f][mark] /\ ~finding'[f][mark] =>
                      \/ acts' # acts
                      \/ \E r \in Runs : /\ Busy(r, "save") /\ run[r].id = f
                                         /\ ~run[r].alone]_vars
  BY TriageStep DEF Keeps
<1> QED  BY <1>1, <1>2, <1>3, Invariance, PTL DEF Spec, TriageKept
-----------------------------------------------------------------------------
(***************************************************************************)
(* A run that nobody disturbs: what it has made of each finding depends on *)
(* the last item that it has come to with the hash code of the finding.    *)
(***************************************************************************)
\* How many items the run has come to.
Heard(x) ==
    IF x.step = "save" THEN x.next
    ELSE IF x.step = "close" THEN Len(x.report) ELSE x.next - 1

\* The last of the first n items with this hash code, if there is one.
LastSaid(report, n, key) ==
    {i \in 1 .. n : report[i].key = key /\ \A j \in i + 1 .. n : report[j].key # key}

Oldest(table, f) == \A g \in DOMAIN table : table[g].key = table[f].key => f <= g

InHand(x, table, f) == IF x.step = "save" /\ x.id = f THEN x.row ELSE table[f]

\* A finding that no item has been matched with: as it was, until it is closed.
Passed(x, table, f) ==
    IF x.step = "close"
    THEN IF f \in x.left THEN table[f] = x.original[f] ELSE ~table[f].active
    ELSE f \in DOMAIN x.original /\ table[f] = x.original[f] /\ f \notin x.kept

\* One whose last item has this status.
Decided(x, row, f, status) ==
    /\ status = "mitigated" /\ row.active =>
           f \notin DOMAIN x.original /\ x.options.active = "active"
    /\ status = "open" /\ ~Special(row) /\ ~x.options.do_not_reactivate =>
           /\ ~row.is_mitigated
           /\ IF x.step = "close" THEN f \notin x.left
              ELSE f \in x.kept \/ f \notin DOMAIN x.original

OnCourse(x, table) ==
    /\ x.step = "match" => x.next - 1 <= Len(x.report)
    /\ x.step \in {"create", "save"} => x.next <= Len(x.report)
    /\ x.step = "create" => \A f \in DOMAIN table : table[f].key # x.report[x.next].key
    /\ x.step = "save" => /\ x.id \in DOMAIN table /\ Oldest(table, x.id)
                          /\ table[x.id].key = x.report[x.next].key

Said(x, table, f) == LastSaid(x.report, Heard(x), table[f].key)

Follows(x, table) ==
    /\ OnCourse(x, table)
    /\ \A f \in DOMAIN table :
           /\ ~Oldest(table, f) \/ Said(x, table, f) = {} => Passed(x, table, f)
           /\ Oldest(table, f) =>
                  \A i \in Said(x, table, f) :
                      Decided(x, InHand(x, table, f), f, x.report[i].status)

Matters(x) == x.step # "idle" /\ x.alone /\ x.options.close_old_findings

Followed == \A r \in Runs : Matters(run[r]) => Follows(run[r], finding)

\* The next item is the last word about its hash code ...
LEMMA NextIsLast ==
    ASSUME NEW report, NEW n \in Nat \ {0}
    PROVE  LastSaid(report, n, report[n].key) = {n}
<1> DEFINE key == report[n].key
<1>1. n \in LastSaid(report, n, key)
  BY DEF LastSaid
<1>2. ASSUME NEW i \in LastSaid(report, n, key)
      PROVE  i = n
  <2>1. i \in 1 .. n /\ \A j \in i + 1 .. n : report[j].key # key
    BY DEF LastSaid
  <2>2. i # n => n \in i + 1 .. n
    BY <2>1
  <2> QED  BY <2>1, <2>2
<1> QED  BY <1>1, <1>2

\* ... and says nothing of the others.
LEMMA OthersStay ==
    ASSUME NEW report, NEW n \in Nat \ {0}, NEW key, report[n].key # key
    PROVE  LastSaid(report, n, key) = LastSaid(report, n - 1, key)
<1>1. ASSUME NEW i \in LastSaid(report, n, key)
      PROVE  i \in LastSaid(report, n - 1, key)
  <2>1. /\ i \in 1 .. n /\ report[i].key = key
        /\ \A j \in i + 1 .. n : report[j].key # key
    BY DEF LastSaid
  <2>2. i \in 1 .. n - 1 /\ \A j \in i + 1 .. n - 1 : j \in i + 1 .. n
    BY <2>1
  <2> QED  BY <2>1, <2>2 DEF LastSaid
<1>2. ASSUME NEW i \in LastSaid(report, n - 1, key)
      PROVE  i \in LastSaid(report, n, key)
  <2>1. /\ i \in 1 .. n - 1 /\ report[i].key = key
        /\ \A j \in i + 1 .. n - 1 : report[j].key # key
    BY DEF LastSaid
  <2>2. i \in 1 .. n /\ \A j \in i + 1 .. n : j \in i + 1 .. n - 1 \/ j = n
    BY <2>1
  <2> QED  BY <2>1, <2>2 DEF LastSaid
<1> QED  BY <1>1, <1>2

\* The highest of a set of ids.
LEMMA HighestIs ==
    ASSUME NEW n \in Nat, NEW S \in SUBSET (1 .. n), S # {}
    PROVE  Max(S) \in S /\ \A k \in S : k <= Max(S)
<1> DEFINE R == OpToRel(<, Nat)
           below == {n - k : k \in S}
<1>0. IsWellFoundedOn(R, Nat)
  BY NatLessThanWellFounded
<1>1. \A a, b \in Nat : <<a, b>> \in R <=> a < b
  BY DEF OpToRel
<1>2. below \in SUBSET Nat /\ below # {}
  <2>1. \A k \in 1 .. n : n - k \in Nat
    OBVIOUS
  <2> QED  BY <2>1
<1> HIDE DEF R
<1>3. PICK b \in below : \A k \in below : <<k, b>> \notin R
  <2> HIDE DEF below
  <2> QED  BY <1>0, <1>2, WFMin
<1>4. PICK m \in S : b = n - m
  BY <1>3
<1>5. ASSUME NEW k \in S
      PROVE  m >= k
  <2>1. n - k \in below /\ n - k \in Nat /\ n - m \in Nat
    BY <1>2
  <2>2. ~(n - k < n - m)
    BY <1>1, <1>3, <1>4, <2>1
  <2>3. k \in Int /\ m \in Int
    OBVIOUS
  <2> HIDE DEF below
  <2> QED  BY <2>2, <2>3
<1>6. Max(S) \in S /\ \A k \in S : Max(S) >= k
  BY <1>5 DEF Max
<1>7. ASSUME NEW k \in S
      PROVE  k <= Max(S)
  <2> DEFINE m2 == Max(S)
  <2>1. m2 \in S /\ m2 >= k
    BY <1>6
  <2> HIDE DEF m2
  <2>2. m2 \in Int /\ k \in Int
    BY <2>1
  <2>3. k <= m2
    BY <2>1, <2>2
  <2> QED  BY <2>3 DEF m2
<1> QED  BY <1>6, <1>7

\* The run comes to its next item, and f is the finding that it is about.
LEMMA Hears ==
    ASSUME NEW x, NEW y, NEW old, NEW new, NEW f, Follows(x, old),
           x.step \in {"match", "create"}, x.next \in Nat \ {0},
           y.step \in {"match", "save"}, Heard(y) = x.next, OnCourse(y, new),
           y.report = x.report /\ y.options = x.options /\ y.original = x.original,
           x.kept \subseteq y.kept, y.kept \subseteq x.kept \cup {f},
           y.step = "save" => y.id = f,
           DOMAIN new = DOMAIN old \cup {f}, DOMAIN new \subseteq Nat,
           \A g \in DOMAIN old \ {f} : new[g] = old[g],
           f \in DOMAIN old => new[f].key = old[f].key,
           f \notin DOMAIN old => \A g \in DOMAIN old : old[g].key # new[f].key,
           Oldest(new, f), new[f].key = x.report[x.next].key,
           Decided(y, InHand(y, new, f), f, x.report[x.next].status)
    PROVE  Follows(y, new)
<1> DEFINE key == x.report[x.next].key
<1>1. Heard(x) = x.next - 1
  BY DEF Heard
<1>2. Said(y, new, f) = {x.next}
  <2>1. Said(y, new, f) = LastSaid(x.report, x.next, key)
    BY DEF Said
  <2>2. LastSaid(x.report, x.next, key) = {x.next}
    BY NextIsLast
  <2> QED  BY <2>1, <2>2
<1>3. ASSUME NEW g \in DOMAIN new, g # f
      PROVE  /\ ~Oldest(new, g) \/ Said(y, new, g) = {} => Passed(y, new, g)
             /\ Oldest(new, g) =>
                    \A i \in Said(y, new, g) :
                        Decided(y, InHand(y, new, g), g, y.report[i].status)
  <2>1. /\ g \in DOMAIN old /\ new[g] = old[g]
        /\ InHand(y, new, g) = old[g] /\ InHand(x, old, g) = old[g]
        /\ g \in y.kept <=> g \in x.kept
    BY <1>3 DEF InHand
  <2>2. Oldest(new, g) <=> Oldest(old, g)
    BY <2>1 DEF Oldest
  <2>3. CASE new[g].key = key
    <3>1. ~Oldest(new, g)
      <4>1. Oldest(new, g) => f <= g /\ g <= f
        BY <1>3, <2>3 DEF Oldest
      <4>2. f \in Nat /\ g \in Nat
        BY <1>3
      <4> QED  BY <1>3, <4>1, <4>2
    <3>2. Passed(x, old, g)
      BY <2>1, <2>2, <3>1 DEF Follows
    <3> QED  BY <2>1, <3>1, <3>2 DEF Passed
  <2>4. CASE new[g].key # key
    <3>1. Said(y, new, g) = Said(x, old, g)
      BY <1>1, <2>1, <2>4, OthersStay DEF Said
    <3>2. /\ ~Oldest(old, g) \/ Said(x, old, g) = {} => Passed(x, old, g)
          /\ Oldest(old, g) =>
                 \A i \in Said(x, old, g) : Decided(x, old[g], g, x.report[i].status)
      BY <2>1 DEF Follows
    <3>3. Passed(x, old, g) => Passed(y, new, g)
      BY <2>1 DEF Passed
    <3>4. \A s : Decided(x, old[g], g, s) => Decided(y, old[g], g, s)
      BY <2>1 DEF Decided
    <3> HIDE DEF Follows
    <3> QED  BY <2>1, <2>2, <3>1, <3>2, <3>3, <3>4
  <2> QED  BY <2>3, <2>4
<1>4. /\ Oldest(new, f) /\ Said(y, new, f) # {}
      /\ \A i \in Said(y, new, f) :
             Decided(y, InHand(y, new, f), f, y.report[i].status)
  BY <1>2
<1> QED  BY <1>3, <1>4 DEF Follows

\* What a run keeps when it takes a row in hand.
LEMMA HoldingFields ==
    ASSUME Inv, NEW r \in Runs, NEW f, NEW row, NEW kept, Holding(r, f, row, kept)
    PROVE  /\ run'[r].step = "save" /\ run'[r].id = f /\ run'[r].row = row
           /\ run'[r].kept = kept /\ run'[r].next = run[r].next
           /\ run'[r].report = run[r].report /\ run'[r].options = run[r].options
           /\ run'[r].original = run[r].original
BY DEF Holding, Inv, TypeOK

\* What a run keeps when it goes on to the next item.
LEMMA AdvanceFields ==
    ASSUME Inv, NEW r \in Runs, NEW kept, Advance(r, kept)
    PROVE  /\ run'[r].step = "match"
           /\ run'[r].kept = kept /\ run'[r].next = run[r].next + 1
           /\ run'[r].report = run[r].report /\ run'[r].options = run[r].options
           /\ run'[r].original = run[r].original
BY DEF Advance, Inv, TypeOK

\* The finding that an item is matched with is the oldest.
LEMMA FirstIsOldest ==
    ASSUME Inv, NEW r \in Runs, NEW f \in First(r)
    PROVE  /\ f \in DOMAIN finding /\ Oldest(finding, f)
           /\ finding[f].key = run[r].report[run[r].next].key
           /\ run[r].step = "match" /\ run[r].next \in Nat \ {0}
           /\ run[r].next <= Len(run[r].report)
           /\ DOMAIN finding \subseteq Nat
<1>1. /\ f \in DOMAIN finding /\ finding[f].key = Current(r).key
      /\ \A g \in Matches(r, Current(r).key) : f <= g
      /\ run[r].step = "match" /\ run[r].next <= Len(run[r].report)
  <2>1. /\ Reading(r) /\ f \in Matches(r, Current(r).key)
        /\ \A g \in Matches(r, Current(r).key) : f <= g
    BY DEF First
  <2> QED  BY <2>1 DEF Reading, Busy, Matches
<1>2. run[r].next \in Nat \ {0}
  BY <1>1, RunShape DEF Inv, TypeOK
<1>3. DOMAIN finding \subseteq Nat
  BY DEF Inv, TypeOK
<1> QED  BY <1>1, <1>2, <1>3 DEF Oldest, Matches, Current

\* A finding that is left as it is.
LEMMA SkipFollows ==
    ASSUME Inv, NEW r \in Runs, NEW f \in First(r), Skip(r, f), Follows(run[r], finding)
    PROVE  Follows(run'[r], finding')
<1> DEFINE x == run[r]
           y == run'[r]
           item == Current(r)
<1>1. /\ f \in DOMAIN finding /\ Oldest(finding, f)
      /\ finding[f].key = x.report[x.next].key
      /\ x.step = "match" /\ x.next \in Nat \ {0} /\ x.next <= Len(x.report)
      /\ DOMAIN finding \subseteq Nat
  BY FirstIsOldest
<1>2. /\ item = x.report[x.next] /\ finding' = finding /\ Clean(finding[f])
      /\ \/ Agrees(finding[f], item) /\ Advance(r, x.kept \cup {f})
         \/ Declined(finding[f], item, x.options) /\ Advance(r, x.kept)
  BY <1>1 DEF Skip, Current, Inv, AllClean
<1>3. /\ y.step = "match" /\ y.next = x.next + 1 /\ y.report = x.report
      /\ y.options = x.options /\ y.original = x.original
      /\ y.kept \in {x.kept, x.kept \cup {f}}
  BY <1>2, AdvanceFields
<1>4. Heard(y) = x.next /\ OnCourse(y, finding)
  BY <1>1, <1>3 DEF Heard, OnCourse
<1>5. Decided(y, finding[f], f, item.status)
  BY <1>2, <1>3 DEF Decided, Agrees, Declined, Clean
<1> HIDE DEF x, y
<1>6. /\ DOMAIN finding = DOMAIN finding \cup {f}
      /\ InHand(y, finding, f) = finding[f]
  BY <1>1, <1>3 DEF InHand
<1>7. Follows(x, finding)
  BY DEF x
<1>8. Follows(y, finding)
  BY <1>1, <1>2, <1>3, <1>4, <1>5, <1>6, <1>7, Hears
<1> QED  BY <1>2, <1>8 DEF y

\* What a match makes of the row, and whether it is noted down.
LEMMA MatchDecides ==
    ASSUME NEW x, NEW row \in Finding, Clean(row), NEW item \in Item, NEW f,
           ~Agrees(row, item), ~Declined(row, item, x.options), x.step = "save",
           Kept(row, item) => f \in x.kept
    PROVE  Decided(x, Processed(row, item), f, item.status)
<1> DEFINE new == Processed(row, item)
<1>1. item.status = "mitigated" => ~new.active
  <2> SUFFICES ASSUME item.status = "mitigated"
               PROVE  ~new.active
    OBVIOUS
  <2>1. ~Uncloses(row, item)
    BY DEF Uncloses
  <2>2. CASE Special(row)
    <3>0. ~Reactivates(row)
      BY <2>2 DEF Reactivates
    <3>1. new = row
      BY <2>1, <2>2, <3>0 DEF Processed
    <3> QED  BY <2>2, <3>1 DEF Clean, Special
  <2>3. CASE ~Special(row)
    <3>1. ~row.is_mitigated
      BY <2>3 DEF Agrees
    <3>2. new = [row EXCEPT !.active = FALSE, !.is_mitigated = TRUE]
      BY <2>1, <2>3, <3>1 DEF Processed, Reactivates
    <3> QED  BY <3>2 DEF Finding
  <2> QED  BY <2>2, <2>3
<1>2. item.status = "open" /\ ~Special(new) /\ ~x.options.do_not_reactivate =>
          ~new.is_mitigated /\ f \in x.kept
  <2> SUFFICES ASSUME item.status = "open", ~Special(new), ~x.options.do_not_reactivate
               PROVE  ~new.is_mitigated /\ Kept(row, item)
    OBVIOUS
  <2>1. CASE Special(row)
    <3>1. new.false_p = row.false_p /\ new.risk_accepted = row.risk_accepted
      BY <2>1 DEF Processed, Finding
    <3> QED  BY <2>1, <3>1 DEF Special
  <2>2. CASE ~Special(row) /\ row.is_mitigated
    <3>1. new = [row EXCEPT !.active = ~row.hidden, !.is_mitigated = FALSE]
      BY <2>2 DEF Processed, Uncloses, Special, Reactivates
    <3> QED  BY <2>2, <3>1 DEF Finding, Kept, Reactivates
  <2>3. CASE ~Special(row) /\ ~row.is_mitigated
    <3>0. ~Uncloses(row, item) /\ ~Reactivates(row)
      BY <2>3 DEF Uncloses, Reactivates
    <3>1. new = row
      BY <2>3, <3>0 DEF Processed
    <3> QED  BY <2>3, <3>1 DEF Kept
  <2> QED  BY <2>1, <2>2, <2>3
<1> HIDE DEF new
<1>3. Decided(x, new, f, item.status)
  BY <1>1, <1>2 DEF Decided
<1> QED  BY <1>3 DEF new

\* A finding that is taken in hand is not yet saved.
LEMMA MatchFollows ==
    ASSUME Inv, NEW r \in Runs, NEW f \in First(r), Match(r, f), Follows(run[r], finding)
    PROVE  Follows(run'[r], finding')
<1> DEFINE x == run[r]
           y == run'[r]
           item == Current(r)
           row == Processed(finding[f], item)
           kept == IF Kept(finding[f], item) THEN x.kept \cup {f} ELSE x.kept
<1>1. /\ f \in DOMAIN finding /\ Oldest(finding, f)
      /\ finding[f].key = x.report[x.next].key
      /\ x.step = "match" /\ x.next \in Nat \ {0} /\ x.next <= Len(x.report)
      /\ DOMAIN finding \subseteq Nat
  BY FirstIsOldest
<1>2. /\ f \in Id /\ finding[f] \in Finding /\ Clean(finding[f]) /\ item \in Item
      /\ finding \in Rows
  BY FirstRow DEF Inv, TypeOK
<1>3. row \in Finding /\ row.key = finding[f].key
  BY <1>2, ProcessedRow
<1>4. /\ item = x.report[x.next]
      /\ ~Agrees(finding[f], item) /\ ~Declined(finding[f], item, x.options)
      /\ Holding(r, f, row, kept) /\ (Put(f, row) \/ finding' = finding)
  BY DEF Match, Current
<1>5. /\ y.step = "save" /\ y.id = f /\ y.row = row /\ y.kept = kept
      /\ y.next = x.next /\ y.report = x.report
      /\ y.options = x.options /\ y.original = x.original
  BY <1>4, HoldingFields
<1>6. Decided(y, row, f, item.status)
  <2>1. Kept(finding[f], item) => f \in y.kept
    BY <1>5
  <2>2. ~Declined(finding[f], item, y.options)
    BY <1>4, <1>5
  <2> HIDE DEF y, item
  <2> QED  BY <1>2, <1>4, <1>5, <2>1, <2>2, MatchDecides
<1>7. x.kept \subseteq y.kept /\ y.kept \subseteq x.kept \cup {f}
  BY <1>5
<1> HIDE DEF row, kept
<1>8. /\ DOMAIN finding' = DOMAIN finding
      /\ \A g \in DOMAIN finding \ {f} : finding'[g] = finding[g]
      /\ finding'[f].key = finding[f].key
  <2>1. CASE Put(f, row)
    BY <1>1, <1>2, <1>3, <2>1, PutRow
  <2>2. CASE finding' = finding
    BY <2>2
  <2> QED  BY <1>4, <2>1, <2>2
<1>9. Oldest(finding', f)
  BY <1>1, <1>8 DEF Oldest
<1>10. Heard(y) = x.next /\ OnCourse(y, finding')
  BY <1>1, <1>5, <1>8, <1>9 DEF Heard, OnCourse
<1>11. /\ InHand(y, finding', f) = row /\ DOMAIN finding' = DOMAIN finding \cup {f}
       /\ Follows(x, finding)
  BY <1>1, <1>5, <1>8 DEF InHand
<1> HIDE DEF x, y
<1>12. Follows(y, finding')
  BY <1>1, <1>4, <1>5, <1>6, <1>7, <1>8, <1>9, <1>10, <1>11, Hears
<1> QED  BY <1>12 DEF y

\* Nobody else creates a finding for the item meanwhile: the new one is the oldest.
LEMMA CreateFollows ==
    ASSUME Inv, NEW r \in Runs, Create(r), Follows(run[r], finding)
    PROVE  Follows(run'[r], finding')
<1> DEFINE x == run[r]
           y == run'[r]
           item == Current(r)
           f == created'
           row == Created(item, x.options)
<1>1. x.step = "create" /\ x.next \in Nat \ {0} /\ x.next <= Len(x.report)
  BY RunShape DEF Inv, TypeOK, Fit, Create, Busy
<1>2. /\ item \in Item /\ item = x.report[x.next]
      /\ \A g \in DOMAIN finding : finding[g].key # item.key
  BY <1>1, CurrentItem DEF Inv, Current, Follows, OnCourse
<1>3. row \in Finding /\ row.key = item.key
  BY <1>2, CreatedRow DEF Created, Row
<1>4. /\ f \in Id /\ f \in Nat /\ f \notin DOMAIN finding /\ f \notin DOMAIN x.original
      /\ finding \in Rows /\ DOMAIN finding \subseteq Nat
  <2>1. created \in Nat /\ f = created + 1 /\ f <= MaxId /\ DOMAIN finding \subseteq 1 .. created
    BY BoundsAssumption DEF Create, Inv, TypeOK
  <2>2. DOMAIN x.original \subseteq 1 .. created
    BY <1>1 DEF Inv, Stable
  <2>3. f \notin 1 .. created /\ f \in Nat /\ f \in 1 .. MaxId
    BY <2>1, BoundsAssumption
  <2> QED  BY <2>1, <2>2, <2>3 DEF Inv, TypeOK, Id
<1>5. Put(f, row) /\ Holding(r, f, row, x.kept)
  BY DEF Create
<1>6. /\ y.step = "save" /\ y.id = f /\ y.row = row /\ y.kept = x.kept
      /\ y.next = x.next /\ y.report = x.report
      /\ y.options = x.options /\ y.original = x.original
  BY <1>5, HoldingFields
<1>7. Decided(y, row, f, item.status)
  <2> HIDE DEF y, item
  <2>1. /\ row.active <=> \/ x.options.active = "active"
                          \/ x.options.active = "as reported" /\ item.status = "open"
        /\ item.status = "open" => ~row.is_mitigated
    BY DEF Created, Row
  <2> HIDE DEF row
  <2> QED  BY <1>4, <1>6, <2>1 DEF Decided
<1> HIDE DEF row
<1>8. /\ DOMAIN finding' = DOMAIN finding \cup {f} /\ finding'[f] = row
      /\ \A g \in DOMAIN finding \ {f} : finding'[g] = finding[g]
  BY <1>3, <1>4, <1>5, PutRow
<1> HIDE DEF f
<1>9. Oldest(finding', f)
  <2>1. ASSUME NEW g \in DOMAIN finding', finding'[g].key = finding'[f].key
        PROVE  g = f
    BY <1>2, <1>3, <1>4, <1>8, <2>1
  <2> QED  BY <1>4, <2>1 DEF Oldest
<1>10. Heard(y) = x.next /\ OnCourse(y, finding')
  BY <1>1, <1>2, <1>3, <1>6, <1>8, <1>9 DEF Heard, OnCourse
<1>11. /\ InHand(y, finding', f) = row /\ DOMAIN finding' \subseteq Nat
       /\ Follows(x, finding)
       /\ x.kept \subseteq y.kept /\ y.kept \subseteq x.kept \cup {f}
  BY <1>4, <1>6, <1>8 DEF InHand
<1>12. /\ finding'[f].key = x.report[x.next].key
       /\ \A g \in DOMAIN finding : finding[g].key # finding'[f].key
       /\ Decided(y, InHand(y, finding', f), f, x.report[x.next].status)
  BY <1>2, <1>3, <1>7, <1>8, <1>11
<1> HIDE DEF x, y, item
<1>13. Follows(y, finding')
  BY <1>1, <1>4, <1>6, <1>8, <1>9, <1>10, <1>11, <1>12, Hears
<1> QED  BY <1>13 DEF y

\* The row in hand becomes the row of the finding.
LEMMA SaveFollows ==
    ASSUME Inv, NEW r \in Runs, Save(r), run'[r].step # "idle", Follows(run[r], finding)
    PROVE  Follows(run'[r], finding')
<1> DEFINE x == run[r]
           y == run'[r]
           f == x.id
<1>1. x \in Run /\ x.step = "save"
  BY DEF Inv, TypeOK, Save, Busy
<1>2. f \in DOMAIN finding /\ Put(f, x.row) /\ Advance(r, x.kept)
  BY DEF Save, Fails, Idle, Inv, TypeOK
<1>3. /\ x.next \in Nat \ {0} /\ f \in Id /\ x.row \in Finding /\ finding \in Rows
      /\ x.row.key = finding[f].key
  BY <1>1, <1>2, RunShape DEF Inv, TypeOK, Stable
<1>4. /\ x.next <= Len(x.report) /\ Oldest(finding, f)
      /\ finding[f].key = x.report[x.next].key
  BY <1>1 DEF Follows, OnCourse
<1>5. /\ y.step = "match" /\ y.kept = x.kept
      /\ y.next = x.next + 1 /\ y.report = x.report
      /\ y.options = x.options /\ y.original = x.original
  BY <1>2, AdvanceFields
<1>6. /\ DOMAIN finding' = DOMAIN finding /\ finding'[f] = x.row
      /\ \A g \in DOMAIN finding \ {f} : finding'[g] = finding[g]
  BY <1>2, <1>3, PutRow
<1>7. Heard(x) = x.next /\ Heard(y) = x.next
  BY <1>1, <1>3, <1>5 DEF Heard
<1>8. Said(x, finding, f) # {}
  <2>1. Said(x, finding, f) = LastSaid(x.report, x.next, x.report[x.next].key)
    BY <1>4, <1>7 DEF Said
  <2>2. LastSaid(x.report, x.next, x.report[x.next].key) = {x.next}
    BY <1>3, NextIsLast
  <2> QED  BY <2>1, <2>2
<1>9. OnCourse(y, finding')
  BY <1>3, <1>4, <1>5 DEF OnCourse
<1>10. ASSUME NEW g \in DOMAIN finding
       PROVE  /\ ~Oldest(finding', g) \/ Said(y, finding', g) = {} => Passed(y, finding', g)
              /\ Oldest(finding', g) =>
                     \A i \in Said(y, finding', g) :
                         Decided(y, InHand(y, finding', g), g, y.report[i].status)
  <2>1. \A h \in DOMAIN finding : finding'[h].key = finding[h].key
    BY <1>3, <1>6
  <2>2. Said(y, finding', g) = Said(x, finding, g)
    BY <1>5, <1>7, <2>1 DEF Said
  <2>3. Oldest(finding', g) <=> Oldest(finding, g)
    BY <1>6, <2>1 DEF Oldest
  <2>4. InHand(y, finding', g) = InHand(x, finding, g)
    BY <1>1, <1>5, <1>6 DEF InHand
  <2>5. /\ ~Oldest(finding, g) \/ Said(x, finding, g) = {} => Passed(x, finding, g)
        /\ Oldest(finding, g) =>
               \A i \in Said(x, finding, g) :
                   Decided(x, InHand(x, finding, g), g, x.report[i].status)
    BY DEF Follows
  <2>6. Passed(x, finding, g) /\ g # f => Passed(y, finding', g)
    BY <1>1, <1>5, <1>6 DEF Passed
  <2>7. \A row, s : Decided(x, row, g, s) => Decided(y, row, g, s)
    BY <1>1, <1>5 DEF Decided
  <2>8. g = f => Oldest(finding, g) /\ Said(x, finding, g) # {}
    BY <1>4, <1>8
  <2> HIDE DEF x, y, f
  <2> QED  BY <1>5, <2>2, <2>3, <2>4, <2>5, <2>6, <2>7, <2>8
<1> HIDE DEF x, y
<1>11. Follows(y, finding')
  BY <1>6, <1>9, <1>10 DEF Follows
<1> QED  BY <1>11 DEF y

\* Where the findings stay as they are, and what has been heard too.
LEMMA MissFollows ==
    ASSUME Inv, NEW r \in Runs, Miss(r), Follows(run[r], finding)
    PROVE  Follows(run'[r], finding')
<1> DEFINE x == run[r]
           y == run'[r]
<1>1. /\ x.step = "match" /\ x.next <= Len(x.report) /\ finding' = finding
      /\ \A f \in DOMAIN finding : finding[f].key # x.report[x.next].key
  BY DEF Miss, Reading, Busy, Matches, Current
<1>2. /\ y.step = "create" /\ y.next = x.next /\ y.kept = x.kept
      /\ y.report = x.report /\ y.options = x.options /\ y.original = x.original
  <2>1. y = [x EXCEPT !.step = "create"]
    BY DEF Miss, Inv, TypeOK
  <2>2. x \in [step : {"match", "create"}, report : Reports, next : Nat \ {0},
               options : Options, original : Rows, kept : SUBSET Id, alone : BOOLEAN]
    BY <1>1 DEF Inv, TypeOK, Run, Idle
  <2> HIDE DEF x, y
  <2> QED  BY <2>1, <2>2
<1>3. OnCourse(y, finding)
  BY <1>1, <1>2 DEF OnCourse
<1>4. Heard(y) = Heard(x)
  BY <1>1, <1>2 DEF Heard
<1>5. ASSUME NEW g \in DOMAIN finding
      PROVE  /\ Said(y, finding, g) = Said(x, finding, g)
             /\ InHand(y, finding, g) = InHand(x, finding, g)
             /\ Passed(x, finding, g) => Passed(y, finding, g)
             /\ \A row, s : Decided(x, row, g, s) => Decided(y, row, g, s)
  BY <1>1, <1>2, <1>4 DEF Said, InHand, Passed, Decided
<1> HIDE DEF x, y
<1>6. Follows(x, finding)
  BY DEF x
<1>7. Follows(y, finding)
  BY <1>2, <1>3, <1>5, <1>6 DEF Follows
<1> QED  BY <1>1, <1>7 DEF y

\* What was not noted down is left to be closed.
LEMMA SettleFollows ==
    ASSUME Inv, NEW r \in Runs, Settle(r), run[r].options.close_old_findings,
           Follows(run[r], finding)
    PROVE  Follows(run'[r], finding')
<1> DEFINE x == run[r]
           y == run'[r]
<1>1. /\ x \in Run /\ x.step = "match" /\ finding' = finding
      /\ ~(x.next <= Len(x.report))
  BY DEF Settle, Reading, Busy, Inv, TypeOK
<1>2. /\ y.step = "close" /\ y.report = x.report /\ y.options = x.options
      /\ y.original = x.original /\ y.left = DOMAIN x.original \ x.kept
  BY DEF Settle, Inv, TypeOK
<1>3. /\ x.next \in Nat \ {0} /\ Len(x.report) \in Nat
      /\ x.next - 1 <= Len(x.report)
  <2>1. x.next \in Nat \ {0} /\ x.report \in Seq(Item)
    BY <1>1, RunShape, ReportsAssumption
  <2> QED  BY <1>1, <2>1 DEF Follows, OnCourse
<1>4. Heard(y) = Heard(x)
  BY <1>1, <1>2, <1>3 DEF Heard
<1>5. OnCourse(y, finding)
  BY <1>2 DEF OnCourse
<1>6. ASSUME NEW g \in DOMAIN finding
      PROVE  /\ Said(y, finding, g) = Said(x, finding, g)
             /\ InHand(y, finding, g) = InHand(x, finding, g)
             /\ Passed(x, finding, g) => Passed(y, finding, g)
             /\ \A row, s : Decided(x, row, g, s) => Decided(y, row, g, s)
  BY <1>1, <1>2, <1>4 DEF Said, InHand, Passed, Decided
<1> HIDE DEF x, y
<1>7. Follows(x, finding)
  BY DEF x
<1>8. Follows(y, finding)
  BY <1>2, <1>5, <1>6, <1>7 DEF Follows
<1> QED  BY <1>1, <1>8 DEF y

\* What is closed was open when the run began, or has not been heard of.
LEMMA CloseFollows ==
    ASSUME Inv, NEW r \in Runs, NEW f, CloseOld(r, f), run'[r].step # "idle",
           Follows(run[r], finding)
    PROVE  Follows(run'[r], finding')
<1> DEFINE x == run[r]
           y == run'[r]
           row == [Refreshed(r, f) EXCEPT !.active = FALSE, !.is_mitigated = TRUE]
<1>1. /\ x \in Run /\ x.step = "close" /\ f \in x.left /\ f \in DOMAIN x.original
      /\ f \in DOMAIN finding /\ finding \in Rows /\ run \in [Runs -> Run]
      /\ IF x.original[f].is_mitigated THEN finding' = finding ELSE Put(f, row)
      /\ run' = [run EXCEPT ![r].left = @ \ {f}]
  BY DEF CloseOld, Busy, Fails, Idle, Inv, TypeOK, Fit
<1>2. /\ x.original[f] \in Finding /\ finding[f] \in Finding /\ f \in Id
      /\ Clean(finding[f]) /\ x.original[f].key = finding[f].key
  BY <1>1, RunShape, RowsAre DEF Inv, Stable, AllClean
<1>3. /\ row \in Finding /\ row.key = finding[f].key /\ ~row.active
      /\ row.false_p = finding[f].false_p
      /\ row.risk_accepted = finding[f].risk_accepted
  BY <1>2 DEF Refreshed, Finding
<1>4. /\ y.step = "close" /\ y.report = x.report /\ y.options = x.options
      /\ y.original = x.original /\ y.left = x.left \ {f}
  <2>1. y = [x EXCEPT !.left = x.left \ {f}]
    BY <1>1
  <2>2. x \in [step : {"close"}, report : Reports, options : Options,
               original : Rows, left : SUBSET Id, alone : BOOLEAN]
    BY <1>1 DEF Run, Idle
  <2> HIDE DEF x, y
  <2> QED  BY <2>1, <2>2
<1> HIDE DEF row
<1>5. /\ DOMAIN finding' = DOMAIN finding
      /\ \A g \in DOMAIN finding \ {f} : finding'[g] = finding[g]
      /\ IF x.original[f].is_mitigated THEN finding'[f] = finding[f] ELSE finding'[f] = row
  <2>1. CASE x.original[f].is_mitigated
    BY <1>1, <2>1
  <2>2. CASE ~x.original[f].is_mitigated
    <3>1. Put(f, row)
      BY <1>1, <2>2
    <3> QED  BY <1>1, <1>2, <1>3, <2>2, <3>1, PutRow
  <2> QED  BY <2>1, <2>2
<1>6. Heard(y) = Heard(x) /\ OnCourse(y, finding')
  BY <1>1, <1>4 DEF Heard, OnCourse
<1>7. ASSUME NEW g \in DOMAIN finding
      PROVE  /\ ~Oldest(finding', g) \/ Said(y, finding', g) = {} => Passed(y, finding', g)
             /\ Oldest(finding', g) =>
                    \A i \in Said(y, finding', g) :
                        Decided(y, InHand(y, finding', g), g, y.report[i].status)
  <2>1. \A h \in DOMAIN finding : finding'[h].key = finding[h].key
    BY <1>2, <1>3, <1>5
  <2>2. Said(y, finding', g) = Said(x, finding, g)
    BY <1>4, <1>6, <2>1 DEF Said
  <2>3. Oldest(finding', g) <=> Oldest(finding, g)
    BY <1>5, <2>1 DEF Oldest
  <2>4. InHand(y, finding', g) = finding'[g] /\ InHand(x, finding, g) = finding[g]
    BY <1>1, <1>4 DEF InHand
  <2>5. /\ ~Oldest(finding, g) \/ Said(x, finding, g) = {} => Passed(x, finding, g)
        /\ Oldest(finding, g) =>
               \A i \in Said(x, finding, g) :
                   Decided(x, InHand(x, finding, g), g, x.report[i].status)
    BY DEF Follows
  <2>6. Passed(x, finding, g) => Passed(y, finding', g)
    <3>1. CASE g = f
      <4>1. Passed(x, finding, g) => finding[f] = x.original[f]
        BY <1>1, <3>1 DEF Passed
      <4>2. finding[f] = x.original[f] => ~finding'[f].active
        BY <1>2, <1>3, <1>5 DEF Clean
      <4> QED  BY <1>4, <3>1, <4>1, <4>2 DEF Passed
    <3>2. CASE g # f
      BY <1>1, <1>4, <1>5, <3>2 DEF Passed
    <3> QED  BY <3>1, <3>2
  <2>7. \A s : Decided(x, finding[g], g, s) => Decided(y, finding'[g], g, s)
    <3>1. CASE g = f
      <4>1. \/ finding'[f] = finding[f]
            \/ ~finding'[f].active /\ (Special(finding'[f]) <=> Special(finding[f]))
        BY <1>3, <1>5 DEF Special
      <4> QED  BY <1>1, <1>4, <3>1, <4>1 DEF Decided
    <3>2. CASE g # f
      BY <1>1, <1>4, <1>5, <3>2 DEF Decided
    <3> QED  BY <3>1, <3>2
  <2> HIDE DEF x, y
  <2> QED  BY <1>4, <2>2, <2>3, <2>4, <2>5, <2>6, <2>7
<1> HIDE DEF x, y
<1>8. Follows(y, finding')
  BY <1>5, <1>6, <1>7 DEF Follows
<1> QED  BY <1>8 DEF y

\* At the start nothing has been heard.
LEMMA StartFollows ==
    ASSUME Inv, NEW r \in Runs, Start(r)
    PROVE  Follows(run'[r], finding')
<1> DEFINE y == run'[r]
           alone == \A q \in Runs : Busy(q, "idle")
<1>1. PICK report \in Reports, options \in Options :
          run' = [q \in Runs |->
                     CASE q = r -> [step |-> "match", report |-> report, next |-> 1,
                                    options |-> options, original |-> finding,
                                    kept |-> {}, alone |-> alone]
                       [] q # r /\ ~Busy(q, "idle") -> [run[q] EXCEPT !.alone = FALSE]
                       [] OTHER -> run[q]]
  BY DEF Start
<1>2. /\ y.step = "match" /\ y.report = report /\ y.next = 1 /\ y.kept = {}
      /\ y.original = finding /\ finding' = finding
  <2> HIDE DEF alone
  <2>1. y = [step |-> "match", report |-> report, next |-> 1, options |-> options,
             original |-> finding, kept |-> {}, alone |-> alone]
    BY <1>1
  <2> HIDE DEF y
  <2> QED  BY <2>1 DEF Start
<1> HIDE DEF y, alone
<1>3. OnCourse(y, finding)
  <2>1. report \in Seq(Item)
    BY ReportsAssumption
  <2>2. Len(report) \in Nat
    BY <2>1
  <2> QED  BY <1>2, <2>2 DEF OnCourse
<1>4. \A f \in DOMAIN finding : Said(y, finding, f) = {} /\ Passed(y, finding, f)
  <2>1. Heard(y) = 0
    BY <1>2 DEF Heard
  <2>2. \A key : LastSaid(report, 0, key) = {}
    BY DEF LastSaid
  <2> QED  BY <1>2, <2>1, <2>2 DEF Said, Passed
<1>5. Follows(y, finding)
  BY <1>3, <1>4 DEF Follows
<1> QED  BY <1>2, <1>5 DEF y

\* A run keeps its options.
LEMMA SameOptions ==
    ASSUME Inv, NEW r \in Runs, RunStep(r), ~Start(r), run'[r].step # "idle"
    PROVE  run'[r].options = run[r].options
<1>1. run \in [Runs -> Run] /\ run[r] \in Run
  BY DEF Inv, TypeOK
<1>2. CASE Miss(r)
  <2>1. run'[r] = [run[r] EXCEPT !.step = "create"] /\ run[r].step = "match"
    BY <1>1, <1>2 DEF Miss, Reading, Busy
  <2> QED  BY <1>1, <2>1 DEF Run, Idle
<1>3. CASE Create(r)
  <2>1. PICK f, row, kept : Holding(r, f, row, kept)
    BY <1>3 DEF Create
  <2> QED  BY <2>1, HoldingFields
<1>4. CASE Save(r)
  <2>1. Advance(r, run[r].kept)
    BY <1>1, <1>4 DEF Save, Fails, Idle
  <2> QED  BY <2>1, AdvanceFields
<1>5. CASE Settle(r)
  BY <1>1, <1>5 DEF Settle
<1>6. CASE End(r)
  BY <1>1, <1>6 DEF End, Idle
<1>7. CASE \E f \in First(r) : Skip(r, f)
  <2>1. PICK kept : Advance(r, kept)
    BY <1>7 DEF Skip
  <2> QED  BY <2>1, AdvanceFields
<1>8. CASE \E f \in First(r) : Match(r, f)
  <2>1. PICK f, row, kept : Holding(r, f, row, kept)
    BY <1>8 DEF Match
  <2> QED  BY <2>1, HoldingFields
<1>9. CASE \E f \in Id : CloseOld(r, f)
  <2>1. PICK f \in Id : CloseOld(r, f)
    BY <1>9
  <2>2. run' = [run EXCEPT ![r].left = @ \ {f}] /\ run[r].step = "close"
    BY <1>1, <2>1 DEF CloseOld, Busy, Fails, Idle
  <2>3. run'[r] = [run[r] EXCEPT !.left = run[r].left \ {f}]
    BY <1>1, <2>2
  <2> QED  BY <1>1, <2>2, <2>3 DEF Run, Idle
<1> QED  BY <1>2, <1>3, <1>4, <1>5, <1>6, <1>7, <1>8, <1>9 DEF RunStep

\* Every step keeps that the runs follow their reports.
LEMMA FollowedStep ==
    ASSUME Inv, Undisturbed, Followed, [Next]_vars
    PROVE  Followed'
<1>1. CASE UNCHANGED vars
  BY <1>1 DEF vars, Followed
<1>2. CASE Act
  <2>1. ASSUME NEW r \in Runs
        PROVE  ~Matters(run'[r])
    <3>1. run[r] \in Run
      BY DEF Inv, TypeOK
    <3>2. \/ run'[r] = Idle
          \/ run[r].step # "idle" /\ run'[r] = [run[r] EXCEPT !.alone = FALSE]
      BY <1>2 DEF Act, Busy
    <3> QED  BY <3>1, <3>2, Interrupted DEF Idle, Matters
  <2> QED  BY <2>1 DEF Followed
<1>3. ASSUME NEW s \in Runs, Start(s)
      PROVE  Followed'
  <2>1. ASSUME NEW r \in Runs, r # s
        PROVE  ~Matters(run'[r])
    <3>1. CASE ~Busy(r, "idle")
      <4>1. run[r] \in Run /\ run'[r] = [run[r] EXCEPT !.alone = FALSE]
        BY <1>3, <2>1, <3>1, Started DEF Inv, TypeOK
      <4> QED  BY <3>1, <4>1, Interrupted DEF Busy, Matters
    <3>2. CASE Busy(r, "idle")
      <4>1. run'[r] = run[r]
        BY <1>3, <2>1, <3>2, Started
      <4> QED  BY <3>2, <4>1 DEF Busy, Matters
    <3> QED  BY <3>1, <3>2
  <2>2. Follows(run'[s], finding')
    BY <1>3, StartFollows
  <2> QED  BY <2>1, <2>2 DEF Followed
<1>4. ASSUME NEW s \in Runs, RunStep(s), ~Start(s), NEW r \in Runs, Matters(run'[r])
      PROVE  Follows(run'[r], finding')
  <2>1. Alone(s)
    BY <1>4, OneRun
  <2>2. r = s
    <3>1. r # s => Matters(run[r]) /\ run[s].step # "idle"
      BY <1>4, <2>1 DEF Alone
    <3> QED  BY <3>1 DEF Undisturbed, Matters
  <2>3. run[r].step # "idle" /\ run[r].alone /\ run'[r].step # "idle"
    BY <1>4, <2>1, <2>2 DEF Alone, Matters
  <2>4. run[r].options.close_old_findings
    <3>1. run'[r].options = run[r].options
      BY <1>4, <2>2, <2>3, SameOptions
    <3> QED  BY <1>4, <3>1 DEF Matters
  <2>5. Follows(run[r], finding)
    BY <2>3, <2>4 DEF Followed, Matters
  <2>6. ~End(r)
    BY <2>3 DEF End, Idle, Inv, TypeOK
  <2> QED  BY <1>4, <2>2, <2>3, <2>4, <2>5, <2>6, MissFollows, CreateFollows, SaveFollows,
             SettleFollows, SkipFollows, MatchFollows, CloseFollows DEF RunStep
<1> QED  BY <1>1, <1>2, <1>3, <1>4 DEF Next, Followed

\* What has been followed to the end is what the report decides.
LEMMA FollowedDecides == Inv /\ Followed => ReportDecides
<1> SUFFICES ASSUME Inv, Followed, NEW r \in Runs, Done(r), run[r].alone,
                    run[r].options.close_old_findings, NEW f \in DOMAIN finding
             PROVE  LET row == finding[f]
                        options == run[r].options
                        items == {i \in DOMAIN run[r].report : run[r].report[i].key = row.key}
                        word == IF items = {} THEN "mitigated"
                                ELSE run[r].report[Max(items)].status
                        first == \A g \in DOMAIN finding : finding[g].key = row.key => f <= g
                    IN  /\ row.active =>
                              /\ first /\ items # {}
                              /\ \/ word # "mitigated"
                                 \/ f \notin DOMAIN run[r].original /\ options.active = "active"
                        /\ first /\ word = "open" /\ ~Special(row) /\ ~options.do_not_reactivate
                             => ~row.is_mitigated
  BY DEF ReportDecides
<1> DEFINE x == run[r]
           report == x.report
           n == Len(report)
           row == finding[f]
           items == {i \in DOMAIN report : report[i].key = row.key}
           said == LastSaid(report, n, row.key)
<1>1. x.step = "close" /\ x.left = {} /\ Follows(x, finding)
  BY DEF Done, Busy, Followed, Matters
<1>2. report \in Seq(Item) /\ n \in Nat /\ DOMAIN report = 1 .. n
  <2>1. x \in Run
    BY DEF Inv, TypeOK
  <2>2. report \in Seq(Item)
    BY <1>1, <2>1, RunShape, ReportsAssumption
  <2> QED  BY <2>2
<1>3. Said(x, finding, f) = said /\ InHand(x, finding, f) = row
  BY <1>1 DEF Said, Heard, InHand
<1> HIDE DEF x, report, n, row, said
<1>4. ~Oldest(finding, f) \/ said = {} => ~row.active
  BY <1>1, <1>3 DEF Follows, Passed, row
<1>5. Oldest(finding, f) =>
          \A i \in said : Decided(x, row, f, x.report[i].status)
  BY <1>1, <1>3 DEF Follows
<1>6. items # {} => Max(items) \in said
  <2> SUFFICES ASSUME items # {}
               PROVE  Max(items) \in said
    OBVIOUS
  <2>1. items \in SUBSET (1 .. n)
    BY <1>2
  <2>2. \A i \in 1 .. n : i \in items <=> report[i].key = row.key
    BY <1>2
  <2> HIDE DEF items
  <2>3. Max(items) \in items /\ \A k \in items : k <= Max(items)
    BY <1>2, <2>1, HighestIs
  <2> DEFINE last == Max(items)
  <2> HIDE DEF last
  <2>4. last \in 1 .. n /\ report[last].key = row.key /\ \A k \in items : k <= last
    BY <2>1, <2>2, <2>3 DEF last
  <2>5. \A j \in last + 1 .. n : j \in 1 .. n /\ ~(j <= last)
    BY <1>2, <2>4
  <2>6. last \in said
    BY <2>2, <2>4, <2>5 DEF said, LastSaid
  <2> QED  BY <2>6 DEF last
<1>7. items = {} => said = {}
  BY <1>2 DEF said, LastSaid
<1> HIDE DEF items
<1>8. /\ row.active => Oldest(finding, f) /\ items # {}
      /\ Oldest(finding, f) /\ items # {} =>
             Decided(x, row, f, x.report[Max(items)].status)
  BY <1>4, <1>5, <1>6, <1>7
<1>9. Oldest(finding, f) <=>
          \A g \in DOMAIN finding : finding[g].key = row.key => f <= g
  BY DEF Oldest, row
<1> DEFINE word == IF items = {} THEN "mitigated" ELSE x.report[Max(items)].status
<1>10. /\ row.active =>
             /\ Oldest(finding, f) /\ items # {}
             /\ \/ word # "mitigated"
                \/ f \notin DOMAIN x.original /\ x.options.active = "active"
       /\ Oldest(finding, f) /\ word = "open" /\ ~Special(row) /\ ~x.options.do_not_reactivate
            => ~row.is_mitigated
  <2>1. /\ items # {} => word = x.report[Max(items)].status
        /\ items = {} => word = "mitigated"
    OBVIOUS
  <2> HIDE DEF word
  <2>2. Oldest(finding, f) /\ items # {} => Decided(x, row, f, word)
    BY <1>8, <2>1
  <2>3. word = "open" => items # {}
    BY <2>1
  <2>4. /\ word = "mitigated" /\ row.active /\ Oldest(finding, f) /\ items # {} =>
              f \notin DOMAIN x.original /\ x.options.active = "active"
        /\ /\ word = "open" /\ ~Special(row) /\ ~x.options.do_not_reactivate
           /\ Oldest(finding, f) /\ items # {}
           => ~row.is_mitigated
    BY <2>2 DEF Decided
  <2> QED  BY <1>8, <2>3, <2>4
<1> QED  BY <1>9, <1>10 DEF x, row, items, report

\* When a run that nobody has disturbed is done, its report has decided what is
\* open and what is not, for any reports and any findings that were there before.
THEOREM TheReportDecides == Spec => []ReportDecides
<1>1. Init => Undisturbed /\ Followed
  BY DEF Init, Idle, Undisturbed, Followed, Matters
<1>2. Inv /\ Undisturbed /\ [Next]_vars => Undisturbed'
  BY UndisturbedStep
<1>3. Inv /\ Undisturbed /\ Followed /\ [Next]_vars => Followed'
  BY FollowedStep
<1> QED  BY <1>1, <1>2, <1>3, FollowedDecides, Invariance, PTL DEF Spec

=============================================================================
