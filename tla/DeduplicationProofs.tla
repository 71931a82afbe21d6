------------------------ MODULE DeduplicationProofs ------------------------
(***************************************************************************)
(* Proofs about Deduplication, for any number of findings, workers and     *)
(* acts.                                                                   *)
(*                                                                         *)
(* ClustersAreFlat: as long as a worker was never at work when another     *)
(* began or a person acted, a duplicate points to a finding that is none.  *)
(* While a worker is at it this rests on what it has read: the rows of the *)
(* candidates are still those of the database and no duplicates, and the   *)
(* finding that is about to become a duplicate has no duplicates but those *)
(* that the worker has still to move.                                      *)
(*                                                                         *)
(* OneOriginalIsLeft: if besides nobody touches them, all findings but one *)
(* are duplicates in the end.  Those that the queue has dealt with are,    *)
(* all but one, at any time but in the middle of a job.                    *)
(*                                                                         *)
(* NoLoopIsLeft: whoever overlaps, there is no loop when all have          *)
(* finished.  A loop is a set of findings that point into it; while there  *)
(* is one, some worker has yet to save a finding of it as it had read it,  *)
(* which was no duplicate then, and this opens the loop.                   *)
(*                                                                         *)
(* OrderedChainsFlatten: chains whose originals get older towards the end  *)
(* are repaired by one run of fix_loop_duplicates, whatever their length   *)
(* and number.  The originals are dealt with from the newest to the        *)
(* oldest, and one that is done with has no duplicates any more.           *)
(*                                                                         *)
(* FourAreFlattened: so are all that four findings can have in the end.    *)
(* Out of order they are one chain, and of that there are two kinds.       *)
(***************************************************************************)
EXTENDS Deduplication, SequenceTheorems, FiniteSetTheorems, WellFoundedInduction, TLAPS

Flat ==
    \A f \in DOMAIN finding :
        finding[f].original # None =>
            /\ finding[f].duplicate
            /\ finding[f].original \in DOMAIN finding
            /\ ~finding[finding[f].original].duplicate

Numbered == imported \in Nat /\ DOMAIN finding \subseteq 1 .. imported

\* The rows that a worker has read of its candidates.
RowsAreFresh(w) ==
    /\ worker[w].task \in DOMAIN finding
    /\ worker[w].target \in DOMAIN worker[w].rows
    /\ \A g \in DOMAIN worker[w].rows :
           /\ g \in DOMAIN finding /\ g # worker[w].task
           /\ worker[w].rows[g] = finding[g]
           /\ ~finding[g].duplicate

\* The call of set_duplicate for the task, and the one for a duplicate of it.
Outer(w) ==
    LET frame == worker[w].stack[1]
    IN  /\ frame.id = worker[w].task
        /\ frame.row.duplicate /\ frame.row.original = worker[w].target
        /\ worker[w].step = "flatten" \/ Len(worker[w].stack) = 2 =>
               /\ \A f \in DOMAIN frame.left :
                      f \in DOMAIN finding /\ finding[f].duplicate
               /\ \A f \in DOMAIN finding :
                      finding[f].original = worker[w].task => f \in DOMAIN frame.left

Inner(w) ==
    LET frame == worker[w].stack[2]
    IN  /\ frame.id \in DOMAIN finding /\ finding[frame.id].duplicate
        /\ frame.row.duplicate /\ frame.row.original = worker[w].target
        /\ worker[w].step = "flatten" => DOMAIN frame.left = {}

Working(w) ==
    /\ RowsAreFresh(w)
    /\ Outer(w)
    /\ \/ worker[w].stack = <<worker[w].stack[1]>>
       \/ worker[w].stack = <<worker[w].stack[1], worker[w].stack[2]>> /\ Inner(w)

Alone ==
    /\ Flat
    /\ Numbered
    /\ DOMAIN worker = Workers
    /\ \A w \in Workers : ~Free(w) => Working(w)
    /\ \A v, w \in Workers : ~Free(v) /\ ~Free(w) => v = w

Inv == ~overlap => Alone

-----------------------------------------------------------------------------
\* The duplicates of a finding, without the graph.
LEMMA DuplicatesAre ==
    ASSUME NEW f
    PROVE  Duplicates(f) = {g \in DOMAIN finding : finding[g].original = f}
BY DEF Duplicates, Originals, Graph

\* What a worker is while it is at a task, and what a call of set_duplicate is.
LEMMA AtFields ==
    ASSUME NEW t, NEW g, NEW r, NEW p, NEW k
    PROVE  /\ At(t, g, r, p, k).task = t
           /\ At(t, g, r, p, k).target = g
           /\ At(t, g, r, p, k).rows = r
           /\ At(t, g, r, p, k).step = p
           /\ At(t, g, r, p, k).stack = k
BY DEF At

LEMMA FrameFields ==
    ASSUME NEW i, NEW r, NEW l
    PROVE  Frame(i, r, l).id = i /\ Frame(i, r, l).row = r /\ Frame(i, r, l).left = l
BY DEF Frame

\* No finding has the id that stands for no original.
LEMMA NoneIsNobody == Numbered => None \notin DOMAIN finding
<1>1. imported \in Nat => 0 \notin 1 .. imported
  OBVIOUS
<1> QED  BY <1>1 DEF Numbered, None

\* The top of a stack of one or two calls, and what is below it.
LEMMA OneCall ==
    ASSUME NEW w, worker[w].stack = <<worker[w].stack[1]>>
    PROVE  /\ Top(w) = worker[w].stack[1] /\ Len(worker[w].stack) = 1
           /\ Below(w) = <<>>
<1> DEFINE a == worker[w].stack[1]
<1>1. worker[w].stack = <<a>>
  OBVIOUS
<1> HIDE DEF a
<1>2. Len(<<a>>) = 1 /\ <<a>>[1] = a /\ SubSeq(<<a>>, 1, 0) = <<>>
  OBVIOUS
<1> QED  BY <1>1, <1>2 DEF Top, Below

LEMMA TwoCalls ==
    ASSUME NEW w, worker[w].stack = <<worker[w].stack[1], worker[w].stack[2]>>
    PROVE  /\ Top(w) = worker[w].stack[2] /\ Len(worker[w].stack) = 2
           /\ Below(w) = <<worker[w].stack[1]>>
<1> DEFINE a == worker[w].stack[1]
           b == worker[w].stack[2]
<1>1. worker[w].stack = <<a, b>>
  OBVIOUS
<1> HIDE DEF a, b
<1>2. Len(<<a, b>>) = 2 /\ <<a, b>>[2] = b
  OBVIOUS
<1>3. SubSeq(<<a, b>>, 1, 1) = <<a>>
  <2>1. \A i \in 1 .. 1 : <<a, b>>[i] \in {a}
    OBVIOUS
  <2>2. /\ SubSeq(<<a, b>>, 1, 1) \in Seq({a})
        /\ Len(SubSeq(<<a, b>>, 1, 1)) = 1
        /\ SubSeq(<<a, b>>, 1, 1)[1] = a
    <3>1. /\ SubSeq(<<a, b>>, 1, 1) \in Seq({a})
          /\ Len(SubSeq(<<a, b>>, 1, 1)) = IF 1 <= 1 THEN 1 - 1 + 1 ELSE 0
          /\ \A i \in 1 .. 1 - 1 + 1 : SubSeq(<<a, b>>, 1, 1)[i] = <<a, b>>[1 + i - 1]
      BY <2>1, SubSeqProperties
    <3> QED  BY <3>1, <1>2
  <2>3. <<a>> \in Seq({a}) /\ Len(<<a>>) = 1 /\ <<a>>[1] = a
    OBVIOUS
  <2> DEFINE sub == SubSeq(<<a, b>>, 1, 1)
  <2>4. sub \in Seq({a}) /\ Len(sub) = 1 /\ sub[1] = a
    BY <2>2
  <2> HIDE DEF sub
  <2>5. \A i \in 1 .. Len(sub) : sub[i] = <<a>>[i]
    BY <2>4, <2>3
  <2>6. sub = <<a>>
    BY <2>3, <2>4, <2>5, SeqEqual
  <2> QED  BY <2>6 DEF sub
<1>4. worker[w].stack[1] = a /\ worker[w].stack[2] = b
  BY DEF a, b
<1>5. Len(worker[w].stack) = 2 /\ Len(worker[w].stack) - 1 = 1
  BY <1>1, <1>2
<1> QED  BY <1>1, <1>2, <1>3, <1>4, <1>5 DEF Top, Below

LEMMA Pushed ==
    ASSUME NEW a, NEW b
    PROVE  /\ Append(<<>>, b) = <<b>> /\ Append(<<a>>, b) = <<a, b>>
           /\ <<b>>[1] = b /\ Len(<<b>>) = 1
           /\ <<a, b>>[1] = a /\ <<a, b>>[2] = b /\ Len(<<a, b>>) = 2
<1>1. /\ <<b>>[1] = b /\ Len(<<b>>) = 1
      /\ <<a, b>>[1] = a /\ <<a, b>>[2] = b /\ Len(<<a, b>>) = 2
  OBVIOUS
<1>2. Append(<<>>, b) = <<b>>
  OBVIOUS
<1>3. Append(<<a>>, b) = <<a, b>>
  <2> DEFINE s == Append(<<a>>, b)
  <2>1. s \in Seq({a, b}) /\ Len(s) = 2 /\ s[1] = a /\ s[2] = b
    OBVIOUS
  <2>2. <<a, b>> \in Seq({a, b})
    OBVIOUS
  <2> HIDE DEF s
  <2>3. \A i \in 1 .. Len(s) : s[i] = <<a, b>>[i]
    <3>1. 1 .. 2 = {1, 2}
      OBVIOUS
    <3> QED  BY <1>1, <2>1, <3>1
  <2>4. s = <<a, b>>
    BY <1>1, <2>1, <2>2, <2>3, SeqEqual
  <2> QED  BY <2>4 DEF s
<1> QED  BY <1>1, <1>2, <1>3

\* Who begins has the queue to himself.
LEMMA ChosenWork ==
    ASSUME NEW f, NEW row, NEW rows, NEW next \in Chosen(f, row, rows)
    PROVE  \/ next = Idle
           \/ \E target \in DOMAIN rows :
                  next = At(f, target, rows, "read",
                            <<Frame(f, Attached(row, target), <<>>)>>)
BY DEF Chosen, Lowest, Acceptable

LEMMA PutIs ==
    ASSUME NEW f \in DOMAIN finding, NEW r, Put(f, r)
    PROVE  /\ DOMAIN finding' = DOMAIN finding
           /\ \A g \in DOMAIN finding : finding'[g] = IF g = f THEN r ELSE finding[g]
<1>1. DOMAIN finding \cup {f} = DOMAIN finding
  OBVIOUS
<1> QED  BY <1>1 DEF Put

\* Steps that leave the workers alone, or one of them at work.
LEMMA QuietStep ==
    ASSUME Alone, Quiet, UNCHANGED worker, Flat', Numbered'
    PROVE  Alone'
BY DEF Alone, Quiet, Free

LEMMA StepOfOne ==
    ASSUME Alone, NEW w \in Workers, NEW next,
           \A v \in Workers : ~Free(v) => v = w,
           worker' = [worker EXCEPT ![w] = next],
           Flat', Numbered', next.task # None => Working(w)'
    PROVE  Alone'
<1>1. /\ DOMAIN worker' = Workers
      /\ \A v \in Workers : worker'[v] = IF v = w THEN next ELSE worker[v]
  BY DEF Alone
<1>2. \A v \in Workers : ~Free(v)' => v = w /\ next.task # None
  BY <1>1 DEF Free
<1> QED  BY <1>1, <1>2 DEF Alone

-----------------------------------------------------------------------------
(***************************************************************************)
(* The importers and the pages.                                            *)
(***************************************************************************)
LEMMA ImportStep ==
    ASSUME Alone, Import
    PROVE  Alone'
<1> DEFINE n == imported + 1
<1>1. /\ n \notin DOMAIN finding /\ n # None
      /\ DOMAIN finding' = DOMAIN finding \cup {n}
      /\ imported' = n /\ Numbered'
      /\ \A g \in DOMAIN finding : finding'[g] = finding[g]
      /\ finding'[n] = Row(FALSE, None, TRUE, FALSE)
  <2>1. imported \in Nat /\ DOMAIN finding \subseteq 1 .. imported /\ imported' = n
    BY DEF Alone, Numbered, Import
  <2>2. n \notin DOMAIN finding /\ n # None /\ n \in Nat
        /\ 1 .. imported \subseteq 1 .. n /\ n \in 1 .. n
    BY <2>1 DEF None
  <2> DEFINE r == Row(FALSE, None, TRUE, FALSE)
  <2>3. Put(n, r)
    BY <2>1 DEF Import
  <2> HIDE DEF n, r
  <2>4. /\ DOMAIN finding' = DOMAIN finding \cup {n}
        /\ \A g \in DOMAIN finding \cup {n} :
               finding'[g] = IF g = n THEN r ELSE finding[g]
    BY <2>3 DEF Put
  <2>5. \A g \in DOMAIN finding : finding'[g] = finding[g]
    BY <2>2, <2>4
  <2>6. finding'[n] = r
    BY <2>4
  <2>7. Numbered'
    BY <2>1, <2>2, <2>4 DEF Numbered
  <2> QED  BY <2>1, <2>2, <2>4, <2>5, <2>6, <2>7 DEF r
<1>2. ~finding'[n].duplicate /\ finding'[n].original = None
  BY <1>1 DEF Row
<1>3. Flat'
  BY <1>1, <1>2 DEF Alone, Flat
<1>4. ASSUME NEW w \in Workers, ~Free(w)
      PROVE  Working(w)'
  <2>1. Working(w) /\ worker[w].task # None /\ worker' = worker
    BY <1>4 DEF Alone, Free, Import
  <2>2. RowsAreFresh(w)'
    BY <2>1, <1>1 DEF Working, RowsAreFresh
  <2>3. Outer(w)'
    BY <2>1, <1>1, <1>2 DEF Working, Outer
  <2>4. Inner(w) => Inner(w)'
    BY <2>1, <1>1 DEF Inner
  <2> QED  BY <2>1, <2>2, <2>3, <2>4 DEF Working
<1> QED  BY <1>1, <1>3, <1>4 DEF Alone, Free, Import

LEMMA PutStep ==
    ASSUME Alone, NEW f \in DOMAIN finding, NEW r, Put(f, r), UNCHANGED imported,
           \/ r.original = None /\ ~r.duplicate
           \/ r.original = finding[f].original /\ r.duplicate = finding[f].duplicate
    PROVE  Flat' /\ Numbered'
<1>1. /\ DOMAIN finding' = DOMAIN finding
      /\ \A g \in DOMAIN finding : finding'[g] = IF g = f THEN r ELSE finding[g]
  BY PutIs
<1>2. ASSUME NEW g \in DOMAIN finding, finding'[g].original # None
      PROVE  /\ finding'[g].duplicate
             /\ finding'[g].original \in DOMAIN finding
             /\ ~finding'[finding'[g].original].duplicate
  <2>1. /\ finding'[g].original = finding[g].original
        /\ finding'[g].duplicate = finding[g].duplicate
    BY <1>1, <1>2
  <2> QED  BY <1>1, <1>2, <2>1 DEF Alone, Flat
<1> QED  BY <1>1, <1>2 DEF Flat, Numbered, Alone

\* f becomes a duplicate of `original`, and has none itself.
LEMMA BecomesDuplicate ==
    ASSUME Alone, NEW f \in DOMAIN finding, NEW r, Put(f, r), UNCHANGED imported,
           r.duplicate, r.original \in DOMAIN finding \ {f},
           ~finding[r.original].duplicate,
           \A g \in DOMAIN finding : finding[g].original # f
    PROVE  Flat' /\ Numbered'
<1>1. /\ DOMAIN finding' = DOMAIN finding
      /\ \A g \in DOMAIN finding : finding'[g] = IF g = f THEN r ELSE finding[g]
  BY PutIs
<1> QED  BY <1>1 DEF Flat, Numbered, Alone

LEMMA MarkDuplicateStep ==
    ASSUME Alone, NEW f \in DOMAIN finding, NEW similar \in DOMAIN finding,
           MarkDuplicate(f, similar)
    PROVE  Flat' /\ Numbered'
<1> DEFINE original == IF finding[f].duplicate THEN finding[f].original ELSE f
           r == Row(TRUE, original, FALSE, finding[similar].is_mitigated)
<1>1. /\ original # None /\ Put(similar, r) /\ UNCHANGED imported
      /\ f # similar /\ finding[f].original # similar
      /\ \A g \in DOMAIN finding : finding[g].original # similar
  BY DuplicatesAre DEF MarkDuplicate, Shown
<1>2. original \in DOMAIN finding \ {similar} /\ ~finding[original].duplicate
  BY <1>1 DEF Alone, Flat
<1>3. r.duplicate /\ r.original = original
  BY DEF Row
<1> HIDE DEF r, original
<1> QED  BY <1>1, <1>2, <1>3, BecomesDuplicate

LEMMA SetOriginalStep ==
    ASSUME Alone, NEW f \in DOMAIN finding, NEW similar \in DOMAIN finding,
           SetOriginal(f, similar)
    PROVE  Flat' /\ Numbered'
<1> DEFINE clustered == finding[f].duplicate \/ Duplicates(f) # {}
           moved == IF clustered THEN Members(f) \cup {f} ELSE {f}
           becomes(g) == finding[g].duplicate \/ g \in {f, finding[f].original}
<1>1. /\ f # similar /\ finding[f].original # similar
      /\ \A g \in DOMAIN finding : finding[g].original # similar
      /\ UNCHANGED imported /\ DOMAIN finding' = DOMAIN finding
  BY DuplicatesAre DEF SetOriginal, Shown
<1>2. finding'[similar].duplicate = FALSE /\ finding'[similar].original = None
  <2>1. finding'[similar] =
            Row(FALSE, None, finding[similar].active, finding[similar].is_mitigated)
    BY <1>1 DEF SetOriginal
  <2> QED  BY <2>1 DEF Row
<1>3. ASSUME NEW g \in DOMAIN finding, g # similar, g \in moved
      PROVE  (becomes(g) => finding'[g].duplicate) /\ finding'[g].original = similar
  <2>1. CASE clustered
    <3>1. finding'[g] = Row(becomes(g), similar, finding[g].active, finding[g].is_mitigated)
      BY <1>3, <2>1 DEF SetOriginal
    <3>2. \A b : Row(b, similar, finding[g].active, finding[g].is_mitigated).duplicate = b
      BY DEF Row
    <3>3. \A b : Row(b, similar, finding[g].active, finding[g].is_mitigated).original = similar
      BY DEF Row
    <3> HIDE DEF becomes
    <3> QED  BY <3>1, <3>2, <3>3
  <2>2. CASE ~clustered
    <3>1. finding'[g] = Row(TRUE, similar, FALSE, finding[g].is_mitigated)
      BY <1>3, <2>2 DEF SetOriginal
    <3> QED  BY <3>1 DEF Row
  <2> QED  BY <2>1, <2>2
<1>4. \A g \in DOMAIN finding : g # similar /\ g \notin moved => finding'[g] = finding[g]
  BY DEF SetOriginal
<1>5. \A g \in moved \cap DOMAIN finding : becomes(g)
  <2>1. CASE clustered /\ ~finding[f].duplicate
    BY <2>1, NoneIsNobody, DuplicatesAre DEF Members, Alone, Flat
  <2>2. CASE finding[f].duplicate
    BY <2>2, DuplicatesAre DEF Members, Alone, Flat, None
  <2>3. CASE ~clustered
    BY <2>3
  <2> QED  BY <2>1, <2>2, <2>3
<1>6. \A g \in DOMAIN finding :
          finding[g].original \in moved /\ finding[g].original # None => g \in moved
  <2> SUFFICES ASSUME NEW g \in DOMAIN finding,
                      finding[g].original \in moved, finding[g].original # None
               PROVE  g \in moved
    OBVIOUS
  <2>0. finding[g].duplicate /\ finding[g].original \in DOMAIN finding
        /\ ~finding[finding[g].original].duplicate
    BY DEF Alone, Flat
  <2>1. CASE clustered /\ ~finding[f].duplicate
    BY <2>0, <2>1, NoneIsNobody, DuplicatesAre DEF Members, Alone, Flat
  <2>2. CASE finding[f].duplicate
    BY <2>0, <2>2, DuplicatesAre DEF Members, Alone, Flat, None
  <2>3. CASE ~clustered
    BY <2>0, <2>3, DuplicatesAre
  <2> QED  BY <2>1, <2>2, <2>3
<1> HIDE DEF moved, clustered
<1>7. ASSUME NEW g \in DOMAIN finding, finding'[g].original # None
      PROVE  /\ finding'[g].duplicate
             /\ finding'[g].original \in DOMAIN finding
             /\ ~finding'[finding'[g].original].duplicate
  <2>1. g # similar
    BY <1>2, <1>7
  <2>2. CASE g \in moved
    BY <2>1, <2>2, <1>2, <1>3, <1>5
  <2>3. CASE g \notin moved
    BY <2>1, <2>3, <1>1, <1>4, <1>6, <1>7 DEF Alone, Flat
  <2> QED  BY <2>2, <2>3
<1> QED  BY <1>1, <1>7 DEF Flat, Numbered, Alone

LEMMA DeleteStep ==
    ASSUME Alone, NEW f \in DOMAIN finding, Delete(f)
    PROVE  Flat' /\ Numbered'
<1>1. CASE Duplicates(f) = {} /\ finding' = Without(finding, f)
  <2>1. /\ DOMAIN finding' = DOMAIN finding \ {f}
        /\ \A g \in DOMAIN finding \ {f} : finding'[g] = finding[g]
    BY <1>1 DEF Without, Restrict
  <2>2. \A g \in DOMAIN finding : finding[g].original # f
    BY <1>1, DuplicatesAre
  <2> QED  BY <2>1, <2>2 DEF Alone, Flat, Numbered, Delete
<1>2. ASSUME NEW heir \in Lowest(Duplicates(f)),
             finding' = [g \in DOMAIN finding \ {f} |->
                 CASE g = heir ->
                        Row(FALSE, None, finding[f].active, finding[f].is_mitigated)
                   [] g # heir /\ g \in Duplicates(f) /\ finding[g].duplicate ->
                        Row(TRUE, heir, finding[g].active, finding[g].is_mitigated)
                   [] OTHER -> finding[g]]
      PROVE  Flat' /\ Numbered'
  <2>1. heir \in DOMAIN finding /\ finding[heir].original = f
    BY DuplicatesAre DEF Lowest
  <2>2. /\ heir # f /\ finding[heir].duplicate
        /\ DOMAIN finding' = DOMAIN finding \ {f} /\ UNCHANGED imported
    BY <2>1, <1>2, NoneIsNobody DEF Alone, Flat, Delete
  <2>3. ~finding'[heir].duplicate /\ finding'[heir].original = None
    <3>1. finding'[heir] =
              Row(FALSE, None, finding[f].active, finding[f].is_mitigated)
      BY <2>1, <2>2, <1>2
    <3> QED  BY <3>1 DEF Row
  <2>4. ASSUME NEW g \in DOMAIN finding \ {f}, g # heir, finding[g].original = f
        PROVE  finding'[g].duplicate /\ finding'[g].original = heir
    <3>1. finding[g].duplicate /\ g \in Duplicates(f)
      BY <2>4, DuplicatesAre, NoneIsNobody DEF Alone, Flat
    <3>2. finding'[g] = Row(TRUE, heir, finding[g].active, finding[g].is_mitigated)
      BY <2>4, <3>1, <1>2
    <3> QED  BY <3>2 DEF Row
  <2>5. \A g \in DOMAIN finding \ {f} :
            g # heir /\ finding[g].original # f => finding'[g] = finding[g]
    BY <1>2, DuplicatesAre
  <2>6. ASSUME NEW g \in DOMAIN finding', finding'[g].original # None
        PROVE  /\ finding'[g].duplicate
               /\ finding'[g].original \in DOMAIN finding'
               /\ ~finding'[finding'[g].original].duplicate
    <3>1. g # heir /\ g \in DOMAIN finding \ {f}
      BY <2>2, <2>3, <2>6
    <3>2. CASE finding[g].original = f
      BY <3>1, <3>2, <2>1, <2>2, <2>3, <2>4
    <3>3. CASE finding[g].original # f
      <4>1. finding'[g] = finding[g]
        BY <3>1, <3>3, <2>5
      <4>2. /\ finding[g].duplicate /\ finding[g].original \in DOMAIN finding \ {f}
            /\ ~finding[finding[g].original].duplicate
        BY <4>1, <3>1, <3>3, <2>6 DEF Alone, Flat
      <4>3. finding'[finding[g].original] = finding[finding[g].original]
        <5>1. finding[finding[g].original].original # f
          BY <4>2, NoneIsNobody DEF Alone, Flat
        <5>2. finding[g].original # heir
          BY <4>2, <2>2
        <5> QED  BY <5>1, <5>2, <4>2, <2>5
      <4> QED  BY <4>1, <4>2, <4>3, <2>2
    <3> QED  BY <3>2, <3>3
  <2> QED  BY <2>2, <2>6 DEF Flat, Numbered, Alone
<1> QED  BY <1>1, <1>2 DEF Delete

LEMMA PageStepAlone ==
    ASSUME Inv, PageStep, ~overlap'
    PROVE  Alone'
<1>1. Alone /\ Quiet
  BY DEF Inv, PageStep
<1>2. UNCHANGED worker
  BY DEF PageStep, Mitigate, Close, Reopen, ResetDuplicate, Delete, MarkDuplicate, SetOriginal
<1>3. ASSUME NEW f \in DOMAIN finding,
             Mitigate(f) \/ Close(f) \/ Reopen(f) \/ ResetDuplicate(f)
      PROVE  Flat' /\ Numbered'
  <2>1. CASE Mitigate(f)
    <3> DEFINE r == Row(finding[f].duplicate, finding[f].original, FALSE, TRUE)
    <3>1. Put(f, r) /\ UNCHANGED imported
      BY <2>1 DEF Mitigate
    <3>2. r.original = finding[f].original /\ r.duplicate = finding[f].duplicate
      BY DEF Row
    <3> HIDE DEF r
    <3> QED  BY <1>1, <3>1, <3>2, PutStep
  <2>2. CASE Close(f)
    <3> DEFINE r == Row(FALSE, None, FALSE, TRUE)
    <3>1. Put(f, r) /\ UNCHANGED imported
      BY <2>2 DEF Close
    <3>2. r.original = None /\ ~r.duplicate
      BY DEF Row
    <3> HIDE DEF r
    <3> QED  BY <1>1, <3>1, <3>2, PutStep
  <2>3. CASE Reopen(f)
    <3> DEFINE q == Row(finding[f].duplicate, finding[f].original, TRUE, FALSE)
               r == Save(q)
    <3>1. Put(f, r) /\ UNCHANGED imported
      BY <2>3 DEF Reopen
    <3>2. q.original = finding[f].original /\ q.duplicate = finding[f].duplicate
      BY DEF Row
    <3>3. IF q.duplicate THEN r = q ELSE r.original = None /\ ~r.duplicate
      <4> HIDE DEF q
      <4> QED  BY DEF Save, Row
    <3> HIDE DEF r, q
    <3> QED  BY <1>1, <3>1, <3>2, <3>3, PutStep
  <2>4. CASE ResetDuplicate(f)
    <3> DEFINE r == Row(FALSE, None, TRUE, finding[f].active /\ finding[f].is_mitigated)
    <3>1. Put(f, r) /\ UNCHANGED imported
      BY <2>4 DEF ResetDuplicate
    <3>2. r.original = None /\ ~r.duplicate
      BY DEF Row
    <3> HIDE DEF r
    <3> QED  BY <1>1, <3>1, <3>2, PutStep
  <2> QED  BY <1>3, <2>1, <2>2, <2>3, <2>4
<1>4. Flat' /\ Numbered'
  BY <1>1, <1>3, DeleteStep, MarkDuplicateStep, SetOriginalStep DEF PageStep
<1> QED  BY <1>1, <1>2, <1>4, QuietStep

-----------------------------------------------------------------------------
(***************************************************************************)
(* A worker.                                                               *)
(***************************************************************************)
\* A worker that begins with a candidate.
Begun(f, target, rows, frame) ==
    At(f, target, rows, "read", <<frame>>)

LEMMA BegunWorks ==
    ASSUME NEW w, NEW f \in DOMAIN finding, NEW rows, NEW target \in DOMAIN rows,
           NEW row,
           worker'[w] = Begun(f, target, rows, Frame(f, Attached(row, target), <<>>)),
           DOMAIN finding' = DOMAIN finding,
           \A g \in DOMAIN rows :
               /\ g \in DOMAIN finding /\ g # f
               /\ rows[g] = finding'[g] /\ ~finding'[g].duplicate
    PROVE  Working(w)'
<1> DEFINE frame == Frame(f, Attached(row, target), <<>>)
<1>1. /\ frame.id = f /\ frame.row.duplicate /\ frame.row.original = target
  BY DEF Frame, Attached, Row
<1> HIDE DEF frame
<1>2. /\ worker'[w].task = f /\ worker'[w].target = target /\ worker'[w].rows = rows
      /\ worker'[w].step = "read" /\ worker'[w].stack = <<frame>>
  BY AtFields DEF Begun, frame
<1>3. <<frame>>[1] = frame /\ Len(<<frame>>) = 1
  OBVIOUS
<1>4. RowsAreFresh(w)'
  BY <1>2 DEF RowsAreFresh
<1>5. Outer(w)'
  <2> DEFINE next == worker'[w]
  <2>1. next.task = f /\ next.target = target /\ next.step = "read" /\ next.stack[1] = frame
        /\ Len(next.stack) = 1
    BY <1>2, <1>3
  <2>2. frame.id = f /\ frame.row.duplicate /\ frame.row.original = target
    BY <1>1
  <2> HIDE DEF next, frame
  <2>3. next.stack[1].id = next.task /\ next.stack[1].row.duplicate
        /\ next.stack[1].row.original = next.target
    BY <2>1, <2>2
  <2> QED  BY <2>1, <2>3 DEF Outer, next
<1> QED  BY <1>2, <1>3, <1>4, <1>5 DEF Working

LEMMA LoadStep ==
    ASSUME Inv, NEW w \in Workers, NEW f \in DOMAIN finding, Load(w, f), ~overlap'
    PROVE  Alone'
<1> DEFINE rows == Restrict(finding, Candidates(f))
<1>1. Alone /\ Quiet /\ UNCHANGED <<finding, imported>>
  BY DEF Inv, Load
<1>2. PICK next \in Chosen(f, finding[f], rows) : worker' = [worker EXCEPT ![w] = next]
  BY DEF Load
<1>3. /\ DOMAIN rows = Candidates(f)
      /\ \A g \in DOMAIN rows : rows[g] = finding[g]
  BY DEF Restrict
<1> HIDE DEF rows
<1>4. next.task # None => Working(w)'
  <2>1. CASE next = Idle
    BY <2>1 DEF Idle
  <2>2. ASSUME NEW target \in DOMAIN rows,
               next = At(f, target, rows, "read",
                         <<Frame(f, Attached(finding[f], target), <<>>)>>)
        PROVE  Working(w)'
    <3>1. worker'[w] =
              Begun(f, target, rows, Frame(f, Attached(finding[f], target), <<>>))
      BY <1>1, <1>2, <2>2 DEF Alone, Begun
    <3>2. \A g \in DOMAIN rows :
              /\ g \in DOMAIN finding /\ g # f
              /\ rows[g] = finding'[g] /\ ~finding'[g].duplicate
      BY <1>1, <1>3 DEF Candidates
    <3> QED  BY <1>1, <3>1, <3>2, BegunWorks
  <2> QED  BY <2>1, <2>2, ChosenWork
<1>5. Flat' /\ Numbered'
  BY <1>1 DEF Alone, Flat, Numbered
<1> QED  BY <1>1, <1>2, <1>4, <1>5, StepOfOne DEF Quiet

LEMMA ReadStep ==
    ASSUME Alone, NEW w \in Workers, Read(w)
    PROVE  Alone'
<1> DEFINE read == Restrict(finding, Duplicates(Top(w).id))
           frame == Frame(Top(w).id, Top(w).row, read)
           next == Goes(w, "flatten", Append(Below(w), frame))
<1>1. /\ Working(w) /\ \A v \in Workers : ~Free(v) => v = w
      /\ UNCHANGED <<finding, imported>>
      /\ worker' = [worker EXCEPT ![w] = next]
  BY DEF Alone, Read, Busy
<1>2. /\ DOMAIN read = {g \in DOMAIN finding : finding[g].original = Top(w).id}
      /\ frame.id = Top(w).id /\ frame.row = Top(w).row /\ frame.left = read
  BY DuplicatesAre DEF Restrict, Frame
<1> HIDE DEF read, frame
<1>3. /\ worker'[w].task = worker[w].task /\ worker'[w].target = worker[w].target
      /\ worker'[w].rows = worker[w].rows /\ worker'[w].step = "flatten"
      /\ worker'[w].stack = Append(Below(w), frame)
  BY <1>1 DEF Alone, Goes, At
<1> HIDE DEF next
<1>4. RowsAreFresh(w)'
  BY <1>1, <1>3 DEF Working, RowsAreFresh
<1>5. \A g \in DOMAIN read : finding[g].duplicate
  <2>1. Top(w).id \in DOMAIN finding
    BY <1>1, OneCall, TwoCalls DEF Working, RowsAreFresh, Outer, Inner
  <2> QED  BY <1>2, <2>1, NoneIsNobody DEF Alone, Flat
<1>8. Flat' /\ Numbered'
  BY <1>1 DEF Alone, Flat, Numbered
<1> SUFFICES Working(w)'
  BY <1>1, <1>8, StepOfOne
<1>6. CASE worker[w].stack = <<worker[w].stack[1]>>
  <2>1. Top(w) = worker[w].stack[1] /\ Below(w) = <<>>
    BY <1>6, OneCall
  <2>2. /\ worker'[w].stack = <<frame>>
        /\ worker'[w].stack[1] = frame
        /\ worker'[w].stack = <<worker'[w].stack[1]>>
    BY <2>1, <1>3, Pushed
  <2>3. Outer(w)'
    BY <1>1, <1>2, <1>3, <1>5, <2>1, <2>2 DEF Working, Outer
  <2> QED  BY <1>4, <2>2, <2>3 DEF Working
<1>7. CASE /\ worker[w].stack = <<worker[w].stack[1], worker[w].stack[2]>>
           /\ Inner(w)
  <2>1. /\ Top(w) = worker[w].stack[2] /\ Below(w) = <<worker[w].stack[1]>>
        /\ Len(worker[w].stack) = 2
    BY <1>7, TwoCalls
  <2>2. /\ worker'[w].stack = <<worker[w].stack[1], frame>>
        /\ worker'[w].stack[1] = worker[w].stack[1] /\ worker'[w].stack[2] = frame
        /\ worker'[w].stack = <<worker'[w].stack[1], worker'[w].stack[2]>>
    BY <2>1, <1>3, Pushed
  <2>3. Outer(w)'
    BY <1>1, <1>3, <2>1, <2>2 DEF Working, Outer
  <2>4. DOMAIN read = {}
    BY <1>2, <1>7, <2>1, NoneIsNobody DEF Inner, Alone, Flat
  <2>5. Inner(w)'
    BY <1>1, <1>2, <1>3, <1>7, <2>1, <2>2, <2>4 DEF Inner
  <2> QED  BY <1>4, <2>2, <2>3, <2>5 DEF Working
<1> QED  BY <1>1, <1>6, <1>7 DEF Working

\* A duplicate of the task leaves it, and is the next to be attached.
LEMMA FlattenStep ==
    ASSUME Alone, NEW w \in Workers, NEW f, Flatten(w, f)
    PROVE  Alone'
<1> DEFINE at == worker[w]
           later == {h \in DOMAIN at.rows : h > at.target}
           rows == Restrict(at.rows, later)
           kid == Frame(f, Attached(Top(w).left[f], at.target), <<>>)
           rest == Frame(Top(w).id, Top(w).row, Without(Top(w).left, f))
           next == Goes(w, "read", Append(Append(Below(w), rest), kid))
<1>1. /\ Working(w) /\ \A v \in Workers : ~Free(v) => v = w
      /\ UNCHANGED imported /\ worker[w].step = "flatten"
      /\ f \in DOMAIN Top(w).left
  BY DEF Alone, Flatten, Busy, Highest
<1>2. /\ worker[w].stack = <<worker[w].stack[1]>>
      /\ Top(w) = worker[w].stack[1] /\ Below(w) = <<>>
  BY <1>1, OneCall, TwoCalls DEF Working, Inner
<1>3. /\ f \in DOMAIN finding /\ finding[f].duplicate
      /\ Top(w).id = worker[w].task
      /\ Top(w).row.duplicate /\ Top(w).row.original = worker[w].target
      /\ \A g \in DOMAIN Top(w).left : g \in DOMAIN finding /\ finding[g].duplicate
      /\ \A g \in DOMAIN finding :
             finding[g].original = worker[w].task => g \in DOMAIN Top(w).left
  BY <1>1, <1>2 DEF Working, Outer
<1>4. /\ DOMAIN finding' = DOMAIN finding
      /\ \A g \in DOMAIN finding :
             IF g = f /\ finding[f].original = worker[w].task
             THEN finding'[g].duplicate /\ finding'[g].original = None
             ELSE finding'[g] = finding[g]
  <2>1. CASE f \in Duplicates(Top(w).id)
    <3> DEFINE r == Removed(finding[f])
    <3>1. Put(f, r) /\ finding[f].original = worker[w].task
      BY <2>1, <1>3, DuplicatesAre DEF Flatten
    <3>2. r.duplicate /\ r.original = None
      BY <1>3 DEF Removed, Row
    <3> HIDE DEF r
    <3> QED  BY <1>3, <3>1, <3>2, PutIs
  <2>2. CASE f \notin Duplicates(Top(w).id)
    BY <2>2, <1>3, DuplicatesAre DEF Flatten
  <2> QED  BY <2>1, <2>2
<1>5. Flat' /\ Numbered'
  BY <1>1, <1>3, <1>4 DEF Alone, Flat, Numbered
<1>6. \A g \in DOMAIN worker[w].rows :
          /\ g \in DOMAIN finding /\ g # worker[w].task
          /\ worker[w].rows[g] = finding'[g] /\ ~finding'[g].duplicate
  BY <1>1, <1>3, <1>4 DEF Working, RowsAreFresh
<1>7. /\ DOMAIN rows \subseteq DOMAIN worker[w].rows
      /\ \A g \in DOMAIN rows : rows[g] = worker[w].rows[g]
  BY DEF Restrict
<1>8. ASSUME NEW begun \in Chosen(at.task, at.stack[1].row, rows),
             worker' = [worker EXCEPT ![w] = begun]
      PROVE  Alone'
  <2> HIDE DEF rows
  <2>1. CASE begun = Idle
    BY <2>1, <1>1, <1>5, <1>8, StepOfOne DEF Idle
  <2>2. ASSUME NEW target \in DOMAIN rows,
               begun = At(at.task, target, rows, "read",
                          <<Frame(at.task, Attached(at.stack[1].row, target), <<>>)>>)
        PROVE  Alone'
    <3>1. worker'[w] = Begun(at.task, target, rows,
                             Frame(at.task, Attached(at.stack[1].row, target), <<>>))
      BY <1>8, <2>2 DEF Alone, Begun
    <3>2. at.task \in DOMAIN finding
      BY <1>1 DEF Working, RowsAreFresh
    <3>3. Working(w)'
      <4> DEFINE task == at.task
                 row == at.stack[1].row
      <4>1. /\ task \in DOMAIN finding
            /\ worker'[w] = Begun(task, target, rows, Frame(task, Attached(row, target), <<>>))
            /\ \A g \in DOMAIN rows :
                   /\ g \in DOMAIN finding /\ g # task
                   /\ rows[g] = finding'[g] /\ ~finding'[g].duplicate
        BY <3>1, <3>2, <1>6, <1>7
      <4> HIDE DEF task, row
      <4> QED  BY <4>1, <1>4, BegunWorks
    <3> QED  BY <1>1, <1>5, <1>8, <3>3, StepOfOne
  <2> QED  BY <2>1, <2>2, ChosenWork
<1>9. ASSUME worker' = [worker EXCEPT ![w] = next]
      PROVE  Alone'
  <2>1. /\ kid.id = f /\ kid.row.duplicate /\ kid.row.original = at.target
        /\ rest.id = Top(w).id /\ rest.row = Top(w).row
        /\ DOMAIN rest.left = DOMAIN Top(w).left \ {f}
    BY DEF Frame, Attached, Row, Without, Restrict
  <2> HIDE DEF kid, rest
  <2>2. /\ worker'[w].task = worker[w].task /\ worker'[w].target = worker[w].target
        /\ worker'[w].rows = worker[w].rows /\ worker'[w].step = "read"
        /\ worker'[w].stack = Append(Append(Below(w), rest), kid)
    BY <1>9 DEF Alone, Goes, At
  <2> HIDE DEF next
  <2>3. /\ worker'[w].stack[1] = rest /\ worker'[w].stack[2] = kid
        /\ Len(worker'[w].stack) = 2
        /\ worker'[w].stack = <<worker'[w].stack[1], worker'[w].stack[2]>>
    BY <1>2, <2>2, Pushed
  <2>4. RowsAreFresh(w)'
    BY <1>1, <1>4, <1>6, <2>2 DEF Working, RowsAreFresh
  <2>5. Outer(w)'
    <3>1. \A g \in DOMAIN rest.left : g \in DOMAIN finding' /\ finding'[g].duplicate
      BY <1>3, <1>4, <2>1
    <3>2. \A g \in DOMAIN finding' :
              finding'[g].original = worker[w].task => g \in DOMAIN rest.left
      <4>1. worker[w].task # None
        BY <1>1, NoneIsNobody DEF Alone, Working, RowsAreFresh
      <4> QED  BY <4>1, <1>3, <1>4, <2>1
    <3> QED  BY <1>3, <2>1, <2>2, <2>3, <3>1, <3>2 DEF Outer
  <2>6. Inner(w)'
    BY <1>3, <1>4, <2>1, <2>2, <2>3 DEF Inner
  <2>7. Working(w)'
    BY <2>3, <2>4, <2>5, <2>6 DEF Working
  <2> QED  BY <1>1, <1>5, <1>9, <2>7, StepOfOne
<1> QED  BY <1>8, <1>9 DEF Flatten

LEMMA SaveNewStep ==
    ASSUME Alone, NEW w \in Workers, SaveNew(w)
    PROVE  Alone'
<1> DEFINE f == Top(w).id
           r == Top(w).row
           next == Goes(w, "saved", worker[w].stack)
<1>1. /\ Working(w) /\ \A v \in Workers : ~Free(v) => v = w
      /\ UNCHANGED imported /\ worker[w].step = "flatten"
      /\ DOMAIN Top(w).left = {} /\ Put(f, r)
      /\ worker' = [worker EXCEPT ![w] = next]
  BY DEF Alone, SaveNew, Busy
<1>2. /\ worker[w].target \in DOMAIN finding /\ ~finding[worker[w].target].duplicate
      /\ worker[w].target # worker[w].task /\ worker[w].task \in DOMAIN finding
  BY <1>1 DEF Working, RowsAreFresh
<1>3. /\ f \in DOMAIN finding /\ r.duplicate /\ r.original = worker[w].target
      /\ f = worker[w].task \/ finding[f].duplicate
      /\ \A g \in DOMAIN finding : finding[g].original # f
  <2>1. CASE worker[w].stack = <<worker[w].stack[1]>>
    BY <1>1, <1>2, <2>1, OneCall DEF Working, Outer
  <2>2. CASE /\ worker[w].stack = <<worker[w].stack[1], worker[w].stack[2]>>
             /\ Inner(w)
    <3>1. Top(w) = worker[w].stack[2]
      BY <2>2, TwoCalls
    <3> QED  BY <2>2, <3>1, NoneIsNobody DEF Inner, Alone, Flat
  <2> QED  BY <1>1, <2>1, <2>2 DEF Working
<1> HIDE DEF f, r
<1>4. worker[w].target # f
  BY <1>2, <1>3
<1>5. Flat' /\ Numbered'
  BY <1>1, <1>2, <1>3, <1>4, BecomesDuplicate
<1>6. /\ DOMAIN finding' = DOMAIN finding
      /\ \A g \in DOMAIN finding : finding'[g] = IF g = f THEN r ELSE finding[g]
  BY <1>1, <1>3, PutIs
<1>7. /\ worker'[w].task = worker[w].task /\ worker'[w].target = worker[w].target
      /\ worker'[w].rows = worker[w].rows /\ worker'[w].step = "saved"
      /\ worker'[w].stack = worker[w].stack
  BY <1>1 DEF Alone, Goes, At
<1> HIDE DEF next
<1>8. RowsAreFresh(w)'
  BY <1>1, <1>3, <1>6, <1>7 DEF Working, RowsAreFresh
<1>9. Outer(w)'
  BY <1>1, <1>2, <1>3, <1>6, <1>7 DEF Working, Outer
<1>10. Inner(w) => Inner(w)'
  BY <1>3, <1>6, <1>7 DEF Inner
<1>11. Working(w)'
  BY <1>1, <1>7, <1>8, <1>9, <1>10 DEF Working
<1> QED  BY <1>1, <1>5, <1>11, StepOfOne

\* The original is saved as it was read, which changes nothing.
LEMMA SaveExistingStep ==
    ASSUME Alone, NEW w \in Workers, SaveExisting(w)
    PROVE  Alone'
<1> DEFINE next == IF Below(w) = <<>> THEN Idle ELSE Goes(w, "flatten", Below(w))
<1>1. /\ Working(w) /\ \A v \in Workers : ~Free(v) => v = w
      /\ UNCHANGED imported
      /\ Put(worker[w].target, worker[w].rows[worker[w].target])
      /\ worker' = [worker EXCEPT ![w] = next]
  BY DEF Alone, SaveExisting, Busy
<1>2. /\ worker[w].target \in DOMAIN finding
      /\ worker[w].rows[worker[w].target] = finding[worker[w].target]
  BY <1>1 DEF Working, RowsAreFresh
<1>3. /\ DOMAIN finding' = DOMAIN finding
      /\ \A g \in DOMAIN finding : finding'[g] = finding[g]
  <2> DEFINE target == worker[w].target
             r == worker[w].rows[target]
  <2>1. target \in DOMAIN finding /\ r = finding[target] /\ Put(target, r)
    BY <1>1, <1>2
  <2> HIDE DEF target, r
  <2> QED  BY <2>1, PutIs
<1>4. Flat' /\ Numbered'
  BY <1>1, <1>3 DEF Alone, Flat, Numbered
<1>5. CASE worker[w].stack = <<worker[w].stack[1]>>
  <2>1. next.task = None
    BY <1>5, OneCall DEF Idle
  <2> HIDE DEF next
  <2> QED  BY <2>1, <1>1, <1>4, StepOfOne
<1>6. CASE /\ worker[w].stack = <<worker[w].stack[1], worker[w].stack[2]>>
           /\ Inner(w)
  <2>1. /\ Below(w) = <<worker[w].stack[1]>> /\ Len(worker[w].stack) = 2
        /\ Below(w) # <<>>
    BY <1>6, TwoCalls
  <2>2. /\ worker'[w].task = worker[w].task /\ worker'[w].target = worker[w].target
        /\ worker'[w].rows = worker[w].rows /\ worker'[w].step = "flatten"
        /\ worker'[w].stack = <<worker[w].stack[1]>>
    BY <1>1, <2>1 DEF Alone, Goes, At
  <2> HIDE DEF next
  <2>3. /\ worker'[w].stack[1] = worker[w].stack[1]
        /\ worker'[w].stack = <<worker'[w].stack[1]>>
    BY <2>2, Pushed
  <2>4. RowsAreFresh(w)'
    BY <1>1, <1>3, <2>2 DEF Working, RowsAreFresh
  <2>5. Outer(w)'
    BY <1>1, <1>3, <2>1, <2>2, <2>3 DEF Working, Outer
  <2>6. Working(w)'
    BY <2>3, <2>4, <2>5 DEF Working
  <2> QED  BY <1>1, <1>4, <2>6, StepOfOne
<1> QED  BY <1>1, <1>5, <1>6 DEF Working

-----------------------------------------------------------------------------
\* There is nothing to repair as long as nobody got in another's way.
LEMMA NothingToFix ==
    ASSUME Alone, FixLoops
    PROVE  FALSE
<1>1. PICK g \in DOMAIN finding :
         finding[g].original # None /\ Graph[Graph[g]] # None
  BY DEF FixLoops, Chained, Graph
<1> DEFINE f == finding[g].original
<1>2. f \in DOMAIN finding /\ finding[f].original = None
  BY <1>1 DEF Alone, Flat
<1>3. Graph[Graph[g]] = finding[f].original
  BY <1>2 DEF Graph
<1> QED  BY <1>1, <1>2, <1>3

LEMMA WorkerStepAlone ==
    ASSUME Alone, NEW w \in Workers, WorkerStep(w)
    PROVE  Alone'
BY ReadStep, FlattenStep, SaveNewStep, SaveExistingStep DEF WorkerStep

LEMMA InitInv == Init => Inv
<1> SUFFICES ASSUME Init
             PROVE  Alone
  BY DEF Inv
<1>1. DOMAIN finding = {} /\ imported \in Nat
  BY DEF Init
<1>2. \A w \in Workers : Free(w)
  BY DEF Init, Free, Idle
<1>3. DOMAIN worker = Workers
  BY DEF Init
<1> QED  BY <1>1, <1>2, <1>3 DEF Alone, Flat, Numbered

LEMMA NextInv == Inv /\ [Next]_vars => Inv'
<1> SUFFICES ASSUME Inv, [Next]_vars, ~overlap'
             PROVE  Alone'
  BY DEF Inv
<1>1. CASE PageStep
  BY <1>1, PageStepAlone
<1>2. CASE Import
  BY <1>2, ImportStep DEF Inv, Import
<1>3. CASE FixLoops
  BY <1>3, NothingToFix DEF Inv, FixLoops
<1>4. ASSUME NEW w \in Workers, NEW f \in DOMAIN finding, Load(w, f)
      PROVE  Alone'
  BY <1>4, LoadStep
<1>5. ASSUME NEW w \in Workers, WorkerStep(w)
      PROVE  Alone'
  BY <1>5, WorkerStepAlone
     DEF Inv, WorkerStep, Read, Flatten, SaveNew, SaveExisting
<1>6. CASE UNCHANGED vars
  BY <1>6 DEF Inv, vars, Alone, Flat, Numbered, Free, Working, RowsAreFresh, Outer, Inner
<1> QED  BY <1>1, <1>2, <1>3, <1>4, <1>5, <1>6 DEF Next

\* A duplicate points to a finding that is there and is no duplicate, however
\* many findings, workers and acts there are, and in whatever order things
\* happen, while workers and people keep out of each other's way.
THEOREM ClustersAreFlat == Spec => []AloneIsSound
<1>1. Inv => AloneIsSound
  BY DEF Inv, Alone, Flat, AloneIsSound
<1> QED  BY InitInv, NextInv, <1>1, PTL DEF Spec

-----------------------------------------------------------------------------
(***************************************************************************)
(* Findings that nobody touches are never mitigated, so that no candidate  *)
(* is refused, and of two that are no duplicates one is still to be done.  *)
(***************************************************************************)
Unmitigated(frame) ==
    /\ ~frame.row.is_mitigated
    /\ \A g \in DOMAIN frame.left : ~frame.left[g].is_mitigated

UntouchedWork(w) ==
    /\ Unmitigated(worker[w].stack[1])
    /\ Len(worker[w].stack) = 2 => Unmitigated(worker[w].stack[2])
    /\ worker[w].step = "saved" /\ Len(worker[w].stack) = 1 =>
           finding[worker[w].task].duplicate

Pending(f) == f \in queue \/ \E w \in Workers : ~Free(w) /\ worker[w].task = f

OneLeft ==
    \A f, g \in DOMAIN finding :
        f = g \/ finding[f].duplicate \/ finding[g].duplicate \/ Pending(f) \/ Pending(g)

Untouched ==
    /\ \A f \in DOMAIN finding : ~finding[f].is_mitigated
    /\ \A w \in Workers : ~Free(w) => UntouchedWork(w)
    /\ OneLeft

UntouchedInv == acts \in Nat /\ (~overlap /\ acts = 0 => Untouched)

\* A step of the one worker that is at it.
LEMMA UntouchedStep ==
    ASSUME Alone, Untouched, NEW w \in Workers, ~Free(w), NEW next,
           worker' = [worker EXCEPT ![w] = next], UNCHANGED queue,
           DOMAIN finding' = DOMAIN finding,
           \A f \in DOMAIN finding : ~finding'[f].is_mitigated,
           \A f \in DOMAIN finding : finding[f].duplicate => finding'[f].duplicate,
           next.task # None => next.task = worker[w].task /\ UntouchedWork(w)',
           next.task = None => finding'[worker[w].task].duplicate
    PROVE  Untouched'
<1>1. /\ \A v \in Workers : ~Free(v) => v = w
      /\ \A v \in Workers : worker'[v] = IF v = w THEN next ELSE worker[v]
  BY DEF Alone
<1>2. \A v \in Workers : ~Free(v)' => v = w /\ next.task # None
  BY <1>1 DEF Free
<1>3. \A f \in DOMAIN finding :
          ~finding'[f].duplicate /\ Pending(f) => Pending(f)'
  <2> SUFFICES ASSUME NEW f \in DOMAIN finding, ~finding'[f].duplicate, Pending(f),
                      f \notin queue
               PROVE  Pending(f)'
    BY DEF Pending
  <2>1. worker[w].task = f
    BY <1>1 DEF Pending
  <2>2. worker'[w].task = f /\ worker'[w].task # None
    BY <2>1, <1>1 DEF Free
  <2> QED  BY <2>2 DEF Pending, Free
<1>4. OneLeft'
  BY <1>3 DEF Untouched, OneLeft
<1> QED  BY <1>2, <1>4 DEF Untouched

\* A worker that begins with a candidate for a finding that is not mitigated.
LEMMA BegunUntouched ==
    ASSUME NEW w, NEW f, NEW rows, NEW target, NEW row, ~row.is_mitigated,
           worker'[w] = At(f, target, rows, "read",
                           <<Frame(f, Attached(row, target), <<>>)>>)
    PROVE  UntouchedWork(w)'
<1> DEFINE frame == Frame(f, Attached(row, target), <<>>)
<1>1. Unmitigated(frame)
  BY DEF Unmitigated, Frame, Attached, Row
<1> HIDE DEF frame
<1>2. worker'[w].step = "read" /\ worker'[w].stack = <<frame>>
  BY AtFields DEF frame
<1>3. worker'[w].stack[1] = frame /\ Len(worker'[w].stack) = 1
  BY <1>2
<1> QED  BY <1>1, <1>2, <1>3 DEF UntouchedWork, Unmitigated

\* A new finding is queued.
LEMMA ImportUntouched ==
    ASSUME Alone, Untouched, Import
    PROVE  Untouched'
<1> DEFINE n == imported + 1
           r == Row(FALSE, None, TRUE, FALSE)
<1>1. imported' = n /\ Put(n, r) /\ queue' = queue \cup {n} /\ UNCHANGED worker
  BY DEF Import
<1>2. ~r.is_mitigated
  BY DEF Row
<1> HIDE DEF n, r
<1>3. n \notin DOMAIN finding
  <2>1. imported \in Nat => imported + 1 \notin 1 .. imported
    OBVIOUS
  <2> QED  BY <2>1 DEF n, Alone, Numbered
<1>4. /\ DOMAIN finding' = DOMAIN finding \cup {n}
      /\ \A g \in DOMAIN finding' : finding'[g] = IF g = n THEN r ELSE finding[g]
  BY <1>1 DEF Put
<1>5. \A w \in Workers : ~Free(w) => UntouchedWork(w)'
  <2> SUFFICES ASSUME NEW w \in Workers, ~Free(w)
               PROVE  UntouchedWork(w)'
    OBVIOUS
  <2>1. UntouchedWork(w) /\ worker[w].task \in DOMAIN finding
    BY DEF Untouched, Alone, Working, RowsAreFresh
  <2> QED  BY <2>1, <1>1, <1>3, <1>4 DEF UntouchedWork
<1>6. OneLeft'
  <2>1. \A f \in DOMAIN finding : Pending(f) => Pending(f)'
    BY <1>1 DEF Pending, Free
  <2>2. \A f \in {n} : Pending(f)'
    BY <1>1 DEF Pending
  <2> QED  BY <1>3, <1>4, <2>1, <2>2 DEF Untouched, OneLeft
<1> QED  BY <1>1, <1>2, <1>4, <1>5, <1>6 DEF Untouched, Free

\* Nothing is refused: the worker gives up only if there is no other finding
\* that is no duplicate.
LEMMA LoadUntouched ==
    ASSUME Alone, Untouched, Quiet, NEW w \in Workers, NEW f \in DOMAIN finding,
           Load(w, f)
    PROVE  Untouched'
<1> DEFINE rows == Restrict(finding, Candidates(f))
<1>1. /\ UNCHANGED finding /\ queue' = queue \ {f}
      /\ f # None
  BY NoneIsNobody DEF Load, Alone
<1>2. PICK next \in Chosen(f, finding[f], rows) : worker' = [worker EXCEPT ![w] = next]
  BY DEF Load
<1>3. /\ DOMAIN rows = Candidates(f)
      /\ \A g \in DOMAIN rows : rows[g] = finding[g]
  BY DEF Restrict
<1>4. Acceptable(finding[f], rows) = Candidates(f)
  <2> HIDE DEF rows
  <2> QED  BY <1>3 DEF Acceptable, Mitigated, Untouched, Candidates
<1> HIDE DEF rows
<1>5. \A v \in Workers : worker'[v] = IF v = w THEN next ELSE worker[v]
  BY <1>2 DEF Alone
<1>6. CASE Candidates(f) = {}
  <2>1. next = Idle
    BY <1>2, <1>4, <1>6 DEF Chosen
  <2>2. \A v \in Workers : Free(v)'
    BY <1>5, <2>1 DEF Idle, Free, Quiet
  <2>3. \A g \in DOMAIN finding : g # f => finding[g].duplicate
    BY <1>6 DEF Candidates
  <2>4. OneLeft'
    BY <1>1, <2>3 DEF OneLeft
  <2> QED  BY <1>1, <2>2, <2>4 DEF Untouched
<1>7. CASE Candidates(f) # {}
  <2>1. PICK target : next = At(f, target, rows, "read",
                                <<Frame(f, Attached(finding[f], target), <<>>)>>)
    BY <1>2, <1>4, <1>7 DEF Chosen
  <2>2. UntouchedWork(w)'
    <3>1. worker'[w] = At(f, target, rows, "read",
                          <<Frame(f, Attached(finding[f], target), <<>>)>>)
      BY <1>5, <2>1
    <3>2. ~finding[f].is_mitigated
      BY DEF Untouched
    <3> QED  BY <3>1, <3>2, BegunUntouched
  <2>3. worker'[w].task = f /\ ~Free(w)'
    BY <1>1, <1>5, <2>1, AtFields DEF Free
  <2>4. \A v \in Workers : ~Free(v)' => v = w
    BY <1>5 DEF Free, Quiet
  <2>5. \A g \in DOMAIN finding : Pending(g) => Pending(g)'
    BY <1>1, <2>3 DEF Pending, Quiet
  <2>6. OneLeft'
    BY <1>1, <2>5 DEF Untouched, OneLeft
  <2> QED  BY <1>1, <2>2, <2>4, <2>6 DEF Untouched
<1> QED  BY <1>6, <1>7

LEMMA ReadUntouched ==
    ASSUME Alone, Untouched, NEW w \in Workers, Read(w)
    PROVE  Untouched'
<1> DEFINE read == Restrict(finding, Duplicates(Top(w).id))
           frame == Frame(Top(w).id, Top(w).row, read)
           next == Goes(w, "flatten", Append(Below(w), frame))
<1>1. /\ Working(w) /\ UntouchedWork(w) /\ ~Free(w)
      /\ UNCHANGED <<finding, queue>>
      /\ worker' = [worker EXCEPT ![w] = next]
  BY DEF Alone, Untouched, Read, Busy
<1>2. Unmitigated(Top(w)) => Unmitigated(frame)
  BY DuplicatesAre DEF Restrict, Frame, Unmitigated, Untouched
<1> HIDE DEF read, frame
<1>3. /\ next.task = worker[w].task /\ worker'[w].step = "flatten"
      /\ worker'[w].stack = Append(Below(w), frame)
  BY <1>1 DEF Alone, Goes, At
<1> HIDE DEF next
<1>4. UntouchedWork(w)'
  <2>1. CASE worker[w].stack = <<worker[w].stack[1]>>
    <3>1. /\ Top(w) = worker[w].stack[1]
          /\ worker'[w].stack[1] = frame /\ Len(worker'[w].stack) = 1
      BY <2>1, <1>3, OneCall, Pushed
    <3> QED  BY <3>1, <1>1, <1>2, <1>3 DEF UntouchedWork, Unmitigated
  <2>2. CASE worker[w].stack = <<worker[w].stack[1], worker[w].stack[2]>>
    <3>1. /\ Top(w) = worker[w].stack[2] /\ Len(worker[w].stack) = 2
          /\ worker'[w].stack[1] = worker[w].stack[1]
          /\ worker'[w].stack[2] = frame /\ Len(worker'[w].stack) = 2
      BY <2>2, <1>3, TwoCalls, Pushed
    <3> QED  BY <3>1, <1>1, <1>2, <1>3 DEF UntouchedWork, Unmitigated
  <2> QED  BY <1>1, <2>1, <2>2 DEF Working
<1>5. \A f \in DOMAIN finding : ~finding'[f].is_mitigated
  BY <1>1 DEF Untouched
<1> QED  BY <1>1, <1>3, <1>4, <1>5, UntouchedStep DEF Free

\* The duplicate that leaves is not the target, and the target is not
\* mitigated: set_duplicate does not refuse it.
LEMMA FlattenUntouched ==
    ASSUME Alone, Untouched, NEW w \in Workers, NEW f, Flatten(w, f)
    PROVE  Untouched'
<1> DEFINE kid == Frame(f, Attached(Top(w).left[f], worker[w].target), <<>>)
           rest == Frame(Top(w).id, Top(w).row, Without(Top(w).left, f))
           next == Goes(w, "read", Append(Append(Below(w), rest), kid))
<1>1. /\ Working(w) /\ UntouchedWork(w) /\ ~Free(w) /\ UNCHANGED queue
      /\ worker[w].step = "flatten" /\ f \in DOMAIN Top(w).left
  BY DEF Alone, Untouched, Flatten, Busy, Highest
<1>2. /\ worker[w].stack = <<worker[w].stack[1]>>
      /\ Top(w) = worker[w].stack[1] /\ Below(w) = <<>>
  BY <1>1, OneCall, TwoCalls DEF Working, Inner
<1>3. f \in DOMAIN finding /\ finding[f].duplicate
  BY <1>1, <1>2 DEF Working, Outer
<1>4. ~Refused(w, f)
  BY <1>1, <1>3 DEF Refused, Working, RowsAreFresh, Mitigated, Untouched
<1>5. worker' = [worker EXCEPT ![w] = next]
  BY <1>4 DEF Flatten
<1>6. /\ DOMAIN finding' = DOMAIN finding
      /\ \A g \in DOMAIN finding :
             /\ ~finding'[g].is_mitigated
             /\ finding[g].duplicate => finding'[g].duplicate
  <2>1. CASE UNCHANGED finding
    BY <2>1 DEF Untouched
  <2>2. CASE Put(f, Removed(finding[f]))
    <3> DEFINE r == Removed(finding[f])
    <3>1. r.duplicate /\ ~r.is_mitigated
      BY <1>3 DEF Removed, Row, Untouched
    <3>2. Put(f, r)
      BY <2>2
    <3> HIDE DEF r
    <3> QED  BY <1>3, <3>1, <3>2, PutIs DEF Untouched
  <2> QED  BY <2>1, <2>2 DEF Flatten
<1>7. Unmitigated(kid) /\ Unmitigated(rest)
  <2>1. Unmitigated(Top(w))
    BY <1>1, <1>2 DEF UntouchedWork
  <2> QED  BY <2>1, <1>1 DEF Unmitigated, Frame, Attached, Row, Without, Restrict
<1> HIDE DEF kid, rest
<1>8. /\ next.task = worker[w].task /\ worker'[w].step = "read"
      /\ worker'[w].stack = Append(Append(Below(w), rest), kid)
  BY <1>5 DEF Alone, Goes, At
<1> HIDE DEF next
<1>9. /\ worker'[w].stack[1] = rest /\ worker'[w].stack[2] = kid
      /\ Len(worker'[w].stack) = 2
  BY <1>2, <1>8, Pushed
<1>10. UntouchedWork(w)'
  BY <1>7, <1>8, <1>9 DEF UntouchedWork, Unmitigated
<1> QED  BY <1>1, <1>5, <1>6, <1>8, <1>10, UntouchedStep DEF Free

LEMMA SaveNewUntouched ==
    ASSUME Alone, Untouched, NEW w \in Workers, SaveNew(w)
    PROVE  Untouched'
<1> DEFINE f == Top(w).id
           r == Top(w).row
           next == Goes(w, "saved", worker[w].stack)
<1>1. /\ Working(w) /\ UntouchedWork(w) /\ ~Free(w) /\ UNCHANGED queue
      /\ Put(f, r) /\ worker' = [worker EXCEPT ![w] = next]
  BY DEF Alone, Untouched, SaveNew, Busy
<1>2. /\ f \in DOMAIN finding /\ r.duplicate /\ ~r.is_mitigated
      /\ Len(worker[w].stack) = 1 => f = worker[w].task
  <2>1. CASE worker[w].stack = <<worker[w].stack[1]>>
    BY <1>1, <2>1, OneCall DEF Working, Outer, RowsAreFresh, UntouchedWork, Unmitigated
  <2>2. CASE /\ worker[w].stack = <<worker[w].stack[1], worker[w].stack[2]>>
             /\ Inner(w)
    <3>1. Top(w) = worker[w].stack[2] /\ Len(worker[w].stack) = 2
      BY <2>2, TwoCalls
    <3>2. f \in DOMAIN finding /\ r.duplicate
      BY <2>2, <3>1 DEF Inner
    <3>3. ~r.is_mitigated
      BY <1>1, <3>1 DEF UntouchedWork, Unmitigated
    <3> QED  BY <3>1, <3>2, <3>3
  <2> QED  BY <1>1, <2>1, <2>2 DEF Working
<1> HIDE DEF f, r
<1>3. /\ DOMAIN finding' = DOMAIN finding
      /\ \A g \in DOMAIN finding : finding'[g] = IF g = f THEN r ELSE finding[g]
  BY <1>1, <1>2, PutIs
<1>4. \A g \in DOMAIN finding :
          /\ ~finding'[g].is_mitigated
          /\ finding[g].duplicate => finding'[g].duplicate
  BY <1>2, <1>3 DEF Untouched
<1>5. /\ next.task = worker[w].task /\ worker'[w].task = worker[w].task
      /\ worker'[w].step = "saved" /\ worker'[w].stack = worker[w].stack
  BY <1>1 DEF Alone, Goes, At
<1> HIDE DEF next
<1>6. UntouchedWork(w)'
  BY <1>1, <1>2, <1>3, <1>5 DEF UntouchedWork, Unmitigated
<1> QED  BY <1>1, <1>3, <1>4, <1>5, <1>6, UntouchedStep DEF Free

LEMMA SaveExistingUntouched ==
    ASSUME Alone, Untouched, NEW w \in Workers, SaveExisting(w)
    PROVE  Untouched'
<1> DEFINE next == IF Below(w) = <<>> THEN Idle ELSE Goes(w, "flatten", Below(w))
<1>1. /\ Working(w) /\ UntouchedWork(w) /\ ~Free(w) /\ UNCHANGED queue
      /\ Put(worker[w].target, worker[w].rows[worker[w].target])
      /\ worker' = [worker EXCEPT ![w] = next]
      /\ worker[w].step = "saved"
  BY DEF Alone, Untouched, SaveExisting, Busy
<1>2. /\ worker[w].target \in DOMAIN finding
      /\ worker[w].rows[worker[w].target] = finding[worker[w].target]
      /\ worker[w].task \in DOMAIN finding
  BY <1>1 DEF Working, RowsAreFresh
<1>3. /\ DOMAIN finding' = DOMAIN finding
      /\ \A g \in DOMAIN finding : finding'[g] = finding[g]
  <2> DEFINE target == worker[w].target
             r == worker[w].rows[target]
  <2>1. target \in DOMAIN finding /\ r = finding[target] /\ Put(target, r)
    BY <1>1, <1>2
  <2> HIDE DEF target, r
  <2> QED  BY <2>1, PutIs
<1>4. \A g \in DOMAIN finding :
          /\ ~finding'[g].is_mitigated
          /\ finding[g].duplicate => finding'[g].duplicate
  BY <1>3 DEF Untouched
<1>5. CASE worker[w].stack = <<worker[w].stack[1]>>
  <2>1. next.task = None
    BY <1>5, OneCall DEF Idle
  <2>2. finding'[worker[w].task].duplicate
    BY <1>1, <1>2, <1>3, <1>5, OneCall DEF UntouchedWork
  <2> HIDE DEF next
  <2> QED  BY <2>1, <2>2, <1>1, <1>3, <1>4, UntouchedStep
<1>6. CASE worker[w].stack = <<worker[w].stack[1], worker[w].stack[2]>>
  <2>1. Below(w) = <<worker[w].stack[1]>> /\ Below(w) # <<>>
    BY <1>6, TwoCalls
  <2>2. /\ next.task = worker[w].task /\ worker'[w].step = "flatten"
        /\ worker'[w].stack = <<worker[w].stack[1]>>
    BY <1>1, <2>1 DEF Alone, Goes, At
  <2> HIDE DEF next
  <2>3. worker'[w].stack[1] = worker[w].stack[1] /\ Len(worker'[w].stack) = 1
    BY <2>2
  <2>4. UntouchedWork(w)'
    BY <1>1, <2>2, <2>3 DEF UntouchedWork, Unmitigated
  <2> QED  BY <1>1, <1>3, <1>4, <2>2, <2>4, UntouchedStep DEF Free
<1> QED  BY <1>1, <1>5, <1>6 DEF Working

\* Before the first import there is nothing to be marked.
LEMMA InitUntouched == Init => UntouchedInv
BY DEF Init, UntouchedInv, Untouched, OneLeft, Free, Idle

\* Every step keeps that those dealt with have one original.
LEMMA NextUntouched == Inv /\ UntouchedInv /\ [Next]_vars => UntouchedInv'
<1> SUFFICES ASSUME Inv, UntouchedInv, [Next]_vars
             PROVE  UntouchedInv'
  OBVIOUS
<1>1. acts' = acts \/ acts' = acts + 1
  BY DEF Next, PageStep, vars
<1>2. acts' \in Nat /\ (acts' = 0 => acts' = acts /\ ~PageStep)
  <2>1. PageStep => acts' = acts + 1
    BY DEF PageStep
  <2> QED  BY <1>1, <2>1 DEF UntouchedInv
<1> SUFFICES ASSUME ~overlap', acts' = 0
             PROVE  Untouched'
  BY <1>2 DEF UntouchedInv
<1>3. ~overlap /\ Alone /\ Untouched
  <2>1. ~overlap
    BY <1>2 DEF Next, vars, Import, FixLoops, Load, WorkerStep, Read, Flatten,
                SaveNew, SaveExisting
  <2> QED  BY <1>2, <2>1 DEF Inv, UntouchedInv
<1>4. CASE Import
  BY <1>3, <1>4, ImportUntouched
<1>5. CASE FixLoops
  BY <1>3, <1>5, NothingToFix
<1>6. ASSUME NEW w \in Workers, NEW f \in DOMAIN finding, Load(w, f)
      PROVE  Untouched'
  BY <1>3, <1>6, LoadUntouched DEF Load
<1>7. ASSUME NEW w \in Workers, WorkerStep(w)
      PROVE  Untouched'
  BY <1>3, <1>7, ReadUntouched, FlattenUntouched, SaveNewUntouched,
     SaveExistingUntouched DEF WorkerStep
<1>8. CASE UNCHANGED vars
  <2>1. \A w \in Workers : ~Free(w) => UntouchedWork(w)'
    BY <1>3, <1>8 DEF vars, Untouched, UntouchedWork, Unmitigated
  <2>2. OneLeft'
    BY <1>3, <1>8 DEF vars, Untouched, OneLeft, Pending, Free
  <2> QED  BY <1>3, <1>8, <2>1, <2>2 DEF vars, Untouched, Free
<1> QED  BY <1>2, <1>4, <1>5, <1>6, <1>7, <1>8 DEF Next

\* Of any number of findings with the same hash code that nobody touches, in
\* whatever order they were imported and taken from the queue, all but one are
\* duplicates once the queue has been worked off by one worker at a time.
THEOREM OneOriginalIsLeft == Spec => []OneOriginal
<1>1. UntouchedInv => OneOriginal
  BY DEF UntouchedInv, Untouched, OneLeft, Pending, OneOriginal, Quiet
<1> QED  BY InitInv, NextInv, InitUntouched, NextUntouched, <1>1, PTL DEF Spec

-----------------------------------------------------------------------------
(***************************************************************************)
(* The recursion of the repair: that there are the functions which its     *)
(* definition chooses, and what all their values keep.                     *)
(***************************************************************************)
\* A set of natural numbers has a least one.
LEMMA LeastNumber ==
    ASSUME NEW S \in SUBSET Nat, S # {}
    PROVE  \E n \in S : \A m \in S : n <= m
<1> DEFINE R == OpToRel(<, Nat)
<1>1. IsWellFoundedOn(R, Nat)
  BY NatLessThanWellFounded
<1>2. \A m, n \in Nat : <<m, n>> \in R <=> m < n
  BY DEF OpToRel
<1> HIDE DEF R
<1>3. PICK n \in S : \A m \in S : <<m, n>> \notin R
  BY <1>1, WFMin
<1>4. \A m \in S : ~(m < n)
  BY <1>2, <1>3
<1> QED  BY <1>3, <1>4

\* Induction over the natural numbers, with a set for what an operator says.
LEMMA NaturalInduction ==
    ASSUME NEW N, 0 \in N, \A n \in Nat : n \in N => n + 1 \in N
    PROVE  Nat \subseteq N
<1> SUFFICES ASSUME NEW m \in Nat, m \notin N
             PROVE  FALSE
  OBVIOUS
<1>1. Nat \ N # {} /\ Nat \ N \in SUBSET Nat
  OBVIOUS
<1>2. PICK n \in Nat \ N : \A k \in Nat \ N : n <= k
  BY <1>1, LeastNumber
<1>3. n # 0 /\ n - 1 \in Nat
  BY <1>2
<1>4. n - 1 \in N /\ (n - 1) + 1 = n
  BY <1>2, <1>3
<1> QED  BY <1>2, <1>3, <1>4

\* The induction over finite sets that the folds below need, with sets for
\* what operators would say.
LEMMA FiniteInduction ==
    ASSUME NEW S, IsFiniteSet(S), NEW Good,
           {} \in Good,
           \A T \in SUBSET S : T # {} =>
               \E x \in T : T \ {x} \in Good => T \in Good
    PROVE  \A T \in SUBSET S : T \in Good
<1> SUFFICES ASSUME NEW U \in SUBSET S, U \notin Good
             PROVE  FALSE
  OBVIOUS
<1> DEFINE bad == {n \in Nat : \E T \in SUBSET S : T \notin Good /\ Cardinality(T) = n}
<1>1. \A T \in SUBSET S : IsFiniteSet(T) /\ Cardinality(T) \in Nat
  BY FS_Subset, FS_CardinalityType
<1>2. bad # {} /\ bad \in SUBSET Nat
  BY <1>1
<1>3. PICK n \in bad : \A m \in bad : n <= m
  BY <1>2, LeastNumber
<1>4. PICK T \in SUBSET S : T \notin Good /\ Cardinality(T) = n
  BY <1>3
<1>5. PICK x \in T : T \ {x} \in Good => T \in Good
  <2>1. T \notin Good
    BY <1>4
  <2>2. T # {}
    <3> SUFFICES ASSUME T = {}
                 PROVE  T \in Good
      BY <2>1
    <3> QED  OBVIOUS
  <2> QED  BY <2>2
<1>6. Cardinality(T \ {x}) = n - 1 /\ T \ {x} \in SUBSET S /\ n \in Nat
  BY <1>1, <1>3, <1>4, FS_RemoveElement
<1>7. n - 1 \in bad
  BY <1>1, <1>4, <1>5, <1>6
<1> QED  BY <1>3, <1>6, <1>7

\* `first` takes an element from each subset of S, and `it` folds the subsets.
Takes(first, S) == \A T \in SUBSET S : T # {} => first[T] \in T

Folds(it, S, base, step, first) ==
    \A T \in SUBSET S :
        it[T] = IF T = {} THEN base ELSE step[first[T]][it[T \ {first[T]}]]

\* There is a function of the subsets of a finite set that takes one element
\* after the other.
LEMMA FoldExists ==
    ASSUME NEW S, IsFiniteSet(S), NEW V, NEW base \in V,
           NEW step \in [S -> [V -> V]],
           NEW first, Takes(first, S)
    PROVE  \E it \in [SUBSET S -> V] : Folds(it, S, base, step, first)
<1> DEFINE upTo(n) == {T \in SUBSET S : Cardinality(T) <= n}
           next(it, T) == IF T = {} THEN base ELSE step[first[T]][it[T \ {first[T]}]]
           Fits(it, n) == it \in [upTo(n) -> V] /\ \A T \in upTo(n) : it[T] = next(it, T)
           N == {n \in Nat : \E it : Fits(it, n)}
<1>1. \A T \in SUBSET S : IsFiniteSet(T) /\ Cardinality(T) \in Nat
  BY FS_Subset, FS_CardinalityType
<1>2. 0 \in N
  <2> DEFINE it == [T \in upTo(0) |-> base]
  <2>1. \A T \in upTo(0) : T = {}
    BY <1>1, FS_EmptySet
  <2>2. Fits(it, 0)
    BY <2>1
  <2> QED  BY <2>2
<1>3. ASSUME NEW n \in Nat, n \in N
      PROVE  n + 1 \in N
  <2>1. n + 1 \in Nat
    OBVIOUS
  <2>2. PICK it : Fits(it, n)
    BY <1>3
  <2> DEFINE more == [T \in upTo(n + 1) |-> next(it, T)]
  <2>3. ASSUME NEW T \in upTo(n + 1), T # {}
        PROVE  first[T] \in S /\ T \ {first[T]} \in upTo(n)
    <3>1. T \in SUBSET S /\ first[T] \in T /\ Cardinality(T) <= n + 1
      BY <2>3 DEF Takes
    <3>2. Cardinality(T \ {first[T]}) = Cardinality(T) - 1
      BY <1>1, <3>1, FS_RemoveElement
    <3>3. Cardinality(T) \in Nat
      BY <1>1, <3>1
    <3>4. Cardinality(T \ {first[T]}) <= n
      BY <3>1, <3>2, <3>3
    <3> QED  BY <3>1, <3>4
  <2>4. \A T \in upTo(n) : T \in upTo(n + 1) /\ more[T] = it[T]
    <3> SUFFICES ASSUME NEW T \in upTo(n)
                 PROVE  T \in upTo(n + 1) /\ more[T] = it[T]
      OBVIOUS
    <3>1. T \in upTo(n + 1)
      BY <1>1
    <3>2. it[T] = next(it, T)
      BY <2>2
    <3> HIDE DEF upTo, next
    <3> QED  BY <3>1, <3>2
  <2>5. \A T \in upTo(n + 1) : next(it, T) \in V
    <3> SUFFICES ASSUME NEW T \in upTo(n + 1), T # {}
                 PROVE  step[first[T]][it[T \ {first[T]}]] \in V
      OBVIOUS
    <3>1. first[T] \in S /\ T \ {first[T]} \in upTo(n)
      BY <2>3
    <3> HIDE DEF upTo, next
    <3>2. it[T \ {first[T]}] \in V
      BY <2>2, <3>1
    <3> QED  BY <3>1, <3>2
  <2>6. \A T \in upTo(n + 1) : next(more, T) = next(it, T)
    <3>1. \A T \in upTo(n + 1) : T # {} => more[T \ {first[T]}] = it[T \ {first[T]}]
      <4> HIDE DEF more, upTo
      <4> QED  BY <2>3, <2>4
    <3> HIDE DEF more, upTo
    <3> QED  BY <3>1
  <2>7. Fits(more, n + 1)
    <3> HIDE DEF upTo, next
    <3> QED  BY <2>5, <2>6
  <2> QED  BY <2>1, <2>7
<1> HIDE DEF Fits
<1>4. Nat \subseteq N
  <2> HIDE DEF N
  <2> QED  BY <1>2, <1>3, NaturalInduction
<1>5. upTo(Cardinality(S)) = SUBSET S /\ Cardinality(S) \in Nat
  BY <1>1, FS_Subset
<1>6. PICK it : Fits(it, Cardinality(S))
  BY <1>4, <1>5
<1> HIDE DEF upTo
<1> QED  BY <1>5, <1>6 DEF Fits, Folds

\* Reached[T] is what the calls for the findings of T have made of a graph.
GivenReaches(deeper, o, x, S, Good, Reached) ==
    /\ Cut(o, x) \in Reached[{}]
    /\ \A T \in SUBSET S, f \in S, g \in Good :
           f \in T /\ g \in Reached[T \ {f}] => deeper[Given(g, f, o, x)][f] \in Reached[T]

\* What the calls for some of the duplicates of the one that goes have reached,
\* the calls for all of them reach in the end.
LEMMA AllGivenReaches ==
    ASSUME NEW n \in Nat, NEW o, NEW x, NEW deeper, NEW Good, Cut(o, x) \in Good,
           NEW S \in SUBSET (1 .. n), S = Originals(Cut(o, x), Go(o, x)),
           \A f \in S, g \in Good : deeper[Given(g, f, o, x)][f] \in Good,
           NEW Reached, GivenReaches(deeper, o, x, S, Good, Reached)
    PROVE  AllGiven(deeper, o, x) \in Good /\ AllGiven(deeper, o, x) \in Reached[S]
<1> DEFINE op(f, g) == deeper[Given(g, f, o, x)][f]
           base == Cut(o, x)
           Folded(it) == it = [T \in SUBSET S |->
                                 IF T = {} THEN base ELSE op(LastGiven(T), it[T \ {LastGiven(T)}])]
           chosen == CHOOSE it : Folded(it)
<1>1. AllGiven(deeper, o, x) = chosen[S]
  BY DEF MapThenFoldSet, AllGiven
<1>2. /\ base \in Good /\ \A f \in S, g \in Good : op(f, g) \in Good
      /\ base \in Reached[{}]
      /\ \A T \in SUBSET S, f \in S, g \in Good :
             f \in T /\ g \in Reached[T \ {f}] => op(f, g) \in Reached[T]
  BY DEF GivenReaches
<1>3. IsFiniteSet(S)
  <2>1. IsFiniteSet(1 .. n)
    BY FS_Interval
  <2> QED  BY <2>1, FS_Subset
<1>4. \A T \in SUBSET S : T # {} => LastGiven(T) \in T
  BY DEF LastGiven
<1> HIDE DEF op, base
<1>5. \E it : Folded(it)
  <2> DEFINE step == [f \in S |-> [g \in Good |-> op(f, g)]]
             first == [T \in SUBSET S |-> LastGiven(T)]
  <2>1. step \in [S -> [Good -> Good]] /\ Takes(first, S)
    BY <1>2, <1>4 DEF Takes
  <2>2. /\ \A f \in S, g \in Good : step[f][g] = op(f, g)
        /\ \A T \in SUBSET S : first[T] = LastGiven(T)
    OBVIOUS
  <2> HIDE DEF step, first
  <2>3. PICK it \in [SUBSET S -> Good] : Folds(it, S, base, step, first)
    <3> HIDE DEF Folded, chosen
    <3>1. base \in Good /\ IsFiniteSet(S)
      BY <1>2, <1>3
    <3> QED  BY <2>1, <3>1, FoldExists
  <2>4. ASSUME NEW T \in SUBSET S
        PROVE  it[T] = IF T = {} THEN base ELSE op(LastGiven(T), it[T \ {LastGiven(T)}])
    <3>1. T # {} => LastGiven(T) \in S /\ it[T \ {LastGiven(T)}] \in Good
      BY <1>4, <2>3
    <3>2. it[T] = IF T = {} THEN base ELSE step[first[T]][it[T \ {first[T]}]]
      BY <2>3 DEF Folds
    <3> HIDE DEF Folded, chosen
    <3>3. first[T] = LastGiven(T)
      BY <2>2
    <3>4. CASE T = {}
      BY <3>2, <3>4
    <3>5. CASE T # {}
      <4>1. it[T] = step[LastGiven(T)][it[T \ {LastGiven(T)}]]
        BY <3>2, <3>3, <3>5
      <4> QED  BY <2>2, <3>1, <3>5, <4>1
    <3> QED  BY <3>4, <3>5
  <2>5. Folded(it)
    BY <2>4
  <2> QED  BY <2>5
<1>6. Folded(chosen)
  <2> HIDE DEF Folded
  <2> QED  BY <1>5
<1> HIDE DEF chosen
<1>7. chosen[S] \in Good /\ chosen[S] \in Reached[S]
  <2> DEFINE fine == {T \in SUBSET S : chosen[T] \in Good /\ chosen[T] \in Reached[T]}
  <2>1. {} \in fine
    BY <1>2, <1>6
  <2>2. ASSUME NEW T \in SUBSET S, T # {}
        PROVE  \E m \in T : T \ {m} \in fine => T \in fine
    <3>1. LastGiven(T) \in T /\ chosen[T] = op(LastGiven(T), chosen[T \ {LastGiven(T)}])
      BY <1>4, <1>6, <2>2
    <3>2. LastGiven(T) \in S
      BY <3>1
    <3> DEFINE m == LastGiven(T)
               g == chosen[T \ {m}]
    <3> HIDE DEF m
    <3>3. m \in S /\ m \in T /\ chosen[T] = op(m, g)
      BY <3>1, <3>2 DEF m
    <3> HIDE DEF g, op, chosen, Folded
    <3>4. ASSUME g \in Good, g \in Reached[T \ {m}]
          PROVE  op(m, g) \in Good /\ op(m, g) \in Reached[T]
      BY <1>2, <2>2, <3>3, <3>4
    <3>5. T \ {m} \in fine => T \in fine
      BY <2>2, <3>3, <3>4 DEF g
    <3> QED  BY <3>3, <3>5
  <2> HIDE DEF fine, Folded
  <2>3. \A T \in SUBSET S : T \in fine
    BY <1>3, <2>1, <2>2, FiniteInduction
  <2>4. S \in fine
    BY <2>3
  <2> QED  BY <2>4 DEF fine
<1> QED  BY <1>1, <1>7

\* What every call for a duplicate of the one that goes keeps, all keep.
LEMMA AllGivenStays ==
    ASSUME NEW n \in Nat, NEW o, NEW x, NEW deeper, NEW Good, Cut(o, x) \in Good,
           NEW S \in SUBSET (1 .. n), S = Originals(Cut(o, x), Go(o, x)),
           \A f \in S, g \in Good : deeper[Given(g, f, o, x)][f] \in Good
    PROVE  AllGiven(deeper, o, x) \in Good
<1> DEFINE Reached == [T \in SUBSET S |-> Good]
<1>1. \A T \in SUBSET S : Reached[T] = Good
  OBVIOUS
<1>2. {} \in SUBSET S /\ \A T \in SUBSET S, f \in S : T \ {f} \in SUBSET S
  OBVIOUS
<1> HIDE DEF Reached
<1>3. GivenReaches(deeper, o, x, S, Good, Reached)
  BY <1>1, <1>2 DEF GivenReaches
<1> QED  BY <1>3, AllGivenReaches

\* There is a function that calls itself one level deeper.
LEMMA CallIs ==
    ASSUME NEW D
    PROVE  \A depth \in 0 .. Depth :
               RemoveLoop(D)[depth] =
                   [o \in Pointers(D) |-> [x \in D |->
                       Removing(RemoveLoop(D)[depth - 1], depth, o, x)]]
<1> DEFINE Body(deeper, depth) ==
               [o \in Pointers(D) |-> [x \in D |-> Removing(deeper, depth, o, x)]]
           Calls(call, n) == call = [depth \in 0 .. n |-> Body(call[depth - 1], depth)]
           N == {n \in Nat : \E call : Calls(call, n)}
<1>1. RemoveLoop(D) = CHOOSE call : Calls(call, Depth)
  BY DEF RemoveLoop
<1>2. \A a, b : Body(a, 0) = Body(b, 0)
  <2>1. \A a, b, o, x : Removing(a, 0, o, x) = Removing(b, 0, o, x)
    BY DEF Removing
  <2> QED  BY <2>1
<1> HIDE DEF Body
<1>3. 0 \in N
  <2> DEFINE call == [depth \in 0 .. 0 |-> Body({}, 0)]
  <2>1. \A depth \in 0 .. 0 : Body({}, 0) = Body(call[depth - 1], depth)
    <3>1. \A depth \in 0 .. 0 : depth = 0
      OBVIOUS
    <3> HIDE DEF call
    <3> QED  BY <1>2, <3>1
  <2>2. Calls(call, 0)
    BY <2>1
  <2> QED  BY <2>2
<1>4. ASSUME NEW n \in Nat, n \in N
      PROVE  n + 1 \in N
  <2>1. PICK call : Calls(call, n)
    BY <1>4
  <2> DEFINE longer == [depth \in 0 .. n + 1 |->
                           IF depth <= n THEN call[depth] ELSE Body(call[n], n + 1)]
  <2>2. \A depth \in 0 .. n + 1 : longer[depth] = Body(longer[depth - 1], depth)
    <3> SUFFICES ASSUME NEW depth \in 0 .. n + 1
                 PROVE  longer[depth] = Body(longer[depth - 1], depth)
      OBVIOUS
    <3>1. CASE depth = 0
      <4>1. longer[0] = Body(call[0 - 1], 0)
        BY <2>1
      <4> HIDE DEF longer
      <4> QED  BY <3>1, <4>1, <1>2
    <3>2. CASE depth \in 1 .. n
      BY <2>1, <3>2
    <3>3. CASE depth = n + 1
      BY <2>1, <3>3
    <3> QED  BY <3>1, <3>2, <3>3
  <2>3. Calls(longer, n + 1)
    <3>1. longer = [depth \in 0 .. n + 1 |-> longer[depth]]
      OBVIOUS
    <3> HIDE DEF longer
    <3> QED  BY <2>2, <3>1
  <2>4. n + 1 \in Nat
    OBVIOUS
  <2> HIDE DEF Calls, longer
  <2> QED  BY <2>3, <2>4
<1> HIDE DEF N
<1>5. Depth \in N
  <2>1. Nat \subseteq N
    BY <1>3, <1>4, NaturalInduction
  <2> QED  BY <2>1 DEF Depth
<1>6. Calls(RemoveLoop(D), Depth)
  <2> HIDE DEF Calls
  <2> QED  BY <1>1, <1>5 DEF N
<1> QED  BY <1>6 DEF Body

\* One call of removeLoop, given the calls that are one level deeper.
LEMMA OneCallIs ==
    ASSUME NEW D, NEW depth \in 0 .. Depth, NEW o \in Pointers(D), NEW x \in D
    PROVE  RemoveLoop(D)[depth][o][x] = Removing(RemoveLoop(D)[depth - 1], depth, o, x)
<1> DEFINE R == RemoveLoop(D)
           deeper == R[depth - 1]
<1>1. R[depth] = [q \in Pointers(D) |-> [y \in D |-> Removing(deeper, depth, q, y)]]
  BY CallIs
<1> HIDE DEF R, deeper
<1>2. R[depth][o][x] = Removing(deeper, depth, o, x)
  BY <1>1
<1> QED  BY <1>2 DEF R, deeper

-----------------------------------------------------------------------------
(***************************************************************************)
(* removeLoop on a graph without loops.  It changes only what leads to the *)
(* original of the finding that it is called for.                          *)
(***************************************************************************)
LoopFree(o) == \A S \in SUBSET DOMAIN o : S # {} => \E f \in S : o[f] \notin S

\* B has p and all whose chain leads to p, and p leads out of B.
LeadsTo(B, o, p) ==
    /\ B \in SUBSET DOMAIN o /\ p \in B /\ o[p] \notin B
    /\ \A f \in DOMAIN o : o[f] \in B => f \in B

\* What the repair of a graph may do with those that lead to p.
Repairs(h, o, B, p) ==
    /\ h \in Pointers(DOMAIN o)
    /\ LoopFree(h)
    /\ \A f \in DOMAIN o : f \notin B \/ f = p => h[f] = o[f]
    /\ \A f \in DOMAIN o : o[f] = None => h[f] = None

\* Whoever is no duplicate of itself can be told from those that lead to it.
LEMMA LeadersExist ==
    ASSUME NEW o, LoopFree(o), NEW p \in DOMAIN o
    PROVE  \E B : LeadsTo(B, o, p)
<1> DEFINE D == DOMAIN o
           Back(C) == p \in C /\ \A f \in D : o[f] \in C => f \in C
           B == {f \in D : \A C \in SUBSET D : Back(C) => f \in C}
<1>1. B \in SUBSET D /\ Back(B)
  OBVIOUS
<1>2. ASSUME NEW f \in B, f # p
      PROVE  o[f] \in B
  <2> SUFFICES ASSUME o[f] \notin B
               PROVE  FALSE
    OBVIOUS
  <2>1. B \ {f} \in SUBSET D
    OBVIOUS
  <2>2. Back(B \ {f})
    <3>1. p \in B \ {f}
      BY <1>1, <1>2
    <3> HIDE DEF B
    <3> QED  BY <1>1, <3>1
  <2>3. f \in B \ {f}
    BY <2>1, <2>2
  <2> QED  BY <2>3
<1>3. o[p] \notin B
  <2> SUFFICES ASSUME o[p] \in B
               PROVE  FALSE
    OBVIOUS
  <2>1. B \in SUBSET DOMAIN o /\ B # {} /\ \A f \in B : o[f] \in B
    BY <1>1, <1>2
  <2> HIDE DEF B
  <2> QED  BY <2>1 DEF LoopFree
<1>4. LeadsTo(B, o, p)
  <2> HIDE DEF B
  <2> QED  BY <1>1, <1>3 DEF LeadsTo
<1> HIDE DEF B
<1> QED  BY <1>4

\* To take originals away makes no loop.
LEMMA LessIsLoopFree ==
    ASSUME NEW D, None \notin D, NEW o \in Pointers(D), LoopFree(o),
           NEW h \in Pointers(D), \A f \in D : h[f] = o[f] \/ h[f] = None
    PROVE  LoopFree(h)
BY DEF LoopFree, Pointers

\* Cutting off the one that is kept makes no loop and opens none for others.
LEMMA CutRepairs ==
    ASSUME NEW D \in SUBSET Nat, None \notin D, NEW o \in Pointers(D), LoopFree(o),
           NEW x \in D, o[x] # None, NEW B, LeadsTo(B, o, o[x])
    PROVE  Repairs(Cut(o, x), o, B, o[x])
<1> DEFINE p == o[x]
           h == Cut(o, x)
<1>1. p \in D /\ DOMAIN o = D /\ p \in B /\ x \in B /\ o[p] \notin B
  BY DEF Pointers, LeadsTo
<1>2. p # x /\ o[p] # x
  BY <1>1
<1>3. h = o \/ h = [o EXCEPT ![x] = None]
  BY <1>2 DEF Cut, Keep, Go
<1>4. h \in Pointers(D)
  BY <1>3 DEF Pointers
<1>5. \A f \in D : h[f] = o[f] \/ (f = x /\ h[f] = None)
  BY <1>1, <1>3
<1> HIDE DEF h
<1>6. LoopFree(h)
  BY <1>4, <1>5, LessIsLoopFree
<1> QED  BY <1>1, <1>2, <1>4, <1>5, <1>6 DEF Repairs, h

\* Each finding that is given to the one that is kept: the graph is without
\* loops again, and what is done further down in it stays among those that lead
\* to the one that is kept.
LEMMA GivenRepairs ==
    ASSUME NEW D \in SUBSET Nat, None \notin D, NEW o \in Pointers(D), LoopFree(o),
           NEW x \in D, o[x] # None, NEW B, LeadsTo(B, o, o[x]),
           NEW g, Repairs(g, o, B, o[x]),
           NEW f \in Originals(Cut(o, x), Go(o, x)),
           NEW h, h = Given(g, f, o, x)
    PROVE  /\ f \in D /\ h \in Pointers(D) /\ LoopFree(h) /\ h[f] # None
           /\ \E C : /\ LeadsTo(C, h, h[f])
                     /\ \A k : Repairs(k, h, C, h[f]) => Repairs(k, o, B, o[x])
<1> DEFINE p == o[x]
           keep == Keep(o, x)
<1>1. /\ DOMAIN o = D /\ p \in D /\ p \in B /\ x \in B /\ B \in SUBSET D /\ o[p] \notin B
      /\ \A m \in D : o[m] \in B => m \in B
      /\ p # x /\ o[p] # x
  BY DEF Pointers, LeadsTo
<1>2. /\ g \in Pointers(D) /\ DOMAIN g = D /\ LoopFree(g)
      /\ \A m \in D : m \notin B \/ m = p => g[m] = o[m]
      /\ \A m \in D : o[m] = None => g[m] = None
  BY <1>1 DEF Repairs, Pointers
<1>3. \/ Swapped(o, x) /\ keep = x /\ o[f] = p /\ f # x /\ f \in D
      \/ ~Swapped(o, x) /\ keep = p /\ o[f] = x /\ f \in D
  <2>1. CASE Swapped(o, x)
    <3>1. keep = x /\ Go(o, x) = p /\ Cut(o, x) = [o EXCEPT ![x] = None]
      BY <2>1 DEF Keep, Go, Cut
    <3>2. f \in D /\ [o EXCEPT ![x] = None][f] = p
      BY <1>1, <3>1 DEF Originals
    <3> QED  BY <1>1, <2>1, <3>1, <3>2
  <2>2. CASE ~Swapped(o, x)
    <3>1. keep = p /\ Go(o, x) = x /\ Cut(o, x) = o
      BY <1>1, <2>2 DEF Keep, Go, Cut
    <3> QED  BY <1>1, <2>2, <3>1 DEF Originals
  <2> QED  BY <2>1, <2>2
<1>4. f \in D /\ f \in B /\ f # p /\ f # keep /\ keep \in D /\ keep \in B /\ keep # None
  BY <1>1, <1>3
<1>5. /\ h \in Pointers(D) /\ DOMAIN h = D /\ h[f] = keep /\ h[keep] = o[keep]
      /\ \A m \in D : m # f /\ m # keep => h[m] = g[m]
  <2>1. h = [g EXCEPT ![f] = keep, ![keep] = o[keep]]
    BY DEF Given
  <2> HIDE DEF keep
  <2>2. o[keep] \in D \cup {None}
    BY <1>4 DEF Pointers
  <2>3. g \in [D -> D \cup {None}]
    BY <1>2 DEF Pointers
  <2> QED  BY <1>2, <1>4, <2>1, <2>2, <2>3 DEF Pointers
<1>6. h[p] = o[p] /\ \A m \in D \ B : h[m] = o[m]
  BY <1>1, <1>2, <1>3, <1>4, <1>5
<1>7. LoopFree(h)
  <2> SUFFICES ASSUME NEW S \in SUBSET D, S # {}, \A m \in S : h[m] \in S
               PROVE  FALSE
    BY <1>5 DEF LoopFree
  <2>1. keep \in S
    <3> SUFFICES ASSUME keep \notin S
                 PROVE  FALSE
      OBVIOUS
    <3>1. f \notin S
      BY <1>5
    <3>2. \A m \in S : g[m] \in S
      BY <1>5, <3>1
    <3> QED  BY <1>2, <3>2 DEF LoopFree
  <2>2. o[p] \in S
    BY <1>3, <1>5, <1>6, <2>1
  <2>3. \A m \in S \ B : o[m] \in S \ B
    BY <1>1, <1>6
  <2>4. S \ B # {} /\ S \ B \in SUBSET D
    BY <1>1, <2>2
  <2> QED  BY <1>1, <2>3, <2>4 DEF LoopFree
<1>8. \A m \in D : o[m] = None => h[m] = None
  BY <1>1, <1>2, <1>3, <1>4, <1>5
<1> DEFINE C == IF Swapped(o, x) THEN B \ {p} ELSE B
<1>9. LeadsTo(C, h, keep)
  <2>1. keep \in C /\ C \in SUBSET D
    BY <1>1, <1>3, <1>4
  <2>2. h[keep] \notin C
    BY <1>1, <1>3, <1>5
  <2>3. \A m \in D : h[m] \in C => m \in C
    BY <1>1, <1>6
  <2> QED  BY <1>5, <2>1, <2>2, <2>3 DEF LeadsTo
<1>10. ASSUME NEW k, Repairs(k, h, C, keep)
       PROVE  Repairs(k, o, B, p)
  <2>1. /\ k \in Pointers(D) /\ LoopFree(k)
        /\ \A m \in D : m \notin C \/ m = keep => k[m] = h[m]
        /\ \A m \in D : h[m] = None => k[m] = None
    BY <1>5, <1>10 DEF Repairs
  <2>2. \A m \in D \ B : k[m] = o[m]
    BY <1>6, <2>1
  <2>3. k[p] = o[p]
    BY <1>1, <1>3, <1>6, <2>1
  <2>4. \A m \in D : o[m] = None => k[m] = None
    BY <1>8, <2>1
  <2> HIDE DEF C, p
  <2> QED  BY <1>1, <2>1, <2>2, <2>3, <2>4 DEF Repairs
<1> HIDE DEF C
<1> QED  BY <1>4, <1>5, <1>7, <1>9, <1>10

\* removeLoop makes no loop, and no duplicate of a finding that is none,
\* however deep it goes.
LEMMA RemoveLoopRepairs ==
    ASSUME NEW n \in Nat, NEW D \in SUBSET (1 .. n)
    PROVE  \A depth \in 0 .. Depth : \A o \in Pointers(D), x \in D : \A B :
               LoopFree(o) /\ o[x] # None /\ LeadsTo(B, o, o[x]) =>
                   Repairs(RemoveLoop(D)[depth][o][x], o, B, o[x])
<1> DEFINE R == RemoveLoop(D)
           Right(depth) == \A o \in Pointers(D), x \in D : \A B :
               LoopFree(o) /\ o[x] # None /\ LeadsTo(B, o, o[x]) =>
                   Repairs(R[depth][o][x], o, B, o[x])
           N == {depth \in Nat : depth <= Depth => Right(depth)}
<1>0. D \in SUBSET Nat /\ None \notin D
  BY DEF None
<1>1. ASSUME NEW depth \in 0 .. Depth, depth > 0 => Right(depth - 1),
             NEW o \in Pointers(D), NEW x \in D, NEW B,
             LoopFree(o), o[x] # None, LeadsTo(B, o, o[x])
      PROVE  Repairs(R[depth][o][x], o, B, o[x])
  <2> DEFINE deeper == R[depth - 1]
  <2>1. R[depth][o][x] = Removing(deeper, depth, o, x)
    BY OneCallIs
  <2>2. o[x] # x /\ DOMAIN o = D
    BY <1>1 DEF LeadsTo, Pointers
  <2>3. Repairs(Cut(o, x), o, B, o[x])
    BY <1>0, <1>1, CutRepairs
  <2>4. CASE depth = 0
    <3>1. Removing(deeper, depth, o, x) = Cut(o, x)
      BY <1>1, <2>2, <2>4 DEF Removing
    <3> QED  BY <2>1, <2>3, <3>1
  <2>5. CASE depth # 0
    <3> DEFINE S == Originals(Cut(o, x), Go(o, x))
               Good == {h \in Pointers(D) : Repairs(h, o, B, o[x])}
    <3>1. Removing(deeper, depth, o, x) = AllGiven(deeper, o, x)
      BY <1>1, <2>2, <2>5 DEF Removing
    <3>2. Cut(o, x) \in Good
      BY <2>2, <2>3 DEF Repairs
    <3>3. S \in SUBSET (1 .. n)
      <4>1. DOMAIN Cut(o, x) = D
        BY <3>2 DEF Pointers
      <4> QED  BY <4>1 DEF Originals
    <3>4. Right(depth - 1)
      <4>1. depth > 0
        BY <2>5
      <4> QED  BY <1>1, <4>1
    <3>5. ASSUME NEW f \in S, NEW g \in Good
          PROVE  deeper[Given(g, f, o, x)][f] \in Good
      <4> DEFINE h == Given(g, f, o, x)
      <4>1. Repairs(g, o, B, o[x])
        OBVIOUS
      <4>2. /\ f \in D /\ h \in Pointers(D) /\ LoopFree(h) /\ h[f] # None
            /\ \E C : /\ LeadsTo(C, h, h[f])
                      /\ \A k : Repairs(k, h, C, h[f]) => Repairs(k, o, B, o[x])
        BY <1>0, <1>1, <4>1, GivenRepairs
      <4> HIDE DEF h, Good, S
      <4>3. PICK C : /\ LeadsTo(C, h, h[f])
                     /\ \A k : Repairs(k, h, C, h[f]) => Repairs(k, o, B, o[x])
        BY <4>2
      <4>4. Repairs(deeper[h][f], h, C, h[f])
        BY <3>4, <4>2, <4>3
      <4>5. Repairs(deeper[h][f], o, B, o[x])
        BY <4>3, <4>4
      <4>6. deeper[h][f] \in Pointers(D)
        BY <2>2, <4>5 DEF Repairs
      <4> QED  BY <4>5, <4>6 DEF Good, h
    <3> HIDE DEF Good, S, deeper
    <3>6. AllGiven(deeper, o, x) \in Good
      BY <3>2, <3>3, <3>5, AllGivenStays DEF S
    <3> QED  BY <2>1, <3>1, <3>6 DEF Good
  <2> QED  BY <2>4, <2>5
<1> HIDE DEF R
<1>2. 0 \in N
  <2>1. 0 \in 0 .. Depth /\ ~(0 > 0)
    BY DEF Depth
  <2> QED  BY <1>1, <2>1
<1>3. ASSUME NEW depth \in Nat, depth \in N
      PROVE  depth + 1 \in N
  <2> SUFFICES ASSUME depth + 1 <= Depth
               PROVE  Right(depth + 1)
    OBVIOUS
  <2>1. /\ depth + 1 \in 0 .. Depth /\ (depth + 1) - 1 = depth
        /\ Right(depth)
    BY <1>3 DEF Depth
  <2> QED  BY <1>1, <2>1
<1> HIDE DEF Right
<1>4. Nat \subseteq N
  <2> HIDE DEF N
  <2> QED  BY <1>2, <1>3, NaturalInduction
<1>5. \A depth \in 0 .. Depth : Right(depth)
  BY <1>4 DEF Depth
<1> QED  BY <1>5 DEF Right, R

\* What one call of removeLoop from the outside makes of a graph without loops.
Tamed(h, D, o) ==
    /\ h \in Pointers(D) /\ LoopFree(h)
    /\ \A f \in D : o[f] = None => h[f] = None

\* removeLoop makes no loop, and no duplicate of a finding that is none.
LEMMA LoosenedTames ==
    ASSUME NEW n \in Nat, NEW D \in SUBSET (1 .. n), NEW o \in Pointers(D), LoopFree(o),
           NEW x \in D
    PROVE  Tamed(Loosened(o, x), D, o)
<1>1. DOMAIN o = D /\ Depth \in 0 .. Depth
  BY DEF Pointers, Depth
<1>2. Loosened(o, x) = RemoveLoop(D)[Depth][o][x]
  BY <1>1 DEF Loosened
<1>3. CASE o[x] = None
  <2> DEFINE deeper == RemoveLoop(D)[Depth - 1]
  <2>3. RemoveLoop(D)[Depth][o][x] = Removing(deeper, Depth, o, x)
    BY <1>1, OneCallIs
  <2> HIDE DEF deeper
  <2>4. Removing(deeper, Depth, o, x) = o
    <3>1. x # None
      BY DEF None
    <3> QED  BY <1>3, <3>1 DEF Removing
  <2> QED  BY <1>2, <2>3, <2>4 DEF Tamed
<1>4. CASE o[x] # None
  <2>1. o[x] \in D
    BY <1>4 DEF Pointers
  <2>2. PICK B : LeadsTo(B, o, o[x])
    BY <1>1, <2>1, LeadersExist
  <2>3. Repairs(RemoveLoop(D)[Depth][o][x], o, B, o[x])
    BY <1>1, <1>4, <2>2, RemoveLoopRepairs
  <2> QED  BY <1>1, <1>2, <2>3 DEF Repairs, Tamed
<1> QED  BY <1>3, <1>4

\* The row that is dealt with last has the lowest original.
LEMMA LastRowIs ==
    ASSUME NEW n \in Nat, NEW D \in SUBSET (1 .. n), NEW o \in Pointers(D),
           NEW T \in SUBSET Chained(o), T # {}
    PROVE  /\ LastRow(o, T) \in T /\ \A f \in T : o[LastRow(o, T)] <= o[f]
           /\ LastRow(o, T) \in D /\ o[LastRow(o, T)] \in D
<1>1. T \in SUBSET D /\ \A f \in T : o[f] \in D
  BY DEF Chained, Pointers
<1> DEFINE ids == {o[f] : f \in T}
<1>2. ids \in SUBSET Nat /\ ids # {}
  <2>1. D \in SUBSET Nat
    OBVIOUS
  <2> QED  BY <1>1, <2>1
<1>3. PICK low \in ids : \A k \in ids : low <= k
  BY <1>2, LeastNumber
<1>4. \E f \in T : \A g \in T : o[f] <= o[g]
  BY <1>3
<1>5. LastRow(o, T) \in T /\ \A f \in T : o[LastRow(o, T)] <= o[f]
  BY <1>4 DEF LastRow
<1> QED  BY <1>1, <1>5

\* Reached[T] is what the calls for the rows of T have made of the graph o.
RowsReach(D, o, Reached) ==
    /\ o \in Reached[{}]
    /\ \A T \in SUBSET Chained(o), g \in Pointers(D) :
           /\ T # {} /\ LoopFree(g)
           /\ g \in Reached[T \ {LastRow(o, T)}]
           => Loosened(g, o[LastRow(o, T)]) \in Reached[T]

\* What removeLoop has reached row by row, a run of fix_loop_duplicates reaches
\* in the end; and it makes no loop, and no duplicate of a finding that is none.
LEMMA RepairedReaches ==
    ASSUME NEW n \in Nat, NEW D \in SUBSET (1 .. n), NEW o \in Pointers(D), LoopFree(o),
           NEW Reached, RowsReach(D, o, Reached)
    PROVE  Tamed(Repaired(o), D, o) /\ Repaired(o) \in Reached[Chained(o)]
<1> DEFINE last(T) == LastRow(o, T)
           S == Chained(o)
           Good == {h \in Pointers(D) : Tamed(h, D, o)}
           Folded(it) == it = [T \in SUBSET S |->
                                 IF T = {} THEN o ELSE Loosened(it[T \ {last(T)}], o[last(T)])]
           chosen == CHOOSE it : Folded(it)
<1>1. Repaired(o) = chosen[S]
  BY DEF MapThenFoldSet, Repaired
<1>2. /\ S \in SUBSET (1 .. n) /\ S \in SUBSET D
      /\ \A f \in S : o[f] \in D /\ o[f] \in Nat
  <2>1. S \in SUBSET D
    BY DEF Chained, Pointers
  <2>2. \A f \in S : o[f] \in D
    BY <2>1 DEF Chained, Pointers
  <2>3. D \in SUBSET (1 .. n) /\ 1 .. n \in SUBSET Nat
    OBVIOUS
  <2> HIDE DEF S
  <2> QED  BY <2>1, <2>2, <2>3
<1>3. o \in Good
  BY DEF Tamed
<1>4. ASSUME NEW f \in S, NEW g \in Good
      PROVE  Loosened(g, o[f]) \in Good
  <2>1. g \in Pointers(D) /\ LoopFree(g) /\ \A m \in D : o[m] = None => g[m] = None
    BY DEF Tamed
  <2>2. Tamed(Loosened(g, o[f]), D, g)
    BY <1>2, <2>1, LoosenedTames
  <2> QED  BY <2>1, <2>2 DEF Tamed
<1>5. /\ o \in Reached[{}]
      /\ \A T \in SUBSET S, g \in Good :
             T # {} /\ g \in Reached[T \ {last(T)}] => Loosened(g, o[last(T)]) \in Reached[T]
  <2>1. \A g \in Good : g \in Pointers(D) /\ LoopFree(g)
    BY DEF Tamed
  <2> HIDE DEF Good
  <2> QED  BY <2>1 DEF RowsReach
<1>6. IsFiniteSet(S)
  <2> HIDE DEF S
  <2>1. IsFiniteSet(1 .. n)
    BY FS_Interval
  <2> QED  BY <1>2, <2>1, FS_Subset
<1>7. \A T \in SUBSET S : T # {} => last(T) \in T
  BY LastRowIs
<1> HIDE DEF S, Good, last
<1>8. \E it : Folded(it)
  <2> DEFINE step == [f \in S |-> [g \in Good |-> Loosened(g, o[f])]]
             first == [T \in SUBSET S |-> last(T)]
  <2>1. step \in [S -> [Good -> Good]] /\ Takes(first, S)
    BY <1>4, <1>7 DEF Takes
  <2>2. /\ \A f \in S, g \in Good : step[f][g] = Loosened(g, o[f])
        /\ \A T \in SUBSET S : first[T] = last(T)
    OBVIOUS
  <2> HIDE DEF step, first
  <2>3. PICK it \in [SUBSET S -> Good] : Folds(it, S, o, step, first)
    <3> HIDE DEF Folded, chosen
    <3> QED  BY <1>3, <1>6, <2>1, FoldExists
  <2>4. ASSUME NEW T \in SUBSET S
        PROVE  it[T] = IF T = {} THEN o ELSE Loosened(it[T \ {last(T)}], o[last(T)])
    <3>1. T # {} => last(T) \in S /\ it[T \ {last(T)}] \in Good
      BY <1>7, <2>3
    <3>2. it[T] = IF T = {} THEN o ELSE step[first[T]][it[T \ {first[T]}]]
      BY <2>3 DEF Folds
    <3> HIDE DEF Folded, chosen
    <3>3. first[T] = last(T)
      BY <2>2
    <3>4. CASE T = {}
      BY <3>2, <3>4
    <3>5. CASE T # {}
      <4>1. it[T] = step[last(T)][it[T \ {last(T)}]]
        BY <3>2, <3>3, <3>5
      <4> QED  BY <2>2, <3>1, <3>5, <4>1
    <3> QED  BY <3>4, <3>5
  <2>5. Folded(it)
    BY <2>4
  <2> QED  BY <2>5
<1>9. Folded(chosen)
  <2> HIDE DEF Folded
  <2> QED  BY <1>8
<1> HIDE DEF chosen
<1>10. chosen[S] \in Good /\ chosen[S] \in Reached[S]
  <2> DEFINE fine == {T \in SUBSET S : chosen[T] \in Good /\ chosen[T] \in Reached[T]}
  <2>1. {} \in fine
    BY <1>3, <1>9, <1>5
  <2>2. ASSUME NEW T \in SUBSET S, T # {}
        PROVE  \E m \in T : T \ {m} \in fine => T \in fine
    <3>1. last(T) \in T /\ chosen[T] = Loosened(chosen[T \ {last(T)}], o[last(T)])
      BY <1>7, <1>9, <2>2
    <3>2. T \ {last(T)} \in fine => T \in fine
      BY <1>4, <1>5, <2>2, <3>1
    <3> QED  BY <3>1, <3>2
  <2> HIDE DEF fine, Folded
  <2>3. \A T \in SUBSET S : T \in fine
    BY <1>6, <2>1, <2>2, FiniteInduction
  <2>4. S \in fine
    BY <2>3
  <2> QED  BY <2>4 DEF fine
<1> QED  BY <1>1, <1>10 DEF Good, S

\* A run of fix_loop_duplicates makes no loop, and no duplicate of a finding
\* that is none.
LEMMA RepairedTames ==
    ASSUME NEW n \in Nat, NEW D \in SUBSET (1 .. n), NEW o \in Pointers(D), LoopFree(o)
    PROVE  Tamed(Repaired(o), D, o)
<1> DEFINE Reached == [T \in SUBSET Chained(o) |-> Pointers(D)]
<1>1. /\ {} \in SUBSET Chained(o)
      /\ \A T \in SUBSET Chained(o) : Reached[T] = Pointers(D)
  OBVIOUS
<1>2. RowsReach(D, o, Reached)
  <2>1. ASSUME NEW T \in SUBSET Chained(o), NEW g \in Pointers(D), T # {}, LoopFree(g)
        PROVE  Loosened(g, o[LastRow(o, T)]) \in Pointers(D)
    <3>1. o[LastRow(o, T)] \in D
      BY <2>1, LastRowIs
    <3> QED  BY <2>1, <3>1, LoosenedTames DEF Tamed
  <2> HIDE DEF Reached
  <2> QED  BY <1>1, <2>1 DEF RowsReach
<1> HIDE DEF Reached
<1> QED  BY <1>2, RepairedReaches

-----------------------------------------------------------------------------
(***************************************************************************)
(* The repair of chains of any length in which originals get older towards *)
(* the end, but for the end itself and for those without duplicates.  Then *)
(* removeLoop never swaps.  Originals are taken in descending order, so    *)
(* that the duplicates of one have no more duplicates themselves when they *)
(* are handed on.                                                          *)
(***************************************************************************)
Heads(o) == {f \in DOMAIN o : Originals(o, f) # {}}

InOrder(o, heads) ==
    \A f \in DOMAIN o :
        o[f] # None /\ o[o[f]] # None =>
            /\ f \in heads => o[f] < f
            /\ o[o[o[f]]] # None => o[o[f]] < f

Ordered(o) == InOrder(o, Heads(o))

\* r[f] is the finding at the end of the chain of f.
Rooted(r, o) == \A f \in DOMAIN o : r[f] = IF o[f] = None THEN f ELSE r[o[f]]

\* The duplicates of x are handed on to the original of x.
HandedOn(o, x) == [f \in DOMAIN o |-> IF o[f] = x THEN o[x] ELSE o[f]]

\* Where originals point.
LEMMA OriginalsAre ==
    ASSUME NEW n \in Nat, NEW D \in SUBSET (1 .. n), NEW o \in Pointers(D), NEW x \in D
    PROVE  /\ DOMAIN o = D /\ x \in Nat /\ x # None
           /\ o[x] \in Nat /\ (o[x] # None => o[x] \in D)
<1>1. x \in Nat /\ x # 0 /\ \A y \in D : y \in Nat
  OBVIOUS
<1>2. DOMAIN o = D /\ (o[x] # None => o[x] \in D)
  BY DEF Pointers
<1>3. o[x] \in Nat
  <2>1. CASE o[x] = None
    BY <2>1 DEF None
  <2>2. CASE o[x] # None
    BY <1>1, <1>2, <2>2
  <2> QED  BY <2>1, <2>2
<1> QED  BY <1>1, <1>2, <1>3 DEF None

\* Without loops, no finding is its own original or that of its original.
LEMMA NoShortLoop ==
    ASSUME NEW o, LoopFree(o), NEW x \in DOMAIN o
    PROVE  o[x] # x /\ (o[x] \in DOMAIN o => o[o[x]] # x)
<1>1. \E f \in {x} : o[f] \notin {x}
  BY DEF LoopFree
<1>2. o[x] \in DOMAIN o => \E f \in {x, o[x]} : o[f] \notin {x, o[x]}
  <2>1. o[x] \in DOMAIN o => {x, o[x]} \in SUBSET DOMAIN o
    OBVIOUS
  <2> QED  BY <2>1 DEF LoopFree
<1> QED  BY <1>1, <1>2

\* x has no duplicates, and comes after its original unless that is the end.
IsLeaf(o, x) == Originals(o, x) = {} /\ (o[x] # None /\ o[o[x]] # None => o[x] < x)

\* Where there are no duplicates to hand on, a call changes nothing.
LEMMA NobodyToHandOn ==
    ASSUME NEW n \in Nat, NEW D \in SUBSET (1 .. n), NEW o \in Pointers(D),
           NEW x \in D, IsLeaf(o, x), NEW depth \in 0 .. Depth
    PROVE  RemoveLoop(D)[depth][o][x] = o
<1> DEFINE deeper == RemoveLoop(D)[depth - 1]
<1>1. RemoveLoop(D)[depth][o][x] = Removing(deeper, depth, o, x)
  BY OneCallIs
<1> HIDE DEF deeper
<1>2. CASE o[x] = None
  <2>1. x # None
    BY DEF None
  <2> QED  BY <1>1, <1>2, <2>1 DEF Removing
<1>3. CASE o[x] # None
  <2> DEFINE p == o[x]
  <2>1. p \in D /\ p \in Nat /\ x \in Nat /\ DOMAIN o = D
    BY <1>3, OriginalsAre
  <2>2. \A f \in D : o[f] # x
    BY <2>1 DEF IsLeaf, Originals
  <2>3. ~Swapped(o, x)
    <3>1. o[p] # None => p < x
      BY <1>3 DEF IsLeaf
    <3> HIDE DEF p
    <3>2. ~(p > x /\ o[p] # None)
      BY <2>1, <3>1
    <3> QED  BY <3>2 DEF Swapped, p
  <2>4. Keep(o, x) = p /\ Go(o, x) = x
    BY <2>3 DEF Keep, Go
  <2>5. Cut(o, x) = o
    BY <2>1, <2>2, <2>4 DEF Cut
  <2>6. AllGiven(deeper, o, x) = o
    <3> DEFINE Good == {o}
               S == Originals(Cut(o, x), Go(o, x))
    <3>1. S = {} /\ S \in SUBSET (1 .. n)
      BY <2>4, <2>5 DEF IsLeaf
    <3>2. Cut(o, x) \in Good
      BY <2>5
    <3>3. \A f \in S, g \in Good : deeper[Given(g, f, o, x)][f] \in Good
      BY <3>1
    <3> HIDE DEF Good, S
    <3>4. AllGiven(deeper, o, x) \in Good
      BY <3>1, <3>2, <3>3, AllGivenStays DEF S
    <3> QED  BY <3>4 DEF Good
  <2>7. Removing(deeper, depth, o, x) = IF depth = 0 THEN Cut(o, x) ELSE AllGiven(deeper, o, x)
    BY <1>3, <2>1, <2>2 DEF Removing
  <2> QED  BY <1>1, <2>5, <2>6, <2>7
<1> QED  BY <1>2, <1>3

LEMMA CallsForNothing ==
    ASSUME NEW n \in Nat, NEW D \in SUBSET (1 .. n)
    PROVE  \A o \in Pointers(D), x \in D, depth \in 0 .. Depth :
               IsLeaf(o, x) => RemoveLoop(D)[depth][o][x] = o
BY NobodyToHandOn

\* The duplicates of x have no duplicates, and come after the original of x
\* unless that one is the end of the chain.
OneLevel(o, x) ==
    \A f \in DOMAIN o :
        o[f] = x => Originals(o, f) = {} /\ (o[o[x]] # None => o[x] < f)

\* A call hands on duplicates that have none themselves.
LEMMA LoosenedHandsOn ==
    ASSUME NEW n \in Nat, NEW D \in SUBSET (1 .. n), NEW o \in Pointers(D), LoopFree(o),
           NEW x \in D, o[x] # None, o[o[x]] # None => o[x] < x, OneLevel(o, x)
    PROVE  Loosened(o, x) = HandedOn(o, x)
<1> DEFINE p == o[x]
           deeper == RemoveLoop(D)[Depth - 1]
           K == Originals(o, x)
           Moved(T) == [f \in D |-> IF f \in T THEN p ELSE o[f]]
<1>1. DOMAIN o = D /\ Depth \in 0 .. Depth /\ Depth - 1 \in 0 .. Depth /\ Depth # 0
  BY DEF Pointers, Depth
<1>2. Loosened(o, x) = Removing(deeper, Depth, o, x)
  BY <1>1, OneCallIs DEF Loosened
<1>3. ASSUME NEW g \in Pointers(D), NEW f \in D, IsLeaf(g, f)
      PROVE  deeper[g][f] = g
  <2> DEFINE lower == Depth - 1
  <2>1. lower \in 0 .. Depth
    BY <1>1
  <2>2. deeper = RemoveLoop(D)[lower]
    OBVIOUS
  <2> HIDE DEF lower, deeper
  <2>3. RemoveLoop(D)[lower][g][f] = g
    BY <1>3, <2>1, CallsForNothing
  <2> QED  BY <2>2, <2>3
<1> HIDE DEF deeper
<1>4. p \in D /\ p # None /\ p # x /\ o[p] # x
  <2>1. p \in D
    BY OriginalsAre
  <2> QED  BY <1>1, <2>1, NoShortLoop
<1>5. ~Swapped(o, x) /\ Keep(o, x) = p /\ Go(o, x) = x /\ Cut(o, x) = o
  <2>1. p \in Nat /\ x \in Nat
    BY OriginalsAre
  <2>2. o[p] # None => p < x
    OBVIOUS
  <2> HIDE DEF p
  <2>3. ~(p > x /\ o[p] # None)
    BY <2>1, <2>2
  <2>4. ~Swapped(o, x)
    BY <2>3 DEF Swapped, p
  <2> QED  BY <1>4, <2>4 DEF Keep, Go, Cut, p
<1>6. Loosened(o, x) = AllGiven(deeper, o, x)
  BY <1>1, <1>2, <1>4 DEF Removing
<1>7. /\ K \in SUBSET (1 .. n) /\ K \in SUBSET D /\ p \notin K
      /\ \A f \in K : o[f] = x
  BY <1>1, <1>4 DEF Originals
<1>8. ASSUME NEW T \in SUBSET K, NEW f \in K
      PROVE  deeper[Given(Moved(T), f, o, x)][f] = Moved(T \cup {f})
  <2> DEFINE g == Moved(T \cup {f})
  <2>1. Given(Moved(T), f, o, x) = g
    <3>1. Given(Moved(T), f, o, x) = [Moved(T) EXCEPT ![f] = p, ![p] = o[p]]
      BY <1>5 DEF Given
    <3> QED  BY <1>4, <1>7, <3>1
  <2>2. g \in Pointers(D) /\ DOMAIN g = D /\ g[f] = p /\ g[p] = o[p]
    BY <1>4, <1>7 DEF Pointers
  <2>3. Originals(o, f) = {} /\ (o[p] # None => p < f)
    BY <1>1, <1>7 DEF OneLevel
  <2>4. Originals(g, f) = {}
    <3>1. \A d \in D : o[d] # f
      BY <1>1, <2>3 DEF Originals
    <3> QED  BY <1>7, <2>2, <3>1 DEF Originals
  <2>5. f \in D
    BY <1>7
  <2> HIDE DEF g, K, p, Moved
  <2>6. IsLeaf(g, f)
    BY <2>2, <2>3, <2>4 DEF IsLeaf
  <2>7. deeper[g][f] = g
    BY <1>3, <2>2, <2>5, <2>6
  <2> QED  BY <2>1, <2>7 DEF g
<1> DEFINE Good == {Moved(T) : T \in SUBSET K}
           Reached == [T \in SUBSET K |-> {Moved(T)}]
<1>9. AllGiven(deeper, o, x) = Moved(K)
  <2>1. Moved({}) = o
    BY <1>1 DEF Pointers
  <2> HIDE DEF Moved
  <2>2. \A f \in K, g \in Good : deeper[Given(g, f, o, x)][f] \in Good
    <3> SUFFICES ASSUME NEW f \in K, NEW T \in SUBSET K
                 PROVE  deeper[Given(Moved(T), f, o, x)][f] \in Good
      OBVIOUS
    <3>1. T \cup {f} \in SUBSET K
      OBVIOUS
    <3> HIDE DEF K
    <3> QED  BY <1>8, <3>1
  <2>3. GivenReaches(deeper, o, x, K, Good, Reached)
    <3>1. {} \in SUBSET K /\ Cut(o, x) \in Reached[{}]
      BY <1>5, <2>1
    <3>2. ASSUME NEW T \in SUBSET K, NEW f \in T
          PROVE  deeper[Given(Moved(T \ {f}), f, o, x)][f] = Moved(T)
      <4>1. T \ {f} \in SUBSET K /\ f \in K /\ (T \ {f}) \cup {f} = T
        OBVIOUS
      <4> HIDE DEF K
      <4> QED  BY <1>8, <4>1
    <3>3. ASSUME NEW T \in SUBSET K, NEW f \in T, NEW g \in Reached[T \ {f}]
          PROVE  deeper[Given(g, f, o, x)][f] \in Reached[T]
      <4>1. g = Moved(T \ {f}) /\ Reached[T] = {Moved(T)}
        OBVIOUS
      <4> HIDE DEF Reached, K
      <4> QED  BY <3>2, <4>1
    <3> HIDE DEF Reached, Good, K
    <3> QED  BY <3>1, <3>3 DEF GivenReaches
  <2>4. Cut(o, x) \in Good /\ K = Originals(Cut(o, x), Go(o, x))
    BY <1>5, <2>1
  <2> HIDE DEF Good, Reached, K
  <2>5. AllGiven(deeper, o, x) \in Reached[K]
    BY <1>7, <2>2, <2>3, <2>4, AllGivenReaches
  <2> QED  BY <2>5 DEF Reached
<1>10. Moved(K) = HandedOn(o, x)
  BY <1>1 DEF HandedOn, Originals
<1> QED  BY <1>6, <1>9, <1>10

\* T are the rows that are dealt with first: those with the highest originals.
Upper(o, T) == \A c \in T, d \in Chained(o) : o[c] < o[d] => d \in T

\* What the rows of T have made of the graph o, with r[f] at the end of each
\* chain: the originals of these rows have no duplicates any more.
Handed(h, o, T, r) ==
    /\ InOrder(h, Heads(o)) /\ Rooted(r, h)
    /\ \A f \in DOMAIN o : h[f] = None <=> o[f] = None
    /\ Heads(h) \subseteq Heads(o)
    /\ \A c \in T : Originals(h, o[c]) = {}

\* The duplicates of x can be handed on, in a graph that is in order.
Movable(h, x, heads, r) ==
    /\ LoopFree(h) /\ InOrder(h, heads) /\ Heads(h) \subseteq heads
    /\ h[x] # None /\ OneLevel(h, x) /\ Rooted(r, h)

\* k has the order and the ends of h, and x has no duplicates any more.
SoMoved(k, h, x, heads, r) ==
    /\ k \in Pointers(DOMAIN h) /\ InOrder(k, heads) /\ Rooted(r, k)
    /\ \A f \in DOMAIN h : k[f] = None <=> h[f] = None
    /\ \A f \in DOMAIN h : Originals(h, f) = {} => Originals(k, f) = {}
    /\ Originals(k, x) = {}

\* What handing on the duplicates of x does to a graph.
LEMMA HandedOnIs ==
    ASSUME NEW n \in Nat, NEW D \in SUBSET (1 .. n)
    PROVE  \A h \in Pointers(D), x \in D : \A heads, r :
               Movable(h, x, heads, r) => SoMoved(HandedOn(h, x), h, x, heads, r)
<1> SUFFICES ASSUME NEW h \in Pointers(D), NEW x \in D, NEW heads, NEW r,
                    Movable(h, x, heads, r)
             PROVE  SoMoved(HandedOn(h, x), h, x, heads, r)
  OBVIOUS
<1> DEFINE k == HandedOn(h, x)
<1>0. /\ LoopFree(h) /\ InOrder(h, heads) /\ Heads(h) \subseteq heads
      /\ h[x] # None /\ OneLevel(h, x) /\ Rooted(r, h)
  BY DEF Movable
<1> DEFINE p == h[x]
<1>1. DOMAIN h = D /\ DOMAIN k = D
  BY DEF Pointers, HandedOn
<1>2. \A f \in D : k[f] = IF h[f] = x THEN p ELSE h[f]
  BY <1>1 DEF HandedOn
<1>3. p \in D /\ p # x /\ h[p] # x /\ x # None /\ p # None
  <2>1. p \in D /\ x # None
    BY <1>0, OriginalsAre
  <2> QED  BY <1>0, <1>1, <2>1, NoShortLoop
<1> HIDE DEF p
<1>4. \A f \in D : f # None /\ f \in Nat /\ (h[f] # None => h[f] \in D)
  BY OriginalsAre
<1>5. k \in Pointers(D)
  BY <1>1, <1>2, <1>3, <1>4 DEF Pointers, HandedOn, p
<1>6. ASSUME NEW f \in D, k[f] # None, k[k[f]] # None
      PROVE  /\ f \in heads => k[f] < f
             /\ k[k[k[f]]] # None => k[k[f]] < f
  <2>1. CASE h[f] = x
    <3> DEFINE q == h[p]
    <3>1. k[f] = p /\ k[p] = q /\ q # None /\ q \in D
      BY <1>2, <1>3, <1>4, <1>6, <2>1
    <3>2. p < f
      BY <1>0, <1>1, <2>1, <3>1 DEF OneLevel, p
    <3>3. k[q] # None => q < f
      <4> SUFFICES ASSUME k[q] # None
                   PROVE  q < f
        OBVIOUS
      <4>1. h[q] # None
        BY <1>2, <1>3, <3>1
      <4>2. p \in heads
        <5>1. x \in Originals(h, p)
          BY <1>1 DEF Originals, p
        <5> QED  BY <1>0, <1>1, <1>3, <5>1 DEF Heads
      <4>3. q < p
        BY <1>0, <1>1, <1>3, <3>1, <4>1, <4>2 DEF InOrder
      <4>4. p \in Nat /\ q \in Nat /\ f \in Nat
        BY <1>3, <1>4, <3>1
      <4> HIDE DEF q
      <4> QED  BY <3>2, <4>3, <4>4
    <3> HIDE DEF q
    <3> QED  BY <3>1, <3>2, <3>3
  <2>2. CASE h[f] # x
    <3> DEFINE y == h[f]
    <3>1. k[f] = y /\ y # None /\ y \in D /\ y # x
      BY <1>2, <1>4, <1>6, <2>2
    <3>2. h[y] # x
      <4>1. f \in Originals(h, y)
        BY <1>1 DEF Originals
      <4> HIDE DEF y
      <4> QED  BY <1>0, <1>1, <3>1, <4>1 DEF OneLevel
    <3> DEFINE q == h[y]
    <3>3. k[y] = q /\ q # None /\ q \in D
      BY <1>2, <1>4, <1>6, <3>1, <3>2
    <3>4. k[q] # None => h[q] # None
      BY <1>2, <1>3, <3>3
    <3>5. (f \in heads => y < f) /\ (h[q] # None => q < f)
      BY <1>0, <1>1, <3>1, <3>3 DEF InOrder
    <3> HIDE DEF y, q
    <3> QED  BY <3>1, <3>3, <3>4, <3>5
  <2> QED  BY <2>1, <2>2
<1>7. InOrder(k, heads)
  BY <1>1, <1>6 DEF InOrder
<1>8. Rooted(r, k)
  <2>1. r[x] = r[p]
    BY <1>0, <1>1, <1>3 DEF Rooted, p
  <2>2. \A f \in D : r[f] = IF k[f] = None THEN f ELSE r[k[f]]
    BY <1>0, <1>1, <1>2, <1>3, <2>1 DEF Rooted
  <2> QED  BY <1>1, <2>2 DEF Rooted
<1>9. \A f \in D : k[f] = None <=> h[f] = None
  BY <1>2, <1>3
<1>10. \A f \in D : Originals(h, f) = {} => Originals(k, f) = {}
  <2> SUFFICES ASSUME NEW f \in D, NEW g \in D, k[g] = f
               PROVE  \E e \in D : h[e] = f
    BY <1>1 DEF Originals
  <2>1. CASE h[g] = x
    BY <1>2, <2>1 DEF p
  <2>2. CASE h[g] # x
    BY <1>2, <2>2
  <2> QED  BY <2>1, <2>2
<1>11. Originals(k, x) = {}
  BY <1>1, <1>2, <1>3 DEF Originals
<1> HIDE DEF k
<1>12. SoMoved(k, h, x, heads, r)
  BY <1>1, <1>5, <1>7, <1>8, <1>9, <1>10, <1>11 DEF SoMoved
<1> QED  BY <1>12 DEF k

\* The call for a row hands on the duplicates of its original.
LEMMA RowHandsOn ==
    ASSUME NEW n \in Nat, NEW D \in SUBSET (1 .. n), NEW o \in Pointers(D),
           NEW T \in SUBSET Chained(o), NEW t \in T, Upper(o, T),
           NEW r, NEW h \in Pointers(D), LoopFree(h), Handed(h, o, T \ {t}, r)
    PROVE  Handed(Loosened(h, o[t]), o, T, r)
<1> DEFINE x == o[t]
           heads == Heads(o)
<1>1. DOMAIN o = D /\ DOMAIN h = D
  BY DEF Pointers
<1>2. \A f \in D : h[f] = None <=> o[f] = None
  BY <1>1 DEF Handed
<1>3. T \in SUBSET D /\ x \in D /\ x # None /\ o[x] # None /\ h[x] # None /\ x \in heads
  <2>1. T \in SUBSET D /\ \A c \in T : o[c] # None /\ o[o[c]] # None
    BY <1>1 DEF Chained
  <2>2. x \in D /\ x # None
    BY <2>1, OriginalsAre
  <2>3. t \in Originals(o, x)
    BY <1>1, <2>1 DEF Originals
  <2> QED  BY <1>1, <1>2, <2>1, <2>2, <2>3 DEF Heads
<1>4. InOrder(h, heads) /\ Rooted(r, h) /\ Heads(h) \subseteq heads
  BY DEF Handed
<1>5. h[h[x]] # None => h[x] < x
  BY <1>1, <1>3, <1>4 DEF InOrder
<1>6. OneLevel(h, x)
  <2> SUFFICES ASSUME NEW f \in D, h[f] = x
               PROVE  Originals(h, f) = {} /\ (h[h[x]] # None => h[x] < f)
    BY <1>1 DEF OneLevel
  <2>1. (f \in heads => x < f) /\ (h[h[x]] # None => h[x] < f)
    BY <1>1, <1>3, <1>4 DEF InOrder
  <2>2. CASE f \notin heads
    BY <1>1, <1>4, <2>1, <2>2 DEF Heads
  <2>3. CASE f \in heads
    <3>1. PICK c \in D : o[c] = f
      BY <1>1, <2>3 DEF Heads, Originals
    <3>2. x < f /\ f \in Nat /\ f # None /\ f # x
      <4>1. f \in Nat /\ f # None /\ x < f
        BY <2>1, <2>3, OriginalsAre
      <4> HIDE DEF x
      <4>2. x \in Nat
        BY <1>3
      <4> QED  BY <4>1, <4>2
    <3>3. c \in Chained(o)
      BY <1>1, <1>2, <1>3, <3>1, <3>2 DEF Chained
    <3>4. c \in T /\ c # t
      BY <3>1, <3>2, <3>3 DEF Upper
    <3>5. Originals(h, f) = {}
      BY <3>1, <3>4 DEF Handed
    <3> QED  BY <2>1, <3>5
  <2> QED  BY <2>2, <2>3
<1> DEFINE k == HandedOn(h, x)
<1>7. Loosened(h, x) = k
  <2> HIDE DEF x
  <2> QED  BY <1>3, <1>5, <1>6, LoosenedHandsOn
<1>8. /\ k \in Pointers(D) /\ InOrder(k, heads) /\ Rooted(r, k)
      /\ \A f \in D : k[f] = None <=> h[f] = None
      /\ \A f \in D : Originals(h, f) = {} => Originals(k, f) = {}
      /\ Originals(k, x) = {}
  <2>1. Movable(h, x, heads, r)
    BY <1>3, <1>4, <1>6 DEF Movable
  <2> HIDE DEF x, k, heads
  <2>2. SoMoved(HandedOn(h, x), h, x, heads, r)
    BY <1>3, <2>1, HandedOnIs
  <2>3. SoMoved(k, h, x, heads, r)
    BY <2>2 DEF k
  <2> QED  BY <1>1, <2>3 DEF SoMoved
<1> HIDE DEF k
<1>9. Heads(k) \subseteq heads
  <2>1. DOMAIN k = D
    BY <1>8 DEF Pointers
  <2>2. Heads(k) \subseteq Heads(h)
    BY <1>1, <1>8, <2>1 DEF Heads
  <2> QED  BY <1>4, <2>2
<1>10. ASSUME NEW c \in T
       PROVE  Originals(k, o[c]) = {}
  <2>1. o[c] \in D
    <3>1. c \in D /\ o[c] # None
      BY <1>1 DEF Chained
    <3> QED  BY <3>1, OriginalsAre
  <2>2. CASE c = t
    BY <1>8, <2>2
  <2>3. CASE c # t
    <3>1. Originals(h, o[c]) = {}
      BY <2>3 DEF Handed
    <3> QED  BY <1>8, <2>1, <3>1
  <2> QED  BY <2>2, <2>3
<1>11. Handed(k, o, T, r)
  BY <1>1, <1>2, <1>4, <1>8, <1>9, <1>10 DEF Handed
<1> QED  BY <1>7, <1>11

\* Every chain has an end: the one that is in whatever has the finding and
\* the original of each that it has.
LEMMA RootsExist ==
    ASSUME NEW D, NEW o \in Pointers(D)
    PROVE  \E r : r = [f \in D |-> IF o[f] = None THEN f ELSE r[o[f]]]
<1> DEFINE Along(S) == \A g \in S : o[g] # None => o[g] \in S
           ends(f) == {y \in D : o[y] = None
                                 /\ \A S \in SUBSET D : f \in S /\ Along(S) => y \in S}
           r == [f \in D |-> CHOOSE y : y \in ends(f)]
<1>1. \A f \in D : o[f] # None => o[f] \in D
  BY DEF Pointers
<1>2. ASSUME NEW f \in D, o[f] = None
      PROVE  r[f] = f
  <2>1. Along({f}) /\ {f} \in SUBSET D
    BY <1>2
  <2> HIDE DEF Along
  <2>2. ends(f) = {f}
    BY <1>2, <2>1
  <2> HIDE DEF ends
  <2> QED  BY <2>2
<1>3. ASSUME NEW f \in D, o[f] # None
      PROVE  r[f] = r[o[f]]
  <2> DEFINE x == o[f]
  <2>1. x \in D
    BY <1>1, <1>3
  <2>2. ASSUME NEW y \in ends(f)
        PROVE  y \in ends(x)
    <3>1. ASSUME NEW S \in SUBSET D, x \in S, Along(S)
          PROVE  y \in S
      <4>1. Along(S \cup {f}) /\ S \cup {f} \in SUBSET D /\ f \in S \cup {f}
        BY <3>1
      <4> HIDE DEF Along
      <4>2. y \in S \cup {f}
        BY <4>1
      <4> QED  BY <1>3, <4>2
    <3> HIDE DEF Along, x
    <3> QED  BY <3>1
  <2>3. ASSUME NEW y \in ends(x)
        PROVE  y \in ends(f)
    <3>1. \A S \in SUBSET D : f \in S /\ Along(S) => x \in S
      BY <1>3
    <3> HIDE DEF Along, x
    <3> QED  BY <3>1
  <2> HIDE DEF ends
  <2>4. ends(f) = ends(x)
    BY <2>2, <2>3
  <2> QED  BY <2>1, <2>4
<1> HIDE DEF r
<1>4. \A f \in D : r[f] = IF o[f] = None THEN f ELSE r[o[f]]
  BY <1>2, <1>3
<1>5. DOMAIN r = D /\ r = [f \in DOMAIN r |-> r[f]]
  BY DEF r
<1>6. r = [f \in D |-> IF o[f] = None THEN f ELSE r[o[f]]]
  BY <1>4, <1>5
<1> QED  BY <1>6

\* The graphs that the rows of T may have made.
HandedGraphs(D, o, r) ==
    [T \in SUBSET Chained(o) |-> {h \in Pointers(D) : Upper(o, T) => Handed(h, o, T, r)}]

\* One run makes of every duplicate a duplicate of the one at the end of its chain.
LEMMA OrderedRepaired ==
    ASSUME NEW n \in Nat, NEW D \in SUBSET (1 .. n), NEW o \in Pointers(D),
           LoopFree(o), Ordered(o), NEW r, Rooted(r, o)
    PROVE  \A f \in D : /\ Repaired(o)[f] = IF o[f] = None THEN None ELSE r[f]
                        /\ o[f] # None => r[f] # f
<1> DEFINE Reached == HandedGraphs(D, o, r)
           R == Repaired(o)
<1>1. DOMAIN o = D /\ Chained(o) \in SUBSET D
  BY DEF Pointers, Chained
<1>2. RowsReach(D, o, Reached)
  <2>1. o \in Reached[{}]
    <3>1. Handed(o, o, {}, r)
      BY DEF Handed, Ordered
    <3> QED  BY <3>1 DEF HandedGraphs
  <2>2. ASSUME NEW T \in SUBSET Chained(o), NEW g \in Pointers(D), T # {}, LoopFree(g),
               g \in Reached[T \ {LastRow(o, T)}]
        PROVE  Loosened(g, o[LastRow(o, T)]) \in Reached[T]
    <3> DEFINE t == LastRow(o, T)
    <3>1. /\ t \in T /\ \A c \in T : o[t] <= o[c]
          /\ t \in D /\ o[t] \in D
      BY <2>2, LastRowIs
    <3>2. T \ {t} \in SUBSET Chained(o) /\ g \in Reached[T \ {t}]
      BY <2>2
    <3> HIDE DEF t
    <3>3. Loosened(g, o[t]) \in Pointers(D)
      BY <2>2, <3>1, LoosenedTames DEF Tamed
    <3>4. ASSUME Upper(o, T)
          PROVE  Handed(Loosened(g, o[t]), o, T, r)
      <4>1. Upper(o, T \ {t})
        <5>1. ASSUME NEW c \in T \ {t}, NEW d \in Chained(o), o[c] < o[d]
              PROVE  d \in T \ {t}
          <6>1. d \in T
            BY <3>4, <5>1 DEF Upper
          <6>2. o[t] <= o[c] /\ o[t] \in Nat /\ o[c] \in Nat /\ o[d] \in Nat
            <7>1. \A e \in Chained(o) : e \in D /\ o[e] # None
              BY <1>1 DEF Chained
            <7> QED  BY <3>1, <7>1, OriginalsAre
          <6>3. o[d] # o[t]
            BY <5>1, <6>2
          <6> QED  BY <6>1, <6>3
        <5> QED  BY <5>1 DEF Upper
      <4>2. Handed(g, o, T \ {t}, r)
        BY <3>2, <4>1 DEF HandedGraphs
      <4> QED  BY <2>2, <3>1, <3>4, <4>2, RowHandsOn
    <3> QED  BY <3>3, <3>4 DEF HandedGraphs, t
  <2> HIDE DEF Reached
  <2> QED  BY <2>1, <2>2 DEF RowsReach
<1>3. R \in Pointers(D) /\ Handed(R, o, Chained(o), r)
  <2>1. R \in Reached[Chained(o)]
    <3> HIDE DEF Reached
    <3> QED  BY <1>1, <1>2, RepairedReaches
  <2>2. Upper(o, Chained(o))
    BY DEF Upper
  <2> QED  BY <2>1, <2>2 DEF HandedGraphs
<1> HIDE DEF R, Reached
<1>4. /\ \A f \in D : R[f] = None <=> o[f] = None
      /\ \A f \in D : Originals(R, f) # {} => Originals(o, f) # {}
      /\ \A c \in Chained(o) : Originals(R, o[c]) = {}
      /\ \A f \in D : r[f] = IF R[f] = None THEN f ELSE r[R[f]]
  <2>1. DOMAIN R = D
    BY <1>3 DEF Pointers
  <2>2. \A f \in D : Originals(R, f) # {} => Originals(o, f) # {}
    BY <1>1, <1>3, <2>1 DEF Handed, Heads
  <2> QED  BY <1>1, <1>3, <2>1, <2>2 DEF Handed, Rooted
<1>5. ASSUME NEW f \in D, R[f] # None
      PROVE  R[R[f]] = None
  <2> DEFINE y == R[f]
  <2>1. y \in D /\ f \in Originals(R, y)
    BY <1>3, <1>5 DEF Pointers, Originals
  <2> HIDE DEF y
  <2>2. PICK c \in D : o[c] = y
    <3>1. Originals(o, y) # {}
      BY <1>4, <2>1
    <3> QED  BY <1>1, <3>1 DEF Originals
  <2>3. CASE o[y] = None
    BY <1>4, <2>1, <2>3 DEF y
  <2>4. CASE o[y] # None
    <3>1. y # None
      BY <2>1, OriginalsAre
    <3>2. c \in Chained(o)
      BY <1>1, <2>2, <2>4, <3>1 DEF Chained
    <3> QED  BY <1>4, <2>1, <2>2, <3>2
  <2> QED  BY <2>3, <2>4
<1>6. ASSUME NEW f \in D
      PROVE  R[f] = (IF o[f] = None THEN None ELSE r[f]) /\ (o[f] # None => r[f] # f)
  <2>1. CASE R[f] = None
    BY <1>4, <2>1
  <2>2. CASE R[f] # None
    <3>1. R[f] \in D /\ R[R[f]] = None
      BY <1>3, <1>5, <2>2 DEF Pointers
    <3>2. r[f] = r[R[f]] /\ r[R[f]] = R[f] /\ o[f] # None
      BY <1>4, <2>2, <3>1
    <3>3. R[f] # f
      BY <2>2, <3>1
    <3> QED  BY <3>2, <3>3
  <2> QED  BY <2>1, <2>2
<1> QED  BY <1>6 DEF R

-----------------------------------------------------------------------------
(***************************************************************************)
(* The repair of a chain of four, whatever the ages.                       *)
(***************************************************************************)
\* The call for x has one duplicate to give away, k, and that makes g of o.
GivesOne(o, x, k, g) ==
    o[x] # None /\ Originals(Cut(o, x), Go(o, x)) = {k} /\ g = Given(Cut(o, x), k, o, x)

\* The calls one level deeper.
Deeper(D, depth) == RemoveLoop(D)[depth - 1]

\* It goes on with that one, in a graph that has no loop either.
LEMMA GoesOnWithOne ==
    ASSUME NEW n \in Nat, NEW D \in SUBSET (1 .. n)
    PROVE  \A o \in Pointers(D), x \in D : \A k, g :
               LoopFree(o) /\ GivesOne(o, x, k, g) =>
                   /\ k \in D /\ g \in Pointers(D) /\ LoopFree(g)
                   /\ \A depth \in 1 .. Depth :
                          RemoveLoop(D)[depth][o][x] = Deeper(D, depth)[g][k]
<1> SUFFICES ASSUME NEW o \in Pointers(D), NEW x \in D, NEW k, NEW g,
                    LoopFree(o), GivesOne(o, x, k, g), NEW depth \in 1 .. Depth
             PROVE  /\ k \in D /\ g \in Pointers(D) /\ LoopFree(g)
                    /\ RemoveLoop(D)[depth][o][x] = Deeper(D, depth)[g][k]
  <2>1. 1 \in 1 .. Depth
    BY DEF Depth
  <2> QED  BY <2>1
<1> DEFINE deeper == RemoveLoop(D)[depth - 1]
           S == {k}
<1>0. /\ o[x] # None /\ Originals(Cut(o, x), Go(o, x)) = {k}
      /\ g = Given(Cut(o, x), k, o, x)
      /\ depth \in 0 .. Depth /\ depth # 0
  BY DEF GivesOne
<1>1. D \in SUBSET Nat /\ None \notin D /\ DOMAIN o = D /\ o[x] \in D
  BY <1>0 DEF None, Pointers
<1>2. PICK B : LeadsTo(B, o, o[x])
  BY <1>1, LeadersExist
<1> DEFINE Good == {h \in Pointers(D) : Repairs(h, o, B, o[x])}
<1>3. Repairs(Cut(o, x), o, B, o[x]) /\ Cut(o, x) \in Good
  <2>1. Repairs(Cut(o, x), o, B, o[x])
    BY <1>0, <1>1, <1>2, CutRepairs
  <2> QED  BY <1>1, <2>1 DEF Repairs
<1>4. k \in Originals(Cut(o, x), Go(o, x))
  BY <1>0
<1>5. /\ k \in D /\ g \in Pointers(D) /\ LoopFree(g) /\ g[k] # None
      /\ \E C : /\ LeadsTo(C, g, g[k])
                /\ \A h : Repairs(h, g, C, g[k]) => Repairs(h, o, B, o[x])
  BY <1>0, <1>1, <1>2, <1>3, <1>4, GivenRepairs
<1>6. ASSUME NEW f \in S, NEW h \in Good
      PROVE  deeper[Given(h, f, o, x)][f] \in Good
  <2> DEFINE e == Given(h, f, o, x)
             lower == depth - 1
  <2>1. Repairs(h, o, B, o[x]) /\ f \in Originals(Cut(o, x), Go(o, x))
    BY <1>0
  <2>2. /\ f \in D /\ e \in Pointers(D) /\ LoopFree(e) /\ e[f] # None
        /\ \E C : /\ LeadsTo(C, e, e[f])
                  /\ \A i : Repairs(i, e, C, e[f]) => Repairs(i, o, B, o[x])
    BY <1>0, <1>1, <1>2, <2>1, GivenRepairs
  <2> HIDE DEF e, Good, S
  <2>3. PICK C : /\ LeadsTo(C, e, e[f])
                 /\ \A i : Repairs(i, e, C, e[f]) => Repairs(i, o, B, o[x])
    BY <2>2
  <2>4. lower \in 0 .. Depth
    BY DEF Depth
  <2> HIDE DEF lower
  <2>5. Repairs(RemoveLoop(D)[lower][e][f], e, C, e[f])
    BY <2>2, <2>3, <2>4, RemoveLoopRepairs
  <2>6. Repairs(deeper[e][f], o, B, o[x])
    BY <2>3, <2>5 DEF lower
  <2>7. deeper[e][f] \in Pointers(D)
    BY <1>1, <2>6 DEF Repairs
  <2> QED  BY <2>6, <2>7 DEF Good, e
<1> DEFINE Reached == [T \in SUBSET S |-> IF T = {} THEN {Cut(o, x)} ELSE {deeper[g][k]}]
<1>7. S \in SUBSET (1 .. n)
  BY <1>5
<1>8. GivenReaches(deeper, o, x, S, Good, Reached)
  <2>1. Cut(o, x) \in Reached[{}]
    OBVIOUS
  <2>2. ASSUME NEW T \in SUBSET S, NEW f \in S, NEW h \in Good, f \in T, h \in Reached[T \ {f}]
        PROVE  deeper[Given(h, f, o, x)][f] \in Reached[T]
    <3>1. f = k /\ T \ {f} = {} /\ T # {}
      BY <2>2
    <3>2. h = Cut(o, x)
      BY <2>1, <2>2, <3>1
    <3> HIDE DEF Good, deeper
    <3> QED  BY <1>0, <3>1, <3>2
  <2> HIDE DEF Reached, Good, deeper, S
  <2> QED  BY <2>1, <2>2 DEF GivenReaches
<1>9. Reached[S] = {deeper[g][k]}
  OBVIOUS
<1>10. RemoveLoop(D)[depth][o][x] = AllGiven(deeper, o, x)
  <2>1. RemoveLoop(D)[depth][o][x] = Removing(deeper, depth, o, x)
    BY <1>0, OneCallIs
  <2>2. o[x] # x
    BY <1>1, NoShortLoop
  <2> HIDE DEF deeper
  <2> QED  BY <1>0, <2>1, <2>2 DEF Removing
<1> HIDE DEF Good, Reached, deeper
<1>11. S = Originals(Cut(o, x), Go(o, x))
  BY <1>0
<1> HIDE DEF S
<1>12. AllGiven(deeper, o, x) \in Reached[S]
  BY <1>3, <1>6, <1>7, <1>8, <1>11, AllGivenReaches
<1> QED  BY <1>5, <1>9, <1>10, <1>12 DEF deeper, Deeper

\* x stays below its original, which need not be older where it is the end.
InPlace(o, x) == o[x] # None /\ (o[o[x]] # None => o[x] < x)

\* Then it hands on its one duplicate.
LEMMA HandsOnOne ==
    ASSUME NEW n \in Nat, NEW D \in SUBSET (1 .. n), NEW o \in Pointers(D), LoopFree(o),
           NEW x \in D, InPlace(o, x), NEW k, Originals(o, x) = {k},
           NEW g, g = [o EXCEPT ![k] = o[x]]
    PROVE  GivesOne(o, x, k, g)
<1> DEFINE p == o[x]
<1>1. DOMAIN o = D /\ p \in D /\ p \in Nat /\ x \in Nat /\ p # None
  BY OriginalsAre DEF InPlace
<1>2. p # x /\ o[p] # x
  BY <1>1, NoShortLoop
<1>3. ~Swapped(o, x)
  <2>1. o[p] # None => p < x
    BY DEF InPlace
  <2> HIDE DEF p
  <2>2. ~(p > x /\ o[p] # None)
    BY <1>1, <2>1
  <2> QED  BY <2>2 DEF Swapped, p
<1>4. Keep(o, x) = p /\ Go(o, x) = x /\ Cut(o, x) = o
  BY <1>2, <1>3 DEF Keep, Go, Cut
<1>5. k \in D /\ o[k] = x /\ k # p
  <2>1. k \in Originals(o, x)
    OBVIOUS
  <2> QED  BY <1>1, <1>2, <2>1 DEF Originals
<1>6. g = Given(Cut(o, x), k, o, x)
  <2>1. Given(Cut(o, x), k, o, x) = [o EXCEPT ![k] = p, ![p] = o[p]]
    BY <1>4 DEF Given
  <2> QED  BY <1>1, <1>5, <2>1 DEF Pointers
<1>7. Originals(Cut(o, x), Go(o, x)) = {k}
  BY <1>4
<1>8. o[x] # None
  BY <1>1
<1> QED  BY <1>6, <1>7, <1>8 DEF GivesOne

\* Below x, that has the end as its original, are k and below that j.
Column(o, x, k, j) ==
    /\ o[x] # None /\ o[o[x]] = None
    /\ Originals(o, x) = {k} /\ Originals(o, k) = {j} /\ Originals(o, j) = {}

\* A call for x leaves all three with the end.
LEMMA ColumnFlattens ==
    ASSUME NEW n \in Nat, NEW D \in SUBSET (1 .. n), NEW o \in Pointers(D), LoopFree(o),
           NEW x \in D, NEW k, NEW j, Column(o, x, k, j)
    PROVE  Loosened(o, x) = [o EXCEPT ![k] = o[x], ![j] = o[x]]
<1> DEFINE d == o[x]
           g == [o EXCEPT ![k] = d]
           h == [o EXCEPT ![k] = d, ![j] = d]
<1>0. /\ \A e \in Pointers(D), f \in D : \A c, i :
             LoopFree(e) /\ GivesOne(e, f, c, i) =>
                 /\ c \in D /\ i \in Pointers(D) /\ LoopFree(i)
                 /\ \A depth \in 1 .. Depth :
                        RemoveLoop(D)[depth][e][f] = Deeper(D, depth)[i][c]
      /\ \A e \in Pointers(D), f \in D, depth \in 0 .. Depth :
             IsLeaf(e, f) => RemoveLoop(D)[depth][e][f] = e
  BY GoesOnWithOne, CallsForNothing
<1>1. DOMAIN o = D /\ d \in D /\ d # None /\ o[d] = None
  BY OriginalsAre DEF Column
<1>2. /\ k \in D /\ o[k] = x /\ j \in D /\ o[j] = k /\ x # None /\ k # None
      /\ \A f \in D : (o[f] = x => f = k) /\ (o[f] = k => f = j) /\ o[f] # j
  <2>1. k \in Originals(o, x) /\ j \in Originals(o, k)
    BY DEF Column
  <2>2. k \in D /\ o[k] = x /\ j \in D /\ o[j] = k
    BY <1>1, <2>1 DEF Originals
  <2>3. \A f \in D : (o[f] = x => f \in {k}) /\ (o[f] = k => f \in {j}) /\ o[f] # j
    BY <1>1 DEF Column, Originals
  <2>4. x # None /\ k # None
    BY <2>2, OriginalsAre
  <2> QED  BY <2>2, <2>3, <2>4
<1>3. k # d /\ j # d /\ x # d /\ k # x /\ j # k /\ j # x
  BY <1>1, <1>2, NoShortLoop DEF Column
<1> HIDE DEF d
<1>4. GivesOne(o, x, k, g) /\ g \in Pointers(D) /\ LoopFree(g)
      /\ Loosened(o, x) = RemoveLoop(D)[Depth - 1][g][k]
  <2> DEFINE gg == [o EXCEPT ![k] = d]
  <2>1. gg = [o EXCEPT ![k] = o[x]] /\ Originals(o, x) = {k} /\ InPlace(o, x)
    BY DEF Column, InPlace, d
  <2> HIDE DEF gg
  <2>2. GivesOne(o, x, k, gg)
    BY <2>1, HandsOnOne
  <2>3. Depth \in 1 .. Depth
    BY DEF Depth
  <2>4. gg \in Pointers(D) /\ LoopFree(gg)
        /\ RemoveLoop(D)[Depth][o][x] = Deeper(D, Depth)[gg][k]
    BY <1>0, <2>2, <2>3
  <2> QED  BY <1>1, <2>2, <2>4 DEF Loosened, Deeper, gg
<1>5. RemoveLoop(D)[Depth - 1][g][k] = RemoveLoop(D)[Depth - 2][h][j]
      /\ h \in Pointers(D)
  <2> DEFINE lower == Depth - 1
  <2>1. lower \in 1 .. Depth /\ lower - 1 = Depth - 2
    BY DEF Depth
  <2>2. g[k] = d /\ g[d] = None /\ DOMAIN g = D
    BY <1>1, <1>2, <1>3
  <2>3. InPlace(g, k)
    BY <1>1, <2>2 DEF InPlace
  <2>4. Originals(g, k) = {j}
    BY <1>1, <1>2, <1>3 DEF Originals
  <2>5. h = [g EXCEPT ![j] = g[k]]
    BY <1>1, <1>2, <1>3
  <2> HIDE DEF g, h, lower
  <2>6. GivesOne(g, k, j, h)
    BY <1>2, <1>4, <2>3, <2>4, <2>5, HandsOnOne
  <2>7. h \in Pointers(D) /\ RemoveLoop(D)[lower][g][k] = Deeper(D, lower)[h][j]
    BY <1>0, <1>2, <1>4, <2>1, <2>6
  <2> QED  BY <2>1, <2>7 DEF lower, Deeper
<1>6. RemoveLoop(D)[Depth - 2][h][j] = h
  <2> DEFINE lower == Depth - 2
  <2>1. lower \in 0 .. Depth
    BY DEF Depth
  <2>2. h[j] = d /\ h[d] = None /\ Originals(h, j) = {}
    BY <1>1, <1>2, <1>3 DEF Originals
  <2>3. IsLeaf(h, j)
    BY <2>2 DEF IsLeaf
  <2> HIDE DEF h, lower
  <2>4. RemoveLoop(D)[lower][h][j] = h
    BY <1>0, <1>2, <1>5, <2>1, <2>3
  <2> QED  BY <2>4 DEF lower
<1> HIDE DEF g
<1> QED  BY <1>4, <1>5, <1>6 DEF d

\* A run that has two rows with different originals.
LEMMA TwoRows ==
    ASSUME NEW n \in Nat, NEW D \in SUBSET (1 .. n), NEW o \in Pointers(D), LoopFree(o),
           NEW s, NEW t, Chained(o) = {s, t}, o[t] < o[s]
    PROVE  Repaired(o) = Loosened(Loosened(o, o[s]), o[t])
<1> DEFINE g == Loosened(o, o[s])
           h == Loosened(g, o[t])
           Reached == [T \in SUBSET Chained(o) |->
                           IF T = {} THEN {o} ELSE IF T = {s} THEN {g}
                           ELSE IF T = {s, t} THEN {h} ELSE Pointers(D)]
<1>1. s \in D /\ t \in D /\ o[s] \in Nat /\ o[t] \in Nat /\ s # t
  <2>1. s \in D /\ t \in D
    BY DEF Chained, Pointers
  <2>2. o[s] \in Nat /\ o[t] \in Nat
    BY <2>1, OriginalsAre
  <2>3. o[s] # o[t]
    BY <2>2
  <2> QED  BY <2>1, <2>2, <2>3
<1> HIDE DEF g, h
<1>2. /\ {} \in SUBSET Chained(o) /\ Reached[{}] = {o}
      /\ {s} \in SUBSET Chained(o) /\ Reached[{s}] = {g}
      /\ {s, t} \in SUBSET Chained(o) /\ Reached[{s, t}] = {h}
      /\ \A T \in SUBSET Chained(o) :
             T \in {{}, {s}, {s, t}} \/ (T = {t} /\ Reached[T] = Pointers(D))
  <2>1. {s} # {} /\ {s, t} # {} /\ {s} # {s, t} /\ {t} # {s} /\ {t} # {} /\ {t} # {s, t}
    BY <1>1
  <2>2. ASSUME NEW T \in SUBSET Chained(o)
        PROVE  T = {} \/ T = {s} \/ T = {s, t} \/ T = {t}
    <3>1. T \in SUBSET {s, t}
      OBVIOUS
    <3> QED  BY <3>1
  <2>3. {} \in SUBSET Chained(o) /\ {s} \in SUBSET Chained(o) /\ {s, t} \in SUBSET Chained(o)
    OBVIOUS
  <2> DEFINE C == Chained(o)
             P == Pointers(D)
             both == {s, t}
  <2> HIDE DEF C, P, both
  <2>4. Reached[{}] = {o} /\ Reached[{s}] = {g}
    BY <2>1, <2>3 DEF C, P, both
  <2>5. Reached[both] = {h}
    BY <2>1, <2>3 DEF C, P, both
  <2>6. ASSUME NEW T \in SUBSET Chained(o), T = {t}
        PROVE  Reached[T] = Pointers(D)
    BY <2>1, <2>6
  <2> HIDE DEF Reached
  <2>7. ASSUME NEW T \in SUBSET Chained(o)
        PROVE  T \in {{}, {s}, {s, t}} \/ (T = {t} /\ Reached[T] = Pointers(D))
    BY <2>2, <2>6
  <2>8. Reached[{s, t}] = {h}
    BY <2>5 DEF both
  <2> QED  BY <2>3, <2>4, <2>7, <2>8
<1>3. LastRow(o, {s}) = s /\ LastRow(o, {s, t}) = t
  <2>1. LastRow(o, {s}) \in {s}
    BY <1>2, LastRowIs
  <2>2. /\ LastRow(o, {s, t}) \in {s, t}
        /\ \A f \in {s, t} : o[LastRow(o, {s, t})] <= o[f]
    BY <1>2, LastRowIs
  <2>3. ~(o[s] <= o[t])
    BY <1>1
  <2> QED  BY <2>1, <2>2, <2>3
<1> HIDE DEF Reached
<1>4. RowsReach(D, o, Reached)
  <2>1. ASSUME NEW T \in SUBSET Chained(o), NEW e \in Pointers(D), T # {}, LoopFree(e),
               e \in Reached[T \ {LastRow(o, T)}]
        PROVE  Loosened(e, o[LastRow(o, T)]) \in Reached[T]
    <3>1. CASE T = {s}
      <4>1. T \ {LastRow(o, T)} = {}
        BY <1>3, <3>1
      <4>2. e = o
        BY <1>2, <2>1, <4>1
      <4> QED  BY <1>2, <1>3, <3>1, <4>2 DEF g
    <3>2. CASE T = {s, t}
      <4>1. T \ {LastRow(o, T)} = {s}
        BY <1>1, <1>3, <3>2
      <4>2. e = g
        BY <1>2, <2>1, <4>1
      <4> QED  BY <1>2, <1>3, <3>2, <4>2 DEF h
    <3>3. CASE Reached[T] = Pointers(D)
      <4>1. o[LastRow(o, T)] \in D
        BY <2>1, LastRowIs
      <4>2. Loosened(e, o[LastRow(o, T)]) \in Pointers(D)
        BY <2>1, <4>1, LoosenedTames DEF Tamed
      <4> QED  BY <3>3, <4>2
    <3> QED  BY <1>2, <2>1, <3>1, <3>2, <3>3
  <2> QED  BY <1>2, <2>1 DEF RowsReach
<1>5. Repaired(o) \in Reached[Chained(o)]
  BY <1>4, RepairedReaches
<1> QED  BY <1>2, <1>5 DEF g, h

\* All findings are in one chain.
Path(o, a, b, c, d) ==
    DOMAIN o = {a, b, c, d} /\ o[a] = b /\ o[b] = c /\ o[c] = d /\ o[d] = None

\* In a chain without loops every finding has the one before it as a duplicate.
LEMMA PathIs ==
    ASSUME NEW n \in Nat, NEW D \in SUBSET (1 .. n)
    PROVE  \A o \in Pointers(D) : \A a, b, c, d :
               LoopFree(o) /\ Path(o, a, b, c, d) =>
                   /\ D = {a, b, c, d} /\ DOMAIN o = D
                   /\ a \in Nat /\ b \in Nat /\ c \in Nat /\ d \in Nat
                   /\ a # None /\ b # None /\ c # None /\ d # None
                   /\ a # b /\ a # c /\ a # d /\ b # c /\ b # d /\ c # d
                   /\ Chained(o) = {a, b}
<1> SUFFICES ASSUME NEW o \in Pointers(D), NEW a, NEW b, NEW c, NEW d,
                    LoopFree(o), Path(o, a, b, c, d)
             PROVE  /\ D = {a, b, c, d} /\ DOMAIN o = D
                    /\ a \in Nat /\ b \in Nat /\ c \in Nat /\ d \in Nat
                    /\ a # None /\ b # None /\ c # None /\ d # None
                    /\ a # b /\ a # c /\ a # d /\ b # c /\ b # d /\ c # d
                    /\ Chained(o) = {a, b}
  OBVIOUS
<1>1. D = {a, b, c, d} /\ DOMAIN o = D
  BY DEF Path, Pointers
<1>2. \A f \in D : f \in Nat /\ f # None
  BY OriginalsAre
<1>3. \A f \in D : o[f] # f /\ (o[f] \in D => o[o[f]] # f)
  BY <1>1, NoShortLoop
<1>4. a # b /\ a # c /\ b # c /\ b # d /\ c # d
  BY <1>1, <1>3 DEF Path
<1>5. a # d
  BY <1>1, <1>2 DEF Path
<1>6. Chained(o) = {a, b}
  BY <1>1, <1>2, <1>4, <1>5 DEF Path, Chained
<1> QED  BY <1>1, <1>2, <1>4, <1>5, <1>6

\* The duplicates of the last but one are handed on after those of the third.
LEMMA AscendingPath ==
    ASSUME NEW n \in Nat, NEW D \in SUBSET (1 .. n)
    PROVE  \A o \in Pointers(D) : \A a, b, c, d :
               LoopFree(o) /\ Path(o, a, b, c, d) /\ b < c =>
                   \A f \in D : Repaired(o)[f] = IF f = d THEN None ELSE d
<1> SUFFICES ASSUME NEW o \in Pointers(D), NEW a, NEW b, NEW c, NEW d,
                    LoopFree(o), Path(o, a, b, c, d)
             PROVE  b < c => \A f \in D : Repaired(o)[f] = IF f = d THEN None ELSE d
  OBVIOUS
<1> DEFINE g == [o EXCEPT ![b] = d, ![a] = d]
<1>1. /\ D = {a, b, c, d} /\ DOMAIN o = D
      /\ a \in Nat /\ b \in Nat /\ c \in Nat /\ d \in Nat
      /\ a # b /\ a # c /\ a # d /\ b # c /\ b # d /\ c # d
      /\ a # None /\ b # None /\ c # None /\ d # None
      /\ Chained(o) = {a, b}
  BY PathIs
<1>2. o[a] = b /\ o[b] = c /\ o[c] = d /\ o[d] = None
  BY DEF Path
<1> HAVE b < c
<1>3. Repaired(o) = Loosened(Loosened(o, c), b)
  <2>1. Chained(o) = {b, a} /\ o[a] < o[b]
    BY <1>1, <1>2
  <2>2. Repaired(o) = Loosened(Loosened(o, o[b]), o[a])
    BY <2>1, TwoRows
  <2> QED  BY <1>2, <2>2
<1>4. Loosened(o, c) = g
  <2> HIDE DEF g
  <2>1. Originals(o, c) = {b} /\ Originals(o, b) = {a} /\ Originals(o, a) = {}
    BY <1>1, <1>2 DEF Originals
  <2>2. Column(o, c, b, a)
    BY <1>1, <1>2, <2>1 DEF Column
  <2>3. Loosened(o, c) = [o EXCEPT ![b] = o[c], ![a] = o[c]]
    BY <1>1, <2>2, ColumnFlattens
  <2> QED  BY <1>2, <2>3 DEF g
<1>5. g \in Pointers(D) /\ DOMAIN g = D
  BY <1>1 DEF Pointers
<1>6. g[a] = d /\ g[b] = d /\ g[c] = d /\ g[d] = None
  BY <1>1, <1>2
<1> HIDE DEF g
<1>7. Loosened(g, b) = g
  <2>1. Originals(g, b) = {}
    BY <1>1, <1>5, <1>6 DEF Originals
  <2>2. IsLeaf(g, b)
    BY <1>6, <2>1 DEF IsLeaf
  <2>3. Depth \in 0 .. Depth /\ b \in D
    BY <1>1 DEF Depth
  <2> QED  BY <1>5, <2>2, <2>3, CallsForNothing DEF Loosened
<1> QED  BY <1>1, <1>3, <1>4, <1>6, <1>7

\* The two in the middle change places, and then all are handed on to the end.
LEMMA TwistedPath ==
    ASSUME NEW n \in Nat, NEW D \in SUBSET (1 .. n)
    PROVE  \A o \in Pointers(D) : \A a, b, c, d :
               LoopFree(o) /\ Path(o, a, b, c, d) /\ a < c /\ c < b =>
                   \A f \in D : Repaired(o)[f] = IF f = d THEN None ELSE d
<1> SUFFICES ASSUME NEW o \in Pointers(D), NEW a, NEW b, NEW c, NEW d,
                    LoopFree(o), Path(o, a, b, c, d), a < c, c < b
             PROVE  \A f \in D : Repaired(o)[f] = IF f = d THEN None ELSE d
  OBVIOUS
<1> DEFINE g == [o EXCEPT ![a] = c]
           h == [o EXCEPT ![a] = c, ![b] = a]
           k == [o EXCEPT ![a] = d, ![b] = d]
<1>0. /\ \A e \in Pointers(D), f \in D : \A i, j :
             LoopFree(e) /\ GivesOne(e, f, i, j) =>
                 /\ i \in D /\ j \in Pointers(D) /\ LoopFree(j)
                 /\ \A depth \in 1 .. Depth :
                        RemoveLoop(D)[depth][e][f] = Deeper(D, depth)[j][i]
      /\ \A e \in Pointers(D), f \in D, depth \in 0 .. Depth :
             IsLeaf(e, f) => RemoveLoop(D)[depth][e][f] = e
  BY GoesOnWithOne, CallsForNothing
<1>1. /\ D = {a, b, c, d} /\ DOMAIN o = D
      /\ a \in Nat /\ b \in Nat /\ c \in Nat /\ d \in Nat
      /\ a # b /\ a # c /\ a # d /\ b # c /\ b # d /\ c # d
      /\ a # None /\ b # None /\ c # None /\ d # None
      /\ Chained(o) = {a, b}
  BY PathIs
<1>2. o[a] = b /\ o[b] = c /\ o[c] = d /\ o[d] = None
  BY DEF Path
<1>3. Repaired(o) = Loosened(Loosened(o, b), c)
  <2>1. Chained(o) = {a, b} /\ o[b] < o[a]
    BY <1>1, <1>2
  <2>2. Repaired(o) = Loosened(Loosened(o, o[a]), o[b])
    BY <2>1, TwoRows
  <2> QED  BY <1>2, <2>2
<1>4. g[a] = c /\ g[b] = c /\ g[c] = d /\ g[d] = None /\ DOMAIN g = D
  BY <1>1, <1>2
<1>5. h[a] = c /\ h[b] = a /\ h[c] = d /\ h[d] = None /\ DOMAIN h = D
  BY <1>1, <1>2
<1>6. GivesOne(o, b, a, g)
  <2>1. Originals(o, b) = {a}
    BY <1>1, <1>2 DEF Originals
  <2>2. InPlace(o, b)
    BY <1>1, <1>2 DEF InPlace
  <2>3. g = [o EXCEPT ![a] = o[b]]
    BY <1>2
  <2>4. b \in D
    BY <1>1
  <2> HIDE DEF g
  <2> QED  BY <2>1, <2>2, <2>3, <2>4, HandsOnOne
<1>7. GivesOne(g, a, b, h)
  <2>1. Swapped(g, a)
    BY <1>1, <1>4 DEF Swapped
  <2>2. Keep(g, a) = a /\ Go(g, a) = c
    BY <1>4, <2>1 DEF Keep, Go
  <2>3. Cut(g, a) = [g EXCEPT ![a] = None]
    BY <1>4, <2>2 DEF Cut
  <2> DEFINE cut == [g EXCEPT ![a] = None]
  <2>4. cut[a] = None /\ cut[b] = c /\ cut[c] = d /\ cut[d] = None /\ DOMAIN cut = D
    BY <1>1, <1>4
  <2>5. Given(cut, b, g, a) = [cut EXCEPT ![b] = a, ![a] = c]
    BY <1>4, <2>2 DEF Given
  <2>6. h = [cut EXCEPT ![b] = a, ![a] = c]
    BY <1>1
  <2> HIDE DEF cut
  <2>7. Originals(cut, c) = {b}
    BY <1>1, <2>4 DEF Originals
  <2>8. Cut(g, a) = cut
    BY <2>3 DEF cut
  <2> HIDE DEF g, h
  <2> QED  BY <1>1, <1>4, <2>2, <2>5, <2>6, <2>7, <2>8 DEF GivesOne
<1>8. g \in Pointers(D) /\ LoopFree(g) /\ Loosened(o, b) = RemoveLoop(D)[Depth - 1][g][a]
  <2>1. Depth \in 1 .. Depth /\ b \in D
    BY <1>1 DEF Depth
  <2> HIDE DEF g
  <2>2. g \in Pointers(D) /\ LoopFree(g)
        /\ RemoveLoop(D)[Depth][o][b] = Deeper(D, Depth)[g][a]
    BY <1>0, <1>6, <2>1
  <2> QED  BY <1>1, <2>2 DEF Loosened, Deeper
<1>9. /\ h \in Pointers(D) /\ LoopFree(h)
      /\ RemoveLoop(D)[Depth - 1][g][a] = RemoveLoop(D)[Depth - 2][h][b]
  <2> DEFINE lower == Depth - 1
  <2>1. lower \in 1 .. Depth /\ lower - 1 = Depth - 2 /\ a \in D
    BY <1>1 DEF Depth
  <2> HIDE DEF g, h, lower
  <2>2. h \in Pointers(D) /\ LoopFree(h)
        /\ RemoveLoop(D)[lower][g][a] = Deeper(D, lower)[h][b]
    BY <1>0, <1>7, <1>8, <2>1
  <2> QED  BY <2>1, <2>2 DEF lower, Deeper
<1>10. RemoveLoop(D)[Depth - 2][h][b] = h
  <2> DEFINE lower == Depth - 2
  <2>1. lower \in 0 .. Depth /\ b \in D
    BY <1>1 DEF Depth
  <2> HIDE DEF h, lower
  <2>2. Originals(h, b) = {}
    BY <1>1, <1>5 DEF Originals
  <2>3. IsLeaf(h, b)
    BY <1>1, <1>5, <2>2 DEF IsLeaf
  <2>4. RemoveLoop(D)[lower][h][b] = h
    BY <1>0, <1>9, <2>1, <2>3
  <2> QED  BY <2>4 DEF lower
<1>11. Loosened(h, c) = k
  <2>1. k = [h EXCEPT ![a] = h[c], ![b] = h[c]]
    BY <1>1, <1>5
  <2> HIDE DEF h
  <2>2. Originals(h, c) = {a} /\ Originals(h, a) = {b} /\ Originals(h, b) = {}
    BY <1>1, <1>5 DEF Originals
  <2>3. Column(h, c, a, b) /\ c \in D
    BY <1>1, <1>5, <2>2 DEF Column
  <2> HIDE DEF k
  <2> QED  BY <1>9, <2>1, <2>3, ColumnFlattens
<1>12. k[a] = d /\ k[b] = d /\ k[c] = d /\ k[d] = None
  BY <1>1, <1>2
<1>13. Repaired(o) = k
  <2> HIDE DEF g, h, k
  <2> QED  BY <1>3, <1>8, <1>9, <1>10, <1>11
<1> HIDE DEF k
<1> QED  BY <1>1, <1>12, <1>13

\* Four findings of at most four are all of them.
LEMMA FourAreAll ==
    ASSUME NEW D, IsFiniteSet(D), Cardinality(D) <= 4,
           NEW a \in D, NEW b \in D, NEW c \in D, NEW d \in D,
           a # b, a # c, a # d, b # c, b # d, c # d
    PROVE  D = {a, b, c, d}
<1> DEFINE A == D \ {a}
           B == A \ {b}
           C == B \ {c}
           E == C \ {d}
<1>1. IsFiniteSet(A) /\ Cardinality(A) = Cardinality(D) - 1
  BY FS_RemoveElement
<1>2. b \in A /\ c \in A /\ d \in A
  OBVIOUS
<1>3. c \in B /\ d \in B
  BY <1>2
<1>4. d \in C
  BY <1>3
<1> HIDE DEF A
<1>5. IsFiniteSet(B) /\ Cardinality(B) = Cardinality(A) - 1
  BY <1>1, <1>2, FS_RemoveElement
<1> HIDE DEF B
<1>6. IsFiniteSet(C) /\ Cardinality(C) = Cardinality(B) - 1
  BY <1>3, <1>5, FS_RemoveElement
<1> HIDE DEF C
<1>7. IsFiniteSet(E) /\ Cardinality(E) = Cardinality(C) - 1
  BY <1>4, <1>6, FS_RemoveElement
<1> HIDE DEF E
<1>8. Cardinality(D) \in Nat /\ Cardinality(E) \in Nat
  BY <1>7, FS_CardinalityType
<1>9. Cardinality(E) = Cardinality(D) - 4
  BY <1>1, <1>5, <1>6, <1>7, <1>8
<1>10. Cardinality(E) = 0
  BY <1>8, <1>9
<1>11. E = {}
  BY <1>7, <1>10, FS_EmptySet
<1> QED  BY <1>11 DEF A, B, C, E

\* A loop-free graph of four findings that is not in order is one chain.
LEMMA DisorderIsPath ==
    ASSUME NEW n \in Nat, NEW D \in SUBSET (1 .. n), NEW o \in Pointers(D), LoopFree(o),
           Cardinality(D) <= 4, ~Ordered(o)
    PROVE  \E a, b, c, d \in D : Path(o, a, b, c, d) /\ (b < c \/ a < c)
<1>1. DOMAIN o = D /\ IsFiniteSet(D)
  <2>1. DOMAIN o = D
    BY DEF Pointers
  <2>2. IsFiniteSet(1 .. n)
    <3>1. 1 \in Int /\ n \in Int
      OBVIOUS
    <3> QED  BY <3>1, FS_Interval
  <2>3. IsFiniteSet(D)
    BY <2>2, FS_Subset
  <2> QED  BY <2>1, <2>3
<1>2. \A f \in D : f \in Nat /\ f # None /\ (o[f] # None => o[f] \in D)
  BY OriginalsAre
<1>3. ASSUME NEW a \in D, o[a] # None, o[o[a]] # None, o[o[o[a]]] # None
      PROVE  Path(o, a, o[a], o[o[a]], o[o[o[a]]])
  <2> DEFINE b == o[a]
             c == o[b]
             d == o[c]
  <2>1. b \in D /\ c \in D /\ d \in D
    BY <1>2, <1>3
  <2>2. o[a] = b /\ o[b] = c /\ o[c] = d
    OBVIOUS
  <2> HIDE DEF b, c, d
  <2>3. \A S \in SUBSET D : S # {} => \E f \in S : o[f] \notin S
    BY <1>1 DEF LoopFree
  <2>4. a # b /\ b # c /\ c # d /\ a # c /\ b # d
    BY <1>1, <2>1, <2>2, NoShortLoop
  <2>5. a # d
    <3>1. {a, b, c} \in SUBSET D /\ {a, b, c} # {}
      BY <2>1
    <3>2. \E f \in {a, b, c} : o[f] \notin {a, b, c}
      BY <2>3, <3>1
    <3> QED  BY <2>2, <3>2
  <2>6. D = {a, b, c, d}
    BY <1>1, <2>1, <2>4, <2>5, FourAreAll
  <2>7. o[d] = None
    <3>1. \E f \in D : o[f] \notin D
      BY <2>1, <2>3
    <3> QED  BY <1>2, <2>1, <2>2, <2>6, <3>1
  <2>8. Path(o, a, b, c, d)
    BY <1>1, <2>2, <2>6, <2>7 DEF Path
  <2> QED  BY <2>8 DEF b, c, d
<1>4. PICK f \in D :
          /\ o[f] # None /\ o[o[f]] # None
          /\ \/ f \in Heads(o) /\ ~(o[f] < f)
             \/ o[o[o[f]]] # None /\ ~(o[o[f]] < f)
  BY <1>1 DEF Ordered, InOrder
<1>5. CASE f \in Heads(o) /\ ~(o[f] < f)
  <2>1. PICK e \in D : o[e] = f
    BY <1>1, <1>5 DEF Heads, Originals
  <2>2. Path(o, e, f, o[f], o[o[f]]) /\ o[f] \in D /\ o[o[f]] \in D
    BY <1>2, <1>3, <1>4, <2>1
  <2> DEFINE x == o[f]
  <2>3. x # f /\ x \in Nat /\ f \in Nat
    BY <1>1, <1>2, <2>2, NoShortLoop
  <2>4. ~(x < f)
    BY <1>5
  <2> HIDE DEF x
  <2>5. f < x
    BY <2>3, <2>4
  <2> QED  BY <2>2, <2>5 DEF x
<1>6. CASE o[o[o[f]]] # None /\ ~(o[o[f]] < f)
  <2>1. Path(o, f, o[f], o[o[f]], o[o[o[f]]])
        /\ o[f] \in D /\ o[o[f]] \in D /\ o[o[o[f]]] \in D
    BY <1>2, <1>3, <1>4, <1>6
  <2> DEFINE p == o[o[f]]
  <2>2. p # f /\ p \in Nat /\ f \in Nat
    BY <1>1, <1>2, <2>1, NoShortLoop
  <2>3. ~(p < f)
    BY <1>6
  <2> HIDE DEF p
  <2>4. f < p
    BY <2>2, <2>3
  <2> QED  BY <2>1, <2>4 DEF p
<1> QED  BY <1>4, <1>5, <1>6

\* One run flattens whatever graph of up to four findings has no loop.
LEMMA SmallRepaired ==
    ASSUME NEW n \in Nat, NEW D \in SUBSET (1 .. n), NEW o \in Pointers(D), LoopFree(o),
           Cardinality(D) <= 4, NEW r, Rooted(r, o)
    PROVE  \A f \in D : /\ Repaired(o)[f] = IF o[f] = None THEN None ELSE r[f]
                        /\ o[f] # None => r[f] # f
<1>0. \A a, b, c, d :
          Path(o, a, b, c, d) /\ (b < c \/ (a < c /\ c < b)) =>
              \A f \in D : Repaired(o)[f] = IF f = d THEN None ELSE d
  <2>1. \A a, b, c, d : Path(o, a, b, c, d) /\ b < c =>
            \A f \in D : Repaired(o)[f] = IF f = d THEN None ELSE d
    BY AscendingPath
  <2>2. \A a, b, c, d : Path(o, a, b, c, d) /\ a < c /\ c < b =>
            \A f \in D : Repaired(o)[f] = IF f = d THEN None ELSE d
    <3>1. \A e \in Pointers(D) : \A a, b, c, d :
              LoopFree(e) /\ Path(e, a, b, c, d) /\ a < c /\ c < b =>
                  \A f \in D : Repaired(e)[f] = IF f = d THEN None ELSE d
      BY TwistedPath
    <3> QED  BY <3>1
  <2> QED  BY <2>1, <2>2
<1>1. CASE Ordered(o)
  BY <1>1, OrderedRepaired
<1>2. CASE ~Ordered(o)
  <2>1. PICK a, b, c, d \in D : Path(o, a, b, c, d) /\ (b < c \/ a < c)
    BY <1>2, DisorderIsPath
  <2>2. /\ D = {a, b, c, d} /\ DOMAIN o = D
        /\ a \in Nat /\ b \in Nat /\ c \in Nat /\ d \in Nat
        /\ a # None /\ b # None /\ c # None /\ d # None
        /\ a # b /\ a # c /\ a # d /\ b # c /\ b # d /\ c # d
    BY <2>1, PathIs
  <2>3. \A f \in D : Repaired(o)[f] = IF f = d THEN None ELSE d
    <3>1. b < c \/ (a < c /\ c < b)
      BY <2>1, <2>2
    <3> QED  BY <1>0, <2>1, <3>1
  <2>4. o[a] = b /\ o[b] = c /\ o[c] = d /\ o[d] = None
    BY <2>1 DEF Path
  <2>5. r[d] = d /\ r[c] = d /\ r[b] = d /\ r[a] = d
    <3>1. \A f \in D : r[f] = IF o[f] = None THEN f ELSE r[o[f]]
      BY <2>2 DEF Rooted
    <3> QED  BY <2>2, <2>4, <3>1
  <2> QED  BY <2>2, <2>3, <2>4, <2>5
<1> QED  BY <1>1, <1>2

-----------------------------------------------------------------------------
(***************************************************************************)
(* Whoever gets in whose way: a loop is closed when a worker saves its     *)
(* finding, and the worker that closes the last one has yet to save the    *)
(* original, as it had read it, and that is no duplicate.                  *)
(***************************************************************************)
Pointing ==
    \A f \in DOMAIN finding :
        /\ finding[f].original \in DOMAIN finding \cup {None}
        /\ finding[f].original # None => finding[f].duplicate

Closed(S) == S # {} /\ \A f \in S : finding[f].original \in S

SavedInto(w, S) ==
    ~Free(w) /\ worker[w].step = "saved" /\ worker[w].target \in S

LoopsEnd ==
    \A S \in SUBSET DOMAIN finding :
        Closed(S) => \E w \in Workers : SavedInto(w, S)

Sound(frame, w) ==
    /\ frame.id \in DOMAIN finding
    /\ frame.row.duplicate /\ frame.row.original = worker[w].target
    /\ DOMAIN frame.left \subseteq DOMAIN finding

Stacked(w, frames) ==
    /\ worker[w].stack \in Seq(frames) /\ worker[w].stack # <<>>
    /\ \A frame \in frames : Sound(frame, w)

\* What a worker holds, however stale.
Holding(w) ==
    /\ worker[w].task \in DOMAIN finding
    /\ worker[w].target \in DOMAIN worker[w].rows
    /\ \A g \in DOMAIN worker[w].rows :
           g \in DOMAIN finding /\ worker[w].rows[g].original = None
    /\ \E frames : Stacked(w, frames)

LoopInv ==
    /\ Numbered
    /\ DOMAIN worker = Workers
    /\ Pointing
    /\ LoopsEnd
    /\ \A w \in Workers : ~Free(w) => Holding(w)

\* Where the pages and the importers leave the originals alone, or take them away.
LEMMA EdgesGo ==
    ASSUME LoopInv, UNCHANGED worker, Numbered', Pointing',
           DOMAIN finding \subseteq DOMAIN finding',
           \A S \in SUBSET DOMAIN finding' : Closed(S)' =>
               \E T \in SUBSET DOMAIN finding : T \subseteq S /\ Closed(T)
    PROVE  LoopInv'
<1>1. LoopsEnd'
  <2> SUFFICES ASSUME NEW S \in SUBSET DOMAIN finding', Closed(S)'
               PROVE  \E w \in Workers : SavedInto(w, S)'
    BY DEF LoopsEnd
  <2>1. PICK T \in SUBSET DOMAIN finding : T \subseteq S /\ Closed(T)
    OBVIOUS
  <2>2. PICK w \in Workers : SavedInto(w, T)
    <3> HIDE DEF Closed, SavedInto
    <3> QED  BY <2>1 DEF LoopInv, LoopsEnd
  <2> QED  BY <2>1, <2>2 DEF SavedInto, Free
<1>2. \A w \in Workers : ~Free(w)' => Holding(w)'
  BY DEF LoopInv, Free, Holding, Stacked, Sound
<1> QED  BY <1>1, <1>2 DEF LoopInv

\* A row that is saved with the original it had, or with none, makes no loop.
LEMMA PutKeepsLoops ==
    ASSUME LoopInv, UNCHANGED <<worker, imported>>, NEW f \in DOMAIN finding, NEW r,
           Put(f, r),
           \/ r.original = None
           \/ r.original = finding[f].original /\ (finding[f].duplicate => r.duplicate)
    PROVE  LoopInv'
<1>1. /\ DOMAIN finding' = DOMAIN finding
      /\ \A g \in DOMAIN finding : finding'[g] = IF g = f THEN r ELSE finding[g]
  BY PutIs
<1>2. None \notin DOMAIN finding
  BY NoneIsNobody DEF LoopInv
<1>3. Numbered' /\ Pointing'
  BY <1>1 DEF LoopInv, Numbered, Pointing
<1>4. ASSUME NEW S \in SUBSET DOMAIN finding', Closed(S)'
      PROVE  Closed(S)
  BY <1>1, <1>2, <1>4 DEF Closed
<1>5. \A S \in SUBSET DOMAIN finding' : Closed(S)' =>
          \E T \in SUBSET DOMAIN finding : T \subseteq S /\ Closed(T)
  BY <1>1, <1>4
<1> QED  BY <1>1, <1>3, <1>5, EdgesGo

\* An imported finding is no duplicate.
LEMMA ImportKeepsLoops ==
    ASSUME LoopInv, Import
    PROVE  LoopInv'
<1> DEFINE n == imported + 1
           r == Row(FALSE, None, TRUE, FALSE)
<1>1. imported' = n /\ Put(n, r) /\ UNCHANGED worker
  BY DEF Import
<1>2. r.original = None
  BY DEF Row
<1> HIDE DEF r
<1>3. /\ imported \in Nat /\ DOMAIN finding \subseteq 1 .. imported
      /\ None \notin DOMAIN finding
  BY NoneIsNobody DEF LoopInv, Numbered
<1>4. n \in Nat /\ n \notin DOMAIN finding /\ 1 .. imported \subseteq 1 .. n
      /\ n \in 1 .. n /\ n # None
  BY <1>3 DEF None
<1> HIDE DEF n
<1>5. /\ DOMAIN finding' = DOMAIN finding \cup {n} /\ finding'[n] = r
      /\ \A g \in DOMAIN finding : finding'[g] = finding[g]
  BY <1>1, <1>4 DEF Put
<1>6. Numbered'
  BY <1>1, <1>3, <1>4, <1>5 DEF Numbered
<1>7. Pointing'
  BY <1>2, <1>5 DEF LoopInv, Pointing
<1>8. ASSUME NEW S \in SUBSET DOMAIN finding', Closed(S)'
      PROVE  S \in SUBSET DOMAIN finding /\ Closed(S)
  <2>1. n \notin S
    BY <1>2, <1>3, <1>4, <1>5, <1>8 DEF Closed
  <2> QED  BY <1>5, <1>8, <2>1 DEF Closed
<1>9. \A S \in SUBSET DOMAIN finding' : Closed(S)' =>
          \E T \in SUBSET DOMAIN finding : T \subseteq S /\ Closed(T)
  BY <1>8
<1> QED  BY <1>1, <1>5, <1>6, <1>7, <1>9, EdgesGo

\* The finding that is marked has no duplicates: no loop leads through it.
LEMMA MarkDuplicateKeepsLoops ==
    ASSUME LoopInv, NEW f \in DOMAIN finding, NEW similar \in DOMAIN finding,
           MarkDuplicate(f, similar)
    PROVE  LoopInv'
<1> DEFINE original == IF finding[f].duplicate THEN finding[f].original ELSE f
           r == Row(TRUE, original, FALSE, finding[similar].is_mitigated)
<1>1. /\ original # None /\ Put(similar, r) /\ UNCHANGED <<imported, worker>>
      /\ f # similar /\ finding[f].original # similar
      /\ \A g \in DOMAIN finding : finding[g].original # similar
  BY DuplicatesAre DEF MarkDuplicate, Shown
<1>2. original \in DOMAIN finding /\ original # similar
  BY <1>1 DEF LoopInv, Pointing
<1>3. r.duplicate /\ r.original = original
  BY DEF Row
<1> HIDE DEF r, original
<1>4. /\ DOMAIN finding' = DOMAIN finding
      /\ \A g \in DOMAIN finding : finding'[g] = IF g = similar THEN r ELSE finding[g]
  BY <1>1, PutIs
<1>5. Numbered' /\ Pointing'
  BY <1>1, <1>2, <1>3, <1>4 DEF LoopInv, Numbered, Pointing
<1>6. ASSUME NEW S \in SUBSET DOMAIN finding', Closed(S)'
      PROVE  \E T \in SUBSET DOMAIN finding : T \subseteq S /\ Closed(T)
  <2> DEFINE T == S \ {similar}
  <2>1. T # {}
    BY <1>2, <1>3, <1>4, <1>6 DEF Closed
  <2>2. \A g \in T : finding[g].original \in T
    BY <1>1, <1>4, <1>6 DEF Closed
  <2>3. T \in SUBSET DOMAIN finding /\ T \subseteq S
    BY <1>4
  <2> HIDE DEF T
  <2> QED  BY <2>1, <2>2, <2>3 DEF Closed
<1> QED  BY <1>1, <1>4, <1>5, <1>6, EdgesGo

\* The new original has no duplicates before, and is none then.
LEMMA SetOriginalKeepsLoops ==
    ASSUME LoopInv, NEW f \in DOMAIN finding, NEW similar \in DOMAIN finding,
           SetOriginal(f, similar)
    PROVE  LoopInv'
<1> DEFINE clustered == finding[f].duplicate \/ Duplicates(f) # {}
           moved == IF clustered THEN Members(f) \cup {f} ELSE {f}
           becomes(g) == finding[g].duplicate \/ g \in {f, finding[f].original}
<1>1. /\ f # similar
      /\ \A g \in DOMAIN finding : finding[g].original # similar
      /\ UNCHANGED <<imported, worker>> /\ DOMAIN finding' = DOMAIN finding
      /\ None \notin DOMAIN finding
  BY DuplicatesAre, NoneIsNobody DEF SetOriginal, Shown, LoopInv
<1>2. finding'[similar].original = None
  <2>1. finding'[similar] =
            Row(FALSE, None, finding[similar].active, finding[similar].is_mitigated)
    BY <1>1 DEF SetOriginal
  <2> QED  BY <2>1 DEF Row
<1>3. ASSUME NEW g \in DOMAIN finding, g # similar, g \in moved
      PROVE  (becomes(g) => finding'[g].duplicate) /\ finding'[g].original = similar
  <2>1. CASE clustered
    <3>1. finding'[g] = Row(becomes(g), similar, finding[g].active, finding[g].is_mitigated)
      BY <1>3, <2>1 DEF SetOriginal
    <3>2. \A b : Row(b, similar, finding[g].active, finding[g].is_mitigated).duplicate = b
      BY DEF Row
    <3>3. \A b : Row(b, similar, finding[g].active, finding[g].is_mitigated).original = similar
      BY DEF Row
    <3> HIDE DEF becomes
    <3> QED  BY <3>1, <3>2, <3>3
  <2>2. CASE ~clustered
    <3>1. finding'[g] = Row(TRUE, similar, FALSE, finding[g].is_mitigated)
      BY <1>3, <2>2 DEF SetOriginal
    <3> QED  BY <3>1 DEF Row
  <2> QED  BY <2>1, <2>2
<1>4. \A g \in DOMAIN finding : g # similar /\ g \notin moved => finding'[g] = finding[g]
  BY DEF SetOriginal
<1>5. ASSUME NEW g \in DOMAIN finding, g \in moved
      PROVE  becomes(g)
  <2>1. CASE g = f
    BY <2>1
  <2>2. CASE g # f
    <3>1. g \in Members(f)
      BY <1>5, <2>2
    <3>2. \/ g \in Duplicates(f)
          \/ finding[f].original # None /\ g \in Duplicates(finding[f].original)
          \/ g = finding[f].original
      BY <3>1 DEF Members
    <3>3. g \in Duplicates(f) => finding[g].duplicate
      BY <1>1, DuplicatesAre DEF LoopInv, Pointing
    <3>4. finding[f].original # None /\ g \in Duplicates(finding[f].original) =>
              finding[g].duplicate
      BY <1>1, DuplicatesAre DEF LoopInv, Pointing
    <3> QED  BY <3>2, <3>3, <3>4
  <2> QED  BY <2>1, <2>2
<1> HIDE DEF moved, clustered
<1>6. \A g \in DOMAIN finding :
          g \in moved /\ g # similar => finding'[g].duplicate /\ finding'[g].original = similar
  <2> HIDE DEF becomes
  <2> QED  BY <1>3, <1>5
<1>7. Numbered'
  BY <1>1 DEF LoopInv, Numbered
<1>8. Pointing'
  BY <1>1, <1>2, <1>4, <1>6 DEF LoopInv, Pointing
<1>9. ASSUME NEW S \in SUBSET DOMAIN finding', Closed(S)'
      PROVE  \E T \in SUBSET DOMAIN finding : T \subseteq S /\ Closed(T)
  <2>1. similar \notin S
    BY <1>1, <1>2, <1>9 DEF Closed
  <2>2. \A g \in S : g \notin moved
    BY <1>1, <1>6, <1>9, <2>1 DEF Closed
  <2>3. Closed(S)
    BY <1>1, <1>4, <1>9, <2>1, <2>2 DEF Closed
  <2> QED  BY <1>1, <2>3
<1> QED  BY <1>1, <1>7, <1>8, <1>9, EdgesGo

\* Steps that are taken only while no worker is busy, and leave no loop.
LEMMA QuietKeepsLoops ==
    ASSUME LoopInv, Quiet, UNCHANGED worker, Numbered', Pointing',
           \A S \in SUBSET DOMAIN finding' : ~Closed(S)'
    PROVE  LoopInv'
BY DEF LoopInv, Quiet, Free, LoopsEnd

\* When no worker is at work, none has yet to open a loop.
LEMMA QuietIsLoopFree ==
    ASSUME LoopInv, Quiet
    PROVE  \A S \in SUBSET DOMAIN finding : ~Closed(S)
<1> HIDE DEF Closed
<1> QED  BY DEF LoopInv, Quiet, LoopsEnd, SavedInto

\* The heir is no duplicate, and the others become duplicates of it.
LEMMA DeleteKeepsLoops ==
    ASSUME LoopInv, NEW f \in DOMAIN finding, Delete(f)
    PROVE  LoopInv'
<1>1. /\ Quiet /\ UNCHANGED <<imported, worker>>
      /\ None \notin DOMAIN finding
      /\ \A S \in SUBSET DOMAIN finding : ~Closed(S)
  BY NoneIsNobody, QuietIsLoopFree DEF Delete, LoopInv
<1>2. CASE Duplicates(f) = {} /\ finding' = Without(finding, f)
  <2>1. /\ DOMAIN finding' = DOMAIN finding \ {f}
        /\ \A g \in DOMAIN finding \ {f} : finding'[g] = finding[g]
    BY <1>2 DEF Without, Restrict
  <2>2. \A g \in DOMAIN finding : finding[g].original # f
    BY <1>2, DuplicatesAre
  <2>3. Numbered'
    BY <1>1, <2>1 DEF LoopInv, Numbered
  <2>4. Pointing'
    BY <2>1, <2>2 DEF LoopInv, Pointing
  <2>5. ASSUME NEW S \in SUBSET DOMAIN finding', Closed(S)'
        PROVE  FALSE
    <3>1. Closed(S)
      BY <2>1, <2>5 DEF Closed
    <3> QED  BY <1>1, <2>1, <3>1
  <2> QED  BY <1>1, <2>3, <2>4, <2>5, QuietKeepsLoops
<1>3. ASSUME NEW heir \in Lowest(Duplicates(f)),
             finding' = [g \in DOMAIN finding \ {f} |->
                 CASE g = heir ->
                        Row(FALSE, None, finding[f].active, finding[f].is_mitigated)
                   [] g # heir /\ g \in Duplicates(f) /\ finding[g].duplicate ->
                        Row(TRUE, heir, finding[g].active, finding[g].is_mitigated)
                   [] OTHER -> finding[g]]
      PROVE  LoopInv'
  <2>1. /\ heir \in DOMAIN finding /\ finding[heir].original = f
        /\ DOMAIN finding' = DOMAIN finding \ {f}
    BY <1>3, DuplicatesAre DEF Lowest
  <2>2. heir # f
    <3> SUFFICES ASSUME heir = f
                 PROVE  FALSE
      OBVIOUS
    <3>1. Closed({f})
      BY <2>1 DEF Closed
    <3> QED  BY <1>1, <3>1
  <2>3. finding'[heir].original = None
    <3>1. finding'[heir] =
              Row(FALSE, None, finding[f].active, finding[f].is_mitigated)
      BY <1>3, <2>1, <2>2
    <3> QED  BY <3>1 DEF Row
  <2>4. ASSUME NEW g \in DOMAIN finding \ {f}, g # heir, finding[g].original = f
        PROVE  finding'[g].duplicate /\ finding'[g].original = heir
    <3>1. finding[g].duplicate /\ g \in Duplicates(f)
      BY <1>1, <2>4, DuplicatesAre DEF LoopInv, Pointing
    <3>2. finding'[g] = Row(TRUE, heir, finding[g].active, finding[g].is_mitigated)
      BY <1>3, <2>4, <3>1
    <3> QED  BY <3>2 DEF Row
  <2>5. \A g \in DOMAIN finding \ {f} :
            g # heir /\ finding[g].original # f => finding'[g] = finding[g]
    BY <1>3, DuplicatesAre
  <2>6. Numbered'
    BY <1>1, <2>1 DEF LoopInv, Numbered
  <2>7. Pointing'
    BY <2>1, <2>2, <2>3, <2>4, <2>5 DEF LoopInv, Pointing
  <2>8. ASSUME NEW S \in SUBSET DOMAIN finding', Closed(S)'
        PROVE  FALSE
    <3>1. heir \notin S
      BY <1>1, <2>1, <2>3, <2>8 DEF Closed
    <3>2. \A g \in S : finding'[g] = finding[g]
      BY <2>1, <2>4, <2>5, <2>8, <3>1 DEF Closed
    <3>3. Closed(S)
      BY <2>8, <3>2 DEF Closed
    <3> QED  BY <1>1, <2>1, <3>3
  <2> QED  BY <1>1, <2>6, <2>7, <2>8, QuietKeepsLoops
<1> QED  BY <1>2, <1>3 DEF Delete

\* The repair makes no loop, whatever chains it is given.
LEMMA FixLoopsKeepsLoops ==
    ASSUME LoopInv, FixLoops
    PROVE  LoopInv'
<1> DEFINE D == DOMAIN finding
           original == Repaired(Graph)
<1>1. /\ Quiet /\ UNCHANGED <<imported, worker>> /\ DOMAIN finding' = D
      /\ \A f \in D : finding'[f] = Row(finding[f].duplicate /\ original[f] # None,
                                        original[f], finding[f].active,
                                        finding[f].is_mitigated)
  BY DEF FixLoops
<1>2. imported \in Nat /\ D \in SUBSET (1 .. imported)
  BY DEF LoopInv, Numbered
<1>3. /\ Graph \in Pointers(D) /\ DOMAIN Graph = D
      /\ \A f \in D : Graph[f] = finding[f].original
  BY DEF Graph, Pointers, LoopInv, Pointing
<1>4. LoopFree(Graph)
  BY <1>1, <1>3, QuietIsLoopFree DEF LoopFree, Closed
<1>5. Tamed(original, D, Graph)
  BY <1>2, <1>3, <1>4, RepairedTames
<1> HIDE DEF original
<1>6. /\ original \in Pointers(D) /\ LoopFree(original)
      /\ \A f \in D : finding[f].original = None => original[f] = None
  BY <1>3, <1>5 DEF Tamed
<1>7. ASSUME NEW f \in D
      PROVE  /\ finding'[f].original = original[f]
             /\ original[f] # None => finding'[f].duplicate
  <2> DEFINE b == finding[f].duplicate /\ original[f] # None
  <2>1. finding'[f] = Row(b, original[f], finding[f].active, finding[f].is_mitigated)
    BY <1>1
  <2>2. original[f] # None => b
    BY <1>6 DEF LoopInv, Pointing
  <2> HIDE DEF b
  <2>3. finding'[f].original = original[f] /\ finding'[f].duplicate = b
    BY <2>1 DEF Row
  <2> QED  BY <2>2, <2>3
<1>8. Numbered'
  BY <1>1 DEF LoopInv, Numbered
<1>9. Pointing'
  BY <1>1, <1>6, <1>7 DEF Pointing, Pointers
<1>10. ASSUME NEW S \in SUBSET DOMAIN finding', Closed(S)'
       PROVE  FALSE
  <2>1. S # {} /\ S \in SUBSET D /\ \A f \in S : original[f] \in S
    BY <1>1, <1>7, <1>10 DEF Closed
  <2>2. DOMAIN original = D
    BY <1>6 DEF Pointers
  <2> QED  BY <1>6, <2>1, <2>2 DEF LoopFree
<1> QED  BY <1>1, <1>8, <1>9, <1>10, QuietKeepsLoops

\* What people do makes no loop: they act on rows as they are.
LEMMA PageStepKeepsLoops ==
    ASSUME LoopInv, PageStep
    PROVE  LoopInv'
<1>1. ASSUME NEW f \in DOMAIN finding,
             Mitigate(f) \/ Close(f) \/ Reopen(f) \/ ResetDuplicate(f)
      PROVE  LoopInv'
  <2>1. CASE Mitigate(f)
    <3> DEFINE r == Row(finding[f].duplicate, finding[f].original, FALSE, TRUE)
    <3>1. Put(f, r) /\ UNCHANGED <<imported, worker>>
      BY <2>1 DEF Mitigate
    <3>2. r.original = finding[f].original /\ r.duplicate = finding[f].duplicate
      BY DEF Row
    <3> HIDE DEF r
    <3> QED  BY <3>1, <3>2, PutKeepsLoops
  <2>2. CASE Close(f)
    <3> DEFINE r == Row(FALSE, None, FALSE, TRUE)
    <3>1. Put(f, r) /\ UNCHANGED <<imported, worker>>
      BY <2>2 DEF Close
    <3>2. r.original = None
      BY DEF Row
    <3> HIDE DEF r
    <3> QED  BY <3>1, <3>2, PutKeepsLoops
  <2>3. CASE Reopen(f)
    <3> DEFINE q == Row(finding[f].duplicate, finding[f].original, TRUE, FALSE)
               r == Save(q)
    <3>1. Put(f, r) /\ UNCHANGED <<imported, worker>>
      BY <2>3 DEF Reopen
    <3>2. q.original = finding[f].original /\ q.duplicate = finding[f].duplicate
      BY DEF Row
    <3>3. IF q.duplicate THEN r = q ELSE r.original = None
      <4> HIDE DEF q
      <4> QED  BY DEF Save, Row
    <3> HIDE DEF r, q
    <3> QED  BY <3>1, <3>2, <3>3, PutKeepsLoops
  <2>4. CASE ResetDuplicate(f)
    <3> DEFINE r == Row(FALSE, None, TRUE, finding[f].active /\ finding[f].is_mitigated)
    <3>1. Put(f, r) /\ UNCHANGED <<imported, worker>>
      BY <2>4 DEF ResetDuplicate
    <3>2. r.original = None
      BY DEF Row
    <3> HIDE DEF r
    <3> QED  BY <3>1, <3>2, PutKeepsLoops
  <2> QED  BY <1>1, <2>1, <2>2, <2>3, <2>4
<1> QED  BY <1>1, DeleteKeepsLoops, MarkDuplicateKeepsLoops, SetOriginalKeepsLoops
         DEF PageStep

\* A step of a worker.
LEMMA WorkerKeepsLoops ==
    ASSUME LoopInv, NEW w \in Workers, NEW next,
           worker' = [worker EXCEPT ![w] = next], UNCHANGED imported,
           DOMAIN finding' = DOMAIN finding, Pointing',
           \A S \in SUBSET DOMAIN finding : Closed(S)' =>
               (Closed(S) /\ ~SavedInto(w, S)) \/ SavedInto(w, S)',
           next.task # None => Holding(w)'
    PROVE  LoopInv'
<1>1. /\ DOMAIN worker' = Workers
      /\ \A v \in Workers : worker'[v] = IF v = w THEN next ELSE worker[v]
  BY DEF LoopInv
<1>2. LoopsEnd'
  <2> SUFFICES ASSUME NEW S \in SUBSET DOMAIN finding, Closed(S)', ~SavedInto(w, S)'
               PROVE  \E v \in Workers : SavedInto(v, S)'
    BY DEF LoopsEnd
  <2>1. Closed(S) /\ ~SavedInto(w, S)
    OBVIOUS
  <2>2. PICK v \in Workers : SavedInto(v, S)
    <3> HIDE DEF Closed, SavedInto
    <3> QED  BY <2>1 DEF LoopInv, LoopsEnd
  <2>3. v # w
    BY <2>1, <2>2
  <2> QED  BY <1>1, <2>2, <2>3 DEF SavedInto, Free
<1>3. ASSUME NEW v \in Workers, ~Free(v)'
      PROVE  Holding(v)'
  <2>1. CASE v = w
    BY <1>1, <1>3, <2>1 DEF Free
  <2>2. CASE v # w
    <3>1. worker'[v] = worker[v] /\ Holding(v)
      BY <1>1, <1>3, <2>2 DEF LoopInv, Free
    <3> QED  BY <3>1 DEF Holding, Stacked, Sound
  <2> QED  BY <2>1, <2>2
<1>4. Numbered'
  BY DEF LoopInv, Numbered
<1> QED  BY <1>1, <1>2, <1>3, <1>4 DEF LoopInv

\* A worker that begins with a candidate holds what it has read.
LEMMA BegunHolds ==
    ASSUME NEW w, NEW f \in DOMAIN finding, NEW rows, NEW target \in DOMAIN rows, NEW row,
           worker'[w] = Begun(f, target, rows, Frame(f, Attached(row, target), <<>>)),
           DOMAIN finding' = DOMAIN finding,
           \A g \in DOMAIN rows : g \in DOMAIN finding /\ rows[g].original = None
    PROVE  Holding(w)'
<1> DEFINE frame == Frame(f, Attached(row, target), <<>>)
<1>1. /\ frame.id = f /\ frame.row.duplicate /\ frame.row.original = target
      /\ DOMAIN frame.left = {}
  BY DEF Frame, Attached, Row
<1> HIDE DEF frame
<1>2. /\ worker'[w].task = f /\ worker'[w].target = target /\ worker'[w].rows = rows
      /\ worker'[w].stack = <<frame>>
  BY AtFields DEF frame, Begun
<1>3. <<frame>> \in Seq({frame}) /\ <<frame>> # <<>>
  OBVIOUS
<1>4. \A x \in {frame} : Sound(x, w)'
  BY <1>1, <1>2 DEF Sound
<1>5. Stacked(w, {frame})'
  BY <1>2, <1>3, <1>4 DEF Stacked
<1>6. (\E frames : Stacked(w, frames))'
  BY <1>5
<1> QED  BY <1>2, <1>6 DEF Holding

\* A job that begins has read candidates that are no duplicates.
LEMMA LoadKeepsLoops ==
    ASSUME LoopInv, NEW w \in Workers, NEW f \in DOMAIN finding, Load(w, f)
    PROVE  LoopInv'
<1> DEFINE rows == Restrict(finding, Candidates(f))
<1>1. UNCHANGED <<finding, imported>> /\ Free(w)
  BY DEF Load
<1>2. PICK next \in Chosen(f, finding[f], rows) : worker' = [worker EXCEPT ![w] = next]
  BY DEF Load
<1>3. \A g \in DOMAIN rows : g \in DOMAIN finding /\ rows[g].original = None
  BY DEF Restrict, Candidates, LoopInv, Pointing
<1> HIDE DEF rows
<1>4. next.task # None => Holding(w)'
  <2>1. CASE next = Idle
    BY <2>1 DEF Idle
  <2>2. ASSUME NEW target \in DOMAIN rows,
               next = At(f, target, rows, "read",
                         <<Frame(f, Attached(finding[f], target), <<>>)>>)
        PROVE  Holding(w)'
    <3> DEFINE row == finding[f]
    <3>1. worker'[w] = Begun(f, target, rows, Frame(f, Attached(row, target), <<>>))
      BY <1>2, <2>2 DEF LoopInv, Begun
    <3>2. DOMAIN finding' = DOMAIN finding
      BY <1>1
    <3> HIDE DEF row
    <3> QED  BY <1>3, <3>1, <3>2, BegunHolds
  <2> QED  BY <2>1, <2>2, ChosenWork
<1>5. \A S \in SUBSET DOMAIN finding : Closed(S)' => Closed(S) /\ ~SavedInto(w, S)
  BY <1>1 DEF Closed, SavedInto
<1>6. Pointing'
  BY <1>1 DEF LoopInv, Pointing
<1> QED  BY <1>1, <1>2, <1>4, <1>5, <1>6, WorkerKeepsLoops

\* What is on the stack of a worker, whatever its depth.
LEMMA TopAndBelow ==
    ASSUME NEW w, NEW frames, Stacked(w, frames)
    PROVE  Top(w) \in frames /\ Below(w) \in Seq(frames)
<1> DEFINE s == worker[w].stack
           n == Len(s)
<1>1. s \in Seq(frames) /\ s # <<>>
  BY DEF Stacked
<1> HIDE DEF s
<1>2. n \in Nat /\ n # 0
  BY <1>1
<1>3. \A i \in 1 .. n : s[i] \in frames
  BY <1>1
<1>4. s[n] \in frames
  BY <1>2, <1>3
<1>5. \A i \in 1 .. n - 1 : s[i] \in frames
  BY <1>2, <1>3
<1>6. SubSeq(s, 1, n - 1) \in Seq(frames)
  <2> DEFINE m == n - 1
  <2>1. m \in Int /\ 1 \in Int /\ \A i \in 1 .. m : s[i] \in frames
    BY <1>2, <1>5
  <2> HIDE DEF m, n
  <2>2. SubSeq(s, 1, m) \in Seq(frames)
    BY <2>1, SubSeqProperties
  <2> QED  BY <2>2 DEF m
<1> QED  BY <1>4, <1>6 DEF s, Top, Below

\* A call that is pushed on the stack.
LEMMA PushedOn ==
    ASSUME NEW frames, NEW s \in Seq(frames), NEW x
    PROVE  Append(s, x) \in Seq(frames \cup {x}) /\ Append(s, x) # <<>>
<1>1. s \in Seq(frames \cup {x}) /\ x \in frames \cup {x}
  OBVIOUS
<1>2. Append(s, x) \in Seq(frames \cup {x})
  BY <1>1
<1>3. Len(Append(s, x)) # 0
  BY <1>1
<1> QED  BY <1>2, <1>3

\* A worker that keeps its target and the rows that it has read.
LEMMA HoldsOn ==
    ASSUME NEW w, Holding(w), worker'[w].task = worker[w].task,
           worker'[w].target = worker[w].target, worker'[w].rows = worker[w].rows,
           DOMAIN finding' = DOMAIN finding,
           NEW frames, worker'[w].stack \in Seq(frames), worker'[w].stack # <<>>,
           \A frame \in frames : Sound(frame, w)
    PROVE  Holding(w)'
<1>1. Stacked(w, frames)'
  BY DEF Stacked, Sound
<1>2. (\E set : Stacked(w, set))'
  BY <1>1
<1>3. /\ worker[w].task \in DOMAIN finding
      /\ worker[w].target \in DOMAIN worker[w].rows
      /\ \A g \in DOMAIN worker[w].rows :
             g \in DOMAIN finding /\ worker[w].rows[g].original = None
  BY DEF Holding
<1> HIDE DEF Stacked
<1> QED  BY <1>2, <1>3 DEF Holding

\* A call that reads the duplicates of its finding saves nothing.
LEMMA ReadKeepsLoops ==
    ASSUME LoopInv, NEW w \in Workers, Read(w)
    PROVE  LoopInv'
<1> DEFINE read == Restrict(finding, Duplicates(Top(w).id))
           frame == Frame(Top(w).id, Top(w).row, read)
           next == Goes(w, "flatten", Append(Below(w), frame))
<1>1. /\ UNCHANGED <<finding, imported>> /\ ~Free(w) /\ worker[w].step = "read"
      /\ worker' = [worker EXCEPT ![w] = next]
  BY DEF Read, Busy
<1>2. frame.id = Top(w).id /\ frame.row = Top(w).row /\ frame.left = read
  BY FrameFields
<1>3. DOMAIN read \subseteq DOMAIN finding
  BY DuplicatesAre DEF Restrict
<1> HIDE DEF read, frame
<1>4. /\ next.task = worker[w].task /\ next.target = worker[w].target
      /\ next.rows = worker[w].rows /\ next.stack = Append(Below(w), frame)
  BY DEF Goes, At
<1> HIDE DEF next
<1>5. worker'[w] = next
  BY <1>1 DEF LoopInv
<1>6. Holding(w)'
  <2>1. PICK frames : Stacked(w, frames)
    BY <1>1 DEF LoopInv, Holding
  <2>2. Top(w) \in frames /\ Below(w) \in Seq(frames)
    BY <2>1, TopAndBelow
  <2>3. /\ worker'[w].stack \in Seq(frames \cup {frame})
        /\ worker'[w].stack # <<>>
    BY <1>4, <1>5, <2>2, PushedOn
  <2>4. \A x \in frames \cup {frame} : Sound(x, w)
    BY <1>2, <1>3, <2>1, <2>2 DEF Stacked, Sound
  <2>5. Holding(w)
    BY <1>1 DEF LoopInv
  <2> QED  BY <1>1, <1>4, <1>5, <2>3, <2>4, <2>5, HoldsOn
<1>7. \A S \in SUBSET DOMAIN finding : Closed(S)' => Closed(S) /\ ~SavedInto(w, S)
  BY <1>1 DEF Closed, SavedInto
<1>8. Pointing'
  BY <1>1 DEF LoopInv, Pointing
<1> QED  BY <1>1, <1>6, <1>7, <1>8, WorkerKeepsLoops

\* A duplicate that leaves the finding points to nothing: no loop is closed.
LEMMA FlattenKeepsLoops ==
    ASSUME LoopInv, NEW w \in Workers, NEW f, Flatten(w, f)
    PROVE  LoopInv'
<1> DEFINE task == worker[w].task
           row == worker[w].stack[1].row
           later == {h \in DOMAIN worker[w].rows : h > worker[w].target}
           rows == Restrict(worker[w].rows, later)
           kid == Frame(f, Attached(Top(w).left[f], worker[w].target), <<>>)
           rest == Frame(Top(w).id, Top(w).row, Without(Top(w).left, f))
           next == Goes(w, "read", Append(Append(Below(w), rest), kid))
<1>1. /\ UNCHANGED imported /\ ~Free(w) /\ worker[w].step = "flatten"
      /\ f \in DOMAIN Top(w).left /\ Holding(w)
      /\ \/ \E begun \in Chosen(task, row, rows) : worker' = [worker EXCEPT ![w] = begun]
         \/ worker' = [worker EXCEPT ![w] = next]
  BY DEF Flatten, Busy, Highest, LoopInv
<1>2. PICK frames : Stacked(w, frames)
  BY <1>1 DEF Holding
<1>3. Top(w) \in frames /\ Below(w) \in Seq(frames) /\ Sound(Top(w), w)
  BY <1>2, TopAndBelow DEF Stacked
<1>4. f \in DOMAIN finding
  BY <1>1, <1>3 DEF Sound
<1>5. /\ DOMAIN finding' = DOMAIN finding
      /\ \A g \in DOMAIN finding :
             \/ finding'[g].original = None
             \/ finding'[g] = finding[g]
  <2>1. CASE f \in Duplicates(Top(w).id)
    <3> DEFINE r == Removed(finding[f])
    <3>1. Put(f, r) /\ r.original = None
      BY <2>1 DEF Flatten, Removed, Row
    <3> HIDE DEF r
    <3> QED  BY <1>4, <3>1, PutIs
  <2>2. CASE f \notin Duplicates(Top(w).id)
    BY <2>2 DEF Flatten
  <2> QED  BY <2>1, <2>2
<1>6. Pointing'
  BY <1>5 DEF LoopInv, Pointing
<1>7. \A S \in SUBSET DOMAIN finding : Closed(S)' => Closed(S) /\ ~SavedInto(w, S)
  <2>1. None \notin DOMAIN finding
    BY NoneIsNobody DEF LoopInv
  <2>2. \A S \in SUBSET DOMAIN finding : Closed(S)' => Closed(S)
    BY <1>5, <2>1 DEF Closed
  <2> QED  BY <1>1, <2>2 DEF SavedInto
<1>8. ASSUME NEW begun \in Chosen(task, row, rows),
             worker' = [worker EXCEPT ![w] = begun]
      PROVE  LoopInv'
  <2>1. /\ task \in DOMAIN finding
        /\ \A g \in DOMAIN rows : g \in DOMAIN finding /\ rows[g].original = None
    BY <1>1 DEF Holding, Restrict
  <2>2. worker'[w] = begun
    BY <1>8 DEF LoopInv
  <2> HIDE DEF task, row, rows
  <2>3. begun.task # None => Holding(w)'
    <3>1. CASE begun = Idle
      BY <3>1 DEF Idle
    <3>2. ASSUME NEW target \in DOMAIN rows,
                 begun = At(task, target, rows, "read",
                            <<Frame(task, Attached(row, target), <<>>)>>)
          PROVE  Holding(w)'
      <4>1. worker'[w] = Begun(task, target, rows, Frame(task, Attached(row, target), <<>>))
        BY <2>2, <3>2 DEF Begun
      <4> QED  BY <1>5, <2>1, <4>1, BegunHolds
    <3> QED  BY <1>8, <3>1, <3>2, ChosenWork
  <2> QED  BY <1>1, <1>5, <1>6, <1>7, <1>8, <2>3, WorkerKeepsLoops
<1>9. ASSUME worker' = [worker EXCEPT ![w] = next]
      PROVE  LoopInv'
  <2>1. /\ kid.id = f /\ kid.row.duplicate /\ kid.row.original = worker[w].target
        /\ DOMAIN kid.left = {}
    BY DEF Frame, Attached, Row
  <2>2. /\ rest.id = Top(w).id /\ rest.row = Top(w).row
        /\ DOMAIN rest.left \subseteq DOMAIN Top(w).left
    BY FrameFields DEF Without, Restrict
  <2> HIDE DEF kid, rest
  <2>3. /\ next.task = worker[w].task /\ next.target = worker[w].target
        /\ next.rows = worker[w].rows
        /\ next.stack = Append(Append(Below(w), rest), kid)
    BY DEF Goes, At
  <2> HIDE DEF next
  <2>4. worker'[w] = next
    BY <1>9 DEF LoopInv
  <2>5. Holding(w)'
    <3> DEFINE set == (frames \cup {rest}) \cup {kid}
    <3>1. next.stack \in Seq(set) /\ next.stack # <<>>
      <4> DEFINE below == Append(Below(w), rest)
      <4>1. below \in Seq(frames \cup {rest})
        BY <1>3, PushedOn
      <4>2. next.stack = Append(below, kid)
        BY <2>3
      <4> HIDE DEF below
      <4> QED  BY <4>1, <4>2, PushedOn
    <3>2. \A x \in set : Sound(x, w)
      BY <1>2, <1>3, <1>4, <2>1, <2>2 DEF Stacked, Sound
    <3> HIDE DEF set
    <3> QED  BY <1>1, <1>5, <2>3, <2>4, <3>1, <3>2, HoldsOn
  <2> QED  BY <1>1, <1>5, <1>6, <1>7, <1>9, <2>5, WorkerKeepsLoops
<1> QED  BY <1>1, <1>8, <1>9

\* A loop that the finding closes leads through the target, which is saved next.
LEMMA SaveNewKeepsLoops ==
    ASSUME LoopInv, NEW w \in Workers, SaveNew(w)
    PROVE  LoopInv'
<1> DEFINE f == Top(w).id
           r == Top(w).row
           next == Goes(w, "saved", worker[w].stack)
<1>1. /\ UNCHANGED imported /\ ~Free(w) /\ worker[w].step = "flatten"
      /\ worker' = [worker EXCEPT ![w] = next] /\ Put(f, r) /\ Holding(w)
  BY DEF SaveNew, Busy, LoopInv
<1>2. PICK frames : Stacked(w, frames)
  BY <1>1 DEF Holding
<1>3. /\ f \in DOMAIN finding /\ r.duplicate /\ r.original = worker[w].target
  BY <1>2, TopAndBelow DEF Stacked, Sound
<1> HIDE DEF f, r
<1>4. /\ DOMAIN finding' = DOMAIN finding
      /\ \A g \in DOMAIN finding : finding'[g] = IF g = f THEN r ELSE finding[g]
  BY <1>1, <1>3, PutIs
<1>5. /\ next.task = worker[w].task /\ next.target = worker[w].target
      /\ next.rows = worker[w].rows /\ next.stack = worker[w].stack
      /\ next.step = "saved"
  BY AtFields DEF Goes
<1> HIDE DEF next
<1>6. worker'[w] = next
  BY <1>1 DEF LoopInv
<1>7. Holding(w)'
  <2>1. /\ worker'[w].stack \in Seq(frames) /\ worker'[w].stack # <<>>
        /\ \A x \in frames : Sound(x, w)
    BY <1>2, <1>5, <1>6 DEF Stacked
  <2> QED  BY <1>1, <1>4, <1>5, <1>6, <2>1, HoldsOn
<1>8. Pointing'
  <2>1. worker[w].target \in DOMAIN finding
    BY <1>1 DEF Holding
  <2> QED  BY <1>3, <1>4, <2>1 DEF LoopInv, Pointing
<1>9. ASSUME NEW S \in SUBSET DOMAIN finding, Closed(S)'
      PROVE  (Closed(S) /\ ~SavedInto(w, S)) \/ SavedInto(w, S)'
  <2>1. CASE worker[w].target \in S
    BY <1>1, <1>5, <1>6, <2>1 DEF SavedInto, Free
  <2>2. CASE worker[w].target \notin S
    <3>1. f \notin S
      BY <1>3, <1>4, <1>9, <2>2 DEF Closed
    <3>2. Closed(S)
      BY <1>4, <1>9, <3>1 DEF Closed
    <3> QED  BY <2>2, <3>2 DEF SavedInto
  <2> QED  BY <2>1, <2>2
<1> QED  BY <1>1, <1>4, <1>7, <1>8, <1>9, WorkerKeepsLoops

\* The target, as it had been read, is no duplicate: no loop leads through it.
LEMMA SaveExistingKeepsLoops ==
    ASSUME LoopInv, NEW w \in Workers, SaveExisting(w)
    PROVE  LoopInv'
<1> DEFINE t == worker[w].target
           r == worker[w].rows[t]
           on == Goes(w, "flatten", Below(w))
           next == IF Below(w) = <<>> THEN Idle ELSE on
<1>1. /\ UNCHANGED imported /\ ~Free(w)
      /\ worker' = [worker EXCEPT ![w] = next] /\ Put(t, r) /\ Holding(w)
  BY DEF SaveExisting, Busy, LoopInv
<1>2. t \in DOMAIN finding /\ r.original = None
  BY <1>1 DEF Holding
<1>3. /\ on.task = worker[w].task /\ on.target = worker[w].target
      /\ on.rows = worker[w].rows /\ on.stack = Below(w)
  BY AtFields DEF Goes
<1> HIDE DEF r, on
<1>4. /\ DOMAIN finding' = DOMAIN finding
      /\ \A g \in DOMAIN finding : finding'[g] = IF g = t THEN r ELSE finding[g]
  BY <1>1, <1>2, PutIs
<1>5. next.task # None => Holding(w)'
  <2>1. CASE Below(w) = <<>>
    BY <2>1 DEF Idle
  <2>2. CASE Below(w) # <<>>
    <3>1. worker'[w] = on
      BY <1>1, <2>2 DEF LoopInv
    <3>2. PICK frames : Stacked(w, frames)
      BY <1>1 DEF Holding
    <3>3. /\ worker'[w].stack \in Seq(frames) /\ worker'[w].stack # <<>>
          /\ \A x \in frames : Sound(x, w)
      BY <1>3, <2>2, <3>1, <3>2, TopAndBelow DEF Stacked
    <3> QED  BY <1>1, <1>3, <1>4, <3>1, <3>3, HoldsOn
  <2> QED  BY <2>1, <2>2
<1>6. Pointing'
  BY <1>2, <1>4 DEF LoopInv, Pointing
<1>7. ASSUME NEW S \in SUBSET DOMAIN finding, Closed(S)'
      PROVE  Closed(S) /\ ~SavedInto(w, S)
  <2>1. t \notin S
    <3>1. None \notin DOMAIN finding
      BY NoneIsNobody DEF LoopInv
    <3> QED  BY <1>2, <1>4, <1>7, <3>1 DEF Closed
  <2>2. Closed(S)
    BY <1>4, <1>7, <2>1 DEF Closed
  <2> QED  BY <2>1, <2>2 DEF SavedInto
<1> HIDE DEF next
<1> QED  BY <1>1, <1>4, <1>5, <1>6, <1>7, WorkerKeepsLoops

\* Before the first import there is no finding and so no loop.
LEMMA InitLoops == Init => LoopInv
<1> SUFFICES ASSUME Init
             PROVE  LoopInv
  OBVIOUS
<1>1. DOMAIN finding = {}
  BY DEF Init
<1>2. Numbered /\ Pointing
  BY <1>1 DEF Init, Numbered, Pointing
<1>3. LoopsEnd
  BY <1>1 DEF LoopsEnd, Closed
<1>4. DOMAIN worker = Workers /\ \A w \in Workers : Free(w)
  BY DEF Init, Free, Idle
<1> QED  BY <1>2, <1>3, <1>4 DEF LoopInv

\* Every step keeps that a loop is opened by somebody.
LEMMA NextLoops == LoopInv /\ [Next]_vars => LoopInv'
<1> SUFFICES ASSUME LoopInv, [Next]_vars
             PROVE  LoopInv'
  OBVIOUS
<1>1. CASE PageStep
  BY <1>1, PageStepKeepsLoops
<1>2. CASE Import
  BY <1>2, ImportKeepsLoops
<1>3. CASE FixLoops
  BY <1>3, FixLoopsKeepsLoops
<1>4. ASSUME NEW w \in Workers, NEW f \in DOMAIN finding, Load(w, f)
      PROVE  LoopInv'
  BY <1>4, LoadKeepsLoops
<1>5. ASSUME NEW w \in Workers, WorkerStep(w)
      PROVE  LoopInv'
  BY <1>5, ReadKeepsLoops, FlattenKeepsLoops, SaveNewKeepsLoops, SaveExistingKeepsLoops
     DEF WorkerStep
<1>6. CASE UNCHANGED vars
  BY <1>6 DEF vars, LoopInv, Numbered, Pointing, LoopsEnd, Closed, SavedInto, Free,
              Holding, Stacked, Sound
<1> QED  BY <1>1, <1>2, <1>3, <1>4, <1>5, <1>6 DEF Next

\* Then there is none when nobody is left.
LEMMA LoopsBreak == LoopInv => NoLoopRemains
<1>1. ASSUME LoopInv, Quiet, NEW S \in SUBSET DOMAIN finding, S # {}
      PROVE  \E f \in S : finding[f].original \notin S
  BY <1>1, QuietIsLoopFree DEF Closed
<1> QED  BY <1>1 DEF NoLoopRemains

\* Once all workers have finished, no finding is a duplicate of itself, directly
\* or through others: whatever workers and people do at the same time, whatever
\* a worker has read is stale, and however many of them there are.
THEOREM NoLoopIsLeft == Spec => []NoLoopRemains
<1>1. LoopInv /\ [Next]_vars => LoopInv'
  BY NextLoops
<1> QED  BY InitLoops, <1>1, LoopsBreak, PTL DEF Spec

\* What makes of every duplicate a duplicate of the one at the end of its chain.
LEMMA FlattenedIf ==
    ASSUME LoopInv,
           \A r : Rooted(r, Graph) =>
               \A f \in DOMAIN finding :
                   /\ Repaired(Graph)[f] = IF Graph[f] = None THEN None ELSE r[f]
                   /\ Graph[f] # None => r[f] # f
    PROVE  Flattened
<1> DEFINE D == DOMAIN finding
           o == Graph
           End(r) == r = [f \in D |-> IF o[f] = None THEN f ELSE r[o[f]]]
           root == CHOOSE r : End(r)
<1>1. DOMAIN o = D
  BY DEF Graph
<1>2. o \in Pointers(D)
  BY DEF LoopInv, Pointing, Graph, Pointers
<1>3. \A r : Rooted(r, o) =>
          \A f \in D : /\ Repaired(o)[f] = IF o[f] = None THEN None ELSE r[f]
                       /\ o[f] # None => r[f] # f
  OBVIOUS
<1> HIDE DEF D, o
<1>4. \E r : End(r)
  BY <1>2, RootsExist
<1> HIDE DEF End
<1>5. End(root)
  BY <1>4
<1> HIDE DEF root
<1>6. \A f \in D : root[f] = IF o[f] = None THEN f ELSE root[o[f]]
  BY <1>5 DEF End
<1>7. Rooted(root, o)
  BY <1>1, <1>6 DEF Rooted
<1>8. \A f \in D : Repaired(o)[f] = IF root[f] = f THEN None ELSE root[f]
  BY <1>3, <1>6, <1>7
<1> QED  BY <1>8 DEF Flattened, D, o, root, End

\* The findings that there are, as the lemmas about the repair need them.
LEMMA GraphIs ==
    ASSUME LoopInv
    PROVE  \E n \in Nat : DOMAIN finding \in SUBSET (1 .. n) /\ Graph \in Pointers(DOMAIN finding)
<1>1. imported \in Nat /\ DOMAIN finding \in SUBSET (1 .. imported)
  BY DEF LoopInv, Numbered
<1>2. Graph \in Pointers(DOMAIN finding)
  BY DEF LoopInv, Pointing, Graph, Pointers
<1> QED  BY <1>1, <1>2

\* What a run of fix_loop_duplicates does with chains that are in order.
LEMMA OrderedFlatten == LoopInv => (LoopFree(Graph) /\ Ordered(Graph) => Flattened)
<1> SUFFICES ASSUME LoopInv, LoopFree(Graph), Ordered(Graph)
             PROVE  Flattened
  OBVIOUS
<1> DEFINE D == DOMAIN finding
           o == Graph
<1>1. PICK n \in Nat : D \in SUBSET (1 .. n) /\ o \in Pointers(D)
  BY GraphIs
<1>2. LoopFree(o) /\ Ordered(o)
  OBVIOUS
<1> HIDE DEF D, o
<1>3. \A r : Rooted(r, o) =>
          \A f \in D : /\ Repaired(o)[f] = IF o[f] = None THEN None ELSE r[f]
                       /\ o[f] # None => r[f] # f
  BY <1>1, <1>2, OrderedRepaired
<1> QED  BY <1>3, FlattenedIf DEF D, o

\* However many findings there are and however long the chains: while originals
\* get older towards the end of a chain (all but the end, and but for those that
\* have no duplicates), one run of fix_loop_duplicates makes each duplicate a
\* duplicate of the finding at the end.
THEOREM OrderedChainsFlatten == Spec => [](LoopFree(Graph) /\ Ordered(Graph) => Flattened)
<1>1. LoopInv /\ [Next]_vars => LoopInv'
  BY NextLoops
<1> QED  BY InitLoops, <1>1, OrderedFlatten, PTL DEF Spec

\* What it does with up to four findings, whatever they are.
LEMMA SmallFlatten == LoopInv => FixFlattens
<1> SUFFICES ASSUME LoopInv, Quiet, Cardinality(DOMAIN finding) <= 4
             PROVE  Flattened
  BY DEF FixFlattens
<1> DEFINE D == DOMAIN finding
           o == Graph
<1>1. PICK n \in Nat : D \in SUBSET (1 .. n) /\ o \in Pointers(D)
  BY GraphIs
<1>2. LoopFree(o)
  <2>1. \A S \in SUBSET D : S # {} => ~Closed(S)
    BY QuietIsLoopFree
  <2> QED  BY <2>1 DEF LoopFree, Closed, Graph
<1>3. Cardinality(D) <= 4
  OBVIOUS
<1> HIDE DEF D, o
<1>4. \A r : Rooted(r, o) =>
          \A f \in D : /\ Repaired(o)[f] = IF o[f] = None THEN None ELSE r[f]
                       /\ o[f] # None => r[f] # f
  BY <1>1, <1>2, <1>3, SmallRepaired
<1> QED  BY <1>4, FlattenedIf DEF D, o

\* When all workers have finished, and whatever they and people have done at
\* the same time, up to four findings have only chains that one run of
\* fix_loop_duplicates undoes: each duplicate then is one of the end of its
\* chain.
THEOREM FourAreFlattened == Spec => []FixFlattens
<1>1. LoopInv /\ [Next]_vars => LoopInv'
  BY NextLoops
<1> QED  BY InitLoops, <1>1, SmallFlatten, PTL DEF Spec

=============================================================================
