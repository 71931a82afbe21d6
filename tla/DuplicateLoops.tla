--------------------------- MODULE DuplicateLoops ---------------------------
(***************************************************************************)
(* The repair of duplicates of duplicates (fix_loop_duplicates), as a      *)
(* function of a graph: original[f] is the finding that f is a duplicate   *)
(* of, or None.  Findings are their ids.                                   *)
(***************************************************************************)
EXTENDS Naturals, SequencesExt

None == 0
Depth == 50   \* the recursion of removeLoop stops there

Pointers(D) == [D -> D \cup {None}]
Originals(original, f) == {g \in DOMAIN original : original[g] = f}

\* Duplicates of duplicates: for each the query has a row with its original.
Chained(original) ==
    {f \in DOMAIN original : original[f] # None /\ original[original[f]] # None}

\* Of some of these rows the one that is dealt with last.
LastRow(original, rows) ==
    CHOOSE f \in rows : \A g \in rows : original[f] <= original[g]

\* Mutant: the duplicates of the finding in between are left with it.
LoosenedCutOnly(original, finding) ==
    IF original[finding] = finding THEN [original EXCEPT ![finding] = None] ELSE original

\* Of a finding x and its original, the older one is kept.
Swapped(o, x) == o[x] > x /\ o[o[x]] # None
Keep(o, x) == IF Swapped(o, x) THEN x ELSE o[x]
Go(o, x) == IF Swapped(o, x) THEN o[x] ELSE x

Cut(o, x) ==
    IF o[Keep(o, x)] = Go(o, x) THEN [o EXCEPT ![Keep(o, x)] = None] ELSE o

\* f is given to the one that is kept, and that is saved as it was read: where
\* it was cut off from the one that goes, it is a duplicate of it again.
Given(g, f, o, x) == [g EXCEPT ![f] = Keep(o, x), ![Keep(o, x)] = o[Keep(o, x)]]

\* The duplicates of a finding come by severity, date and title, of which the
\* model knows nothing: any of them may be the last.
LastGiven(rows) == CHOOSE f \in rows : TRUE

\* removeLoop calls itself for each duplicate of the one that goes.
AllGiven(deeper, o, x) ==
    MapThenFoldSet(LAMBDA f, g : deeper[Given(g, f, o, x)][f], Cut(o, x),
                   LAMBDA f : f, LastGiven, Originals(Cut(o, x), Go(o, x)))

Removing(deeper, depth, o, x) ==
    CASE o[x] = None -> o
      [] o[x] = x -> [o EXCEPT ![x] = None]
      [] OTHER -> IF depth = 0 THEN Cut(o, x) ELSE AllGiven(deeper, o, x)

RemoveLoop(D) ==
    LET Call[depth \in 0 .. Depth] ==
            [o \in Pointers(D) |-> [x \in D |-> Removing(Call[depth - 1], depth, o, x)]]
    IN  Call

Loosened(original, finding) == RemoveLoop(DOMAIN original)[Depth][original][finding]

\* One run of fix_loop_duplicates: removeLoop for the original of each row, and
\* again for the same one when it has more duplicates than one.
Repaired(original) ==
    MapThenFoldSet(LAMBDA f, g : Loosened(g, original[f]), original, LAMBDA f : f,
                   LAMBDA rows : LastRow(original, rows), Chained(original))
=============================================================================
