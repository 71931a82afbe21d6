---------------------------- MODULE RiskRegister ----------------------------
(***************************************************************************)
(* What the risk acceptance flow promises to someone who reads the list of *)
(* findings: every finding is open, closed or accepted, and an accepted     *)
(* one is under at least one acceptance that says so.  How an acceptance is *)
(* requested, who decides and how long it lasts is not visible here.        *)
(***************************************************************************)
CONSTANTS Findings, RAs

VARIABLES
    state,    \* where each finding is listed
    cover     \* the acceptances each finding belongs to

vars == <<state, cover>>

States == {"open", "accepted", "closed"}

Init ==
    /\ state = [f \in Findings |-> "open"]
    /\ cover = [f \in Findings |-> {}]

Set(S, where) ==
    state' = [f \in Findings |-> IF f \in S THEN where ELSE state[f]]

\* Findings join an acceptance: as a request, or accepted at once, except
\* those that are closed, which stay so.
Join(r, S) ==
    /\ cover' = [f \in Findings |-> IF f \in S THEN cover[f] \cup {r} ELSE cover[f]]
    /\ \/ UNCHANGED state
       \/ Set({f \in S : state[f] # "closed"}, "accepted")

\* Findings leave an acceptance and are open again.
Leave(r, S) ==
    /\ \A f \in S : r \in cover[f]
    /\ cover' = [f \in Findings |-> IF f \in S THEN cover[f] \ {r} ELSE cover[f]]
    /\ Set(S, "open")

\* Open findings of an acceptance are accepted.
Accept(r, S) ==
    /\ \A f \in S : r \in cover[f] /\ state[f] = "open"
    /\ Set(S, "accepted")
    /\ UNCHANGED cover

\* Accepted findings are open again, and stay in the acceptance.
Withdraw(r, S) ==
    /\ \A f \in S : r \in cover[f] /\ state[f] # "open"
    /\ Set(S, "open")
    /\ UNCHANGED cover

\* A finding is fixed, or found again; if it was accepted it may leave its
\* acceptances meanwhile.
Close(f) ==
    /\ Set({f}, "closed")
    /\ cover' \in {cover, [cover EXCEPT ![f] = {}]}

Reopen(f) ==
    \/ Set({f}, "open") /\ cover' \in {cover, [cover EXCEPT ![f] = {}]}
    \/ /\ state[f] = "closed" /\ cover[f] # {}
       /\ Set({f}, "accepted")
       /\ UNCHANGED cover

Next ==
    \/ \E r \in RAs, S \in SUBSET Findings :
          Join(r, S) \/ Leave(r, S) \/ Accept(r, S) \/ Withdraw(r, S)
    \/ \E f \in Findings : Close(f) \/ Reopen(f)

Spec == Init /\ [][Next]_vars
=============================================================================
