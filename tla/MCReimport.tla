----------------------------- MODULE MCReimport -----------------------------
(* A small instance of Reimport: one hash code, what a report may say of it *)
(* in one item or two, and three ways to fill the form.                     *)
EXTENDS Reimport, TLC

CONSTANT k1

Form(close, keep, active) ==
    [close_old_findings |-> close, do_not_reactivate |-> keep, active |-> active]

MCOptions == {Form(TRUE, FALSE, "as reported"), Form(TRUE, TRUE, "active"),
              Form(FALSE, FALSE, "inactive")}

Says(status) == [key |-> k1, status |-> status]

MCReports ==
    {<<>>, <<Says("open")>>, <<Says("mitigated")>>, <<Says("false positive")>>,
     <<Says("open"), Says("open")>>}

Requests == Permutations(Runs)
=============================================================================
