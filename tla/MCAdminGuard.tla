---------------------------- MODULE MCAdminGuard ----------------------------
(***************************************************************************)
(* AdminGuard for TLC: a few calls on two or three accounts.               *)
(***************************************************************************)
EXTENDS AdminGuard, TLC

\* Bound: one account at most is disabled at first.
MCInit ==
    /\ Init
    /\ \A a, b \in Accounts : account[a].status = "disabled" /\ account[b].status = "disabled" => a = b
MCSpec == MCInit /\ [][Next]_vars

\* Calls and accounts are interchangeable.
Symmetry == Permutations(Calls) \cup Permutations(Accounts)
=============================================================================
