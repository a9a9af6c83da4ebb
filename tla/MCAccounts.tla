----------------------------- MODULE MCAccounts -----------------------------
(***************************************************************************)
(* Accounts for TLC: two calls on two accounts, and three on one account.  *)
(***************************************************************************)
EXTENDS Accounts, TLC

CONSTANTS p1, p2, s1, s2, s3

\* One phone has been sent codes to reset and to delete, the other one to bind it.
MCSent == << [id |-> s1, contact |-> p1, purpose |-> "password_reset", consumed |-> FALSE],
             [id |-> s2, contact |-> p1, purpose |-> "account_deletion", consumed |-> FALSE],
             [id |-> s3, contact |-> p2, purpose |-> "contact_bind", consumed |-> FALSE] >>

\* The only phone has been sent codes to log in, to reset and to delete.
MCSentOne == << [id |-> s1, contact |-> p1, purpose |-> "password_reset", consumed |-> FALSE],
                [id |-> s2, contact |-> p1, purpose |-> "account_deletion", consumed |-> FALSE],
                [id |-> s3, contact |-> p1, purpose |-> "login", consumed |-> FALSE] >>

\* Bound: whoever has an account acts in the role of it.
MCInit == Init /\ \A u \in Users : Live(u) => account[u].active = "student"
MCSpec == MCInit /\ [][Next]_vars

\* Bound: there is an account, which has a session.
MCAccessInit == Init /\ \A u \in Users : Live(u) /\ token[u].state = "live"
MCAccessSpec == MCAccessInit /\ [][Next]_vars

\* Calls and users are interchangeable.
Symmetry == Permutations(Calls) \cup Permutations(Users)
=============================================================================
