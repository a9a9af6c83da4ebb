----------------------------- MODULE MCSession -----------------------------
(***************************************************************************)
(* Session for TLC: a few calls of one or two users.                       *)
(***************************************************************************)
EXTENDS Session, TLC

\* Calls and users are interchangeable.
Symmetry == Permutations(Calls) \cup Permutations(Users)
=============================================================================
