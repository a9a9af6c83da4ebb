--------------------------- MODULE MCRateLimiter ---------------------------
(***************************************************************************)
(* RateLimiter for TLC: ages are bounded, so the whole of its behaviour is *)
(* explored, for ever.                                                     *)
(***************************************************************************)
EXTENDS RateLimiter, TLC

\* Slots and addresses are interchangeable.
Symmetry == Permutations(Slots) \cup Permutations(Addresses)
=============================================================================
