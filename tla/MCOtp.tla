------------------------------- MODULE MCOtp -------------------------------
(***************************************************************************)
(* Otp for TLC: a few calls for one target and one purpose.                *)
(***************************************************************************)
EXTENDS Otp, TLC

\* Bound: time passes while there is a call that has been made and one that has not returned.
MCNext == Next /\ (now' # now => (\E c \in Calls : pc[c] # "new") /\ Done # Calls)
MCSpec == Init /\ [][MCNext]_vars

\* Calls, targets, purposes and values are interchangeable.
Symmetry == Permutations(Calls) \cup Permutations(Targets)
                \cup Permutations(Purposes) \cup Permutations(Values)
=============================================================================
