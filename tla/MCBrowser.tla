----------------------------- MODULE MCBrowser -----------------------------
(***************************************************************************)
(* Session and Browser for TLC.  A behaviour begins in one of two ways:    *)
(*   - nothing has been called, and only other clients call, for one user: *)
(*     the session service by itself;                                      *)
(*   - a user has logged in on the browser; then at most MaxOdd calls come *)
(*     from other clients or are made for another user, and at most        *)
(*     MaxTrouble of these, of lost answers and of failures come together. *)
(* Tokens expire, or the user is deleted, only in behaviours that leave a  *)
(* call unmade and have no other user.                                     *)
(***************************************************************************)
EXTENDS Browser, TLC, FiniteSets

CONSTANTS MaxOdd, MaxTrouble

LoggedIn(f, u) ==
    /\ token = [c \in Calls |-> IF c = f THEN [state |-> "live", user |-> u] ELSE NoToken]
    /\ expired = {} /\ gone = {}
    /\ pc = [c \in Calls |-> IF c = f THEN "done" ELSE "new"]
    /\ op = [c \in Calls |-> IF c = f THEN [NoOp EXCEPT !.user = u] ELSE NoOp]
    /\ reply = [c \in Calls |-> IF c = f THEN "ok" ELSE "none"]
    /\ before = [c \in Calls |-> {}]
    /\ jar = f
    /\ mine = {f} /\ heard = {f} /\ lost = {} /\ raced = {}

MCInit == BrowserInit \/ \E f \in Calls, u \in Users : LoggedIn(f, u)

Made == {c \in Calls : pc[c] # "new"}

\* Calls made for another user than u, or with a token of his.
ForOthers(u) ==
    {c \in Calls : \/ op[c].user \notin {u, None}
                   \/ op[c].token # None /\ op[op[c].token].user # u}

Odd(u) == (Made \ mine) \cup ForOthers(u)

\* Calls that failed although nobody deleted their user.
Failed == {c \in Calls : reply[c] = "failed" /\ op[c].user \notin gone}

Bounds ==
    \E u \in Users :
        /\ gone' \subseteq {u}
        /\ expired' \cup gone' # {} => Made' # Calls /\ ForOthers(u)' = {}
        /\ IF mine = {} THEN mine' = {} /\ ForOthers(u)' = {}
           ELSE /\ Cardinality(Odd(u)') <= MaxOdd
                /\ Cardinality(Odd(u)') + Cardinality(lost') + Cardinality(Failed') <= MaxTrouble

MCSpec == MCInit /\ [][BrowserNext /\ Bounds]_allVars

\* Calls and users are interchangeable.
Symmetry == Permutations(Calls) \cup Permutations(Users)
=============================================================================
