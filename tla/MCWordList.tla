----------------------------- MODULE MCWordList -----------------------------
(***************************************************************************)
(* WordList for TLC: a few calls on two entries, two senses, a relation.   *)
(***************************************************************************)
EXTENDS WordList, TLC

\* Bound: at first one entry is published, and the other one is a draft or is not there;
\* they are complete and have senses, and the published one may have a relation to the
\* other one, which is an orphan if that one is not there.
MCInit ==
    /\ Init
    /\ \A w \in Words : Live(w) => word[w].full /\ SensesOf(w) # {}
    /\ \E w \in Words : /\ \A v \in Words : word[v].status = "published" <=> v = w
                        /\ \A r \in Rels : rel[r] # NoLink =>
                              /\ rel[r].sense \in SensesOf(w)
                              /\ Live(rel[r].word) <=> \E v \in Words \ {w} : Live(v)
                              /\ rel[r].word # w

MCSpec == MCInit /\ [][Next]_vars

\* Bound: at first there are complete drafts only, with relations or without.
MCDraftInit ==
    /\ Init
    /\ \A w \in Words : word[w].status = "draft" /\ (Live(w) => Complete(TreeOf(w)))

MCDraftSpec == MCDraftInit /\ [][Next]_vars

\* Calls, entries, senses and relations are interchangeable.
Symmetry == Permutations(Calls) \cup Permutations(Words)
                \cup Permutations(Senses) \cup Permutations(Rels)
=============================================================================
