------------------------------ MODULE EntryTree ------------------------------
(***************************************************************************)
(* The content of an entry of the word list, as one value: whether all     *)
(* that is not modelled of it satisfies the rules of publishing, its       *)
(* senses, and the relations of its senses to (senses of) other entries    *)
(* (Word and its parts, internal/word/model.go).                           *)
(***************************************************************************)
CONSTANTS
    Words,      \* ids of entries
    Senses,     \* ids of senses, which the client makes up
    Rels,       \* ids of relations, which the client makes up
    None        \* no entry, no sense

\* A relation from a sense to an entry and one of its senses.  Both are None for an
\* orphan, whose entry was deleted.
Link == [sense : Senses \cup {None}, word : Words \cup {None}, target : Senses \cup {None}]
NoLink == [sense |-> None, word |-> None, target |-> None]

Tree == [full : BOOLEAN, senses : SUBSET Senses, links : [Rels -> Link]]
NoTree == [full |-> FALSE, senses |-> {}, links |-> [r \in Rels |-> NoLink]]

Carried(t) == {r \in Rels : t.links[r] # NoLink}

\* publishViolations: V1-V9, and V10 for the relations: pick a sense of the target.
Complete(t) ==
    t.full /\ \A r \in Rels : t.links[r].word # None => t.links[r].target # None

\* A tree is another one but for links that have been set to NULL by deletions.
SameButCut(now, old) ==
    /\ now.full = old.full /\ now.senses = old.senses
    /\ \A r \in Rels : /\ now.links[r].sense = old.links[r].sense
                       /\ now.links[r].word \in {old.links[r].word, None}
                       /\ now.links[r].target \in {old.links[r].target, None}
=============================================================================
