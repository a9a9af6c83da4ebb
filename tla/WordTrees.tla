------------------------------ MODULE WordTrees ------------------------------
(***************************************************************************)
(* What the word list promises its editors, each operation taking effect   *)
(* at once and on whole trees, with no rows, statements, locks or tokens   *)
(* (the comments of internal/word/service.go, and what the foreign keys of *)
(* migration 000018 stand for).  WordList, which models the statements of  *)
(* internal/word/repository.go, implements it.                             *)
(***************************************************************************)
EXTENDS EntryTree

CONSTANT Calls  \* requests, each made once

VARIABLES
    entry,      \* each entry: its status, and its tree
    loaded,     \* what each call has loaded and is going to save or to publish
    spent       \* senses that have been deleted

vars == <<entry, loaded, spent>>

Entry == [status : {"absent", "draft", "published", "gone"}, tree : Tree]
Nothing == [word |-> None, tree |-> NoTree]

Exists(w) == w \in Words /\ entry[w].status \in {"draft", "published"}

SensesOf(w) == entry[w].tree.senses

\* A sense that a relation points to is in the entry it points to, unless a client has
\* used the id of a deleted sense again: then it is in some entry.
Resolves(l) ==
    /\ l.word # None => Exists(l.word)
    /\ l.target # None =>
          \E v \in Words : /\ Exists(v) /\ l.target \in SensesOf(v)
                           /\ v = l.word \/ l.target \in spent

\* A sense and a relation are in one entry, and a relation is of a sense of its entry.
WellFormed ==
    /\ \A v, w \in Words : v # w =>
          /\ SensesOf(v) \cap SensesOf(w) = {}
          /\ Carried(entry[v].tree) \cap Carried(entry[w].tree) = {}
    /\ \A w \in Words : \A r \in Carried(entry[w].tree) :
          entry[w].tree.links[r].sense \in SensesOf(w) /\ Resolves(entry[w].tree.links[r])
    /\ \A w \in Words : ~Exists(w) => entry[w].tree = NoTree

Init ==
    /\ entry \in [Words -> Entry]
    /\ spent = {}
    /\ loaded = [c \in Calls |-> Nothing]
    /\ WellFormed
    /\ \A w \in Words : entry[w].status = "published" => Complete(entry[w].tree)

-----------------------------------------------------------------------------
\* What is left of a tree when entries and senses that it points to are deleted.
Cut(t, words, senses) ==
    [full   |-> t.full,
     senses |-> t.senses,
     links  |-> [r \in Rels |->
                    [sense  |-> t.links[r].sense,
                     word   |-> IF t.links[r].word \in words THEN None ELSE t.links[r].word,
                     target |-> IF t.links[r].target \in senses THEN None ELSE t.links[r].target]]]

\* What is stored of a body: its orphans keep pointing to what they pointed to.
Filed(body, old) ==
    [full   |-> body.full,
     senses |-> body.senses,
     links  |-> [r \in Rels |->
                    IF body.links[r].word # None \/ r \notin Carried(body) THEN body.links[r]
                    ELSE [sense  |-> body.links[r].sense,
                          word   |-> old.links[r].word,
                          target |-> old.links[r].target]]]

Create(w) ==
    /\ entry[w].status = "absent"
    /\ entry' = [entry EXCEPT ![w] = [status |-> "draft", tree |-> NoTree]]
    /\ UNCHANGED <<loaded, spent>>

Load(c, w) ==
    /\ loaded[c] = Nothing /\ Exists(w)
    /\ loaded' = [loaded EXCEPT ![c] = [word |-> w, tree |-> entry[w].tree]]
    /\ UNCHANGED <<entry, spent>>


\* The entry is as the call has loaded it.
AsLoaded(c) ==
    /\ Exists(loaded[c].word)
    /\ SameButCut(entry[loaded[c].word].tree, loaded[c].tree)

\* A body takes the place of an entry's tree, and what pointed to a sense it drops is cut.
\* Its orphans were there before, and no relation is carried over from a sense it drops.
Put(w, body) ==
    LET old == entry[w].tree
        gone == old.senses \ body.senses IN
    /\ entry[w].status = "published" => Complete(body)
    /\ \A r \in Carried(body) :
          /\ body.links[r].word = None => r \in Carried(old)
          /\ old.links[r].sense \notin gone
    /\ entry' = [v \in Words |->
                    [status |-> entry[v].status,
                     tree   |-> IF v = w THEN Filed(body, Cut(old, {}, gone))
                                ELSE Cut(entry[v].tree, {}, gone)]]
    /\ spent' = spent \cup gone
    /\ WellFormed'

\* What is saved takes the place of what the call has loaded.
Save(c) ==
    /\ AsLoaded(c)
    /\ \E body \in Tree : Put(loaded[c].word, body)

\* The tree that was loaded is complete, and is the one that is published.
Publish(c) ==
    /\ AsLoaded(c) /\ Complete(loaded[c].tree)
    /\ entry' = [entry EXCEPT ![loaded[c].word].status = "published"]
    /\ UNCHANGED spent

Delete(words) ==
    LET gone == UNION {SensesOf(w) : w \in words} IN
    /\ \A w \in words : Exists(w)
    /\ entry' = [v \in Words |->
                    IF v \in words THEN [status |-> "gone", tree |-> NoTree]
                    ELSE [status |-> entry[v].status, tree |-> Cut(entry[v].tree, words, gone)]]
    /\ spent' = spent \cup gone
    /\ UNCHANGED loaded

\* A call that has loaded an entry writes it, or comes to nothing.
Return(c) ==
    /\ loaded' = [loaded EXCEPT ![c] = Nothing]
    /\ UNCHANGED <<entry, spent>> \/ Publish(c) \/ Save(c)

Next ==
    \/ \E c \in Calls : Return(c) \/ \E w \in Words : Load(c, w)
    \/ \E w \in Words : Create(w)
    \/ \E words \in SUBSET Words : Delete(words)

Spec == Init /\ [][Next]_vars
=============================================================================
