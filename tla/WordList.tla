------------------------------ MODULE WordList ------------------------------
(***************************************************************************)
(* The word list: internal/word/service.go and repository.go on the tables *)
(* of migration 000018.                                                    *)
(*                                                                         *)
(* An entry is a tree.  Here it has senses, the relations of its senses to *)
(* (senses of) other entries, and one bit for all the rest: whether the    *)
(* content satisfies the rules V1-V9 of publishing.  A save runs in a      *)
(* transaction at READ COMMITTED that replaces the tree; what it has       *)
(* written is seen only through its locks until it commits, so the tables  *)
(* change at COMMIT.  An action is a statement (or several that nothing    *)
(* can come between); one that has to wait is taken when it can complete.  *)
(*                                                                         *)
(* updated_at, the token of the optimistic lock, is named by the call that *)
(* set it: it is the time that call's transaction began.                   *)
(***************************************************************************)
EXTENDS Integers, FiniteSets, EntryTree

CONSTANTS
    Calls,      \* requests, each made once
    MaxChanges  \* bound: how much a save changes of what its editor loaded

ASSUME WordAssumption ==
    /\ None \notin Words \cup Senses \cup Calls
    /\ MaxChanges \in Nat

VARIABLES
    word,       \* committed rows of words
    sense,      \* committed rows of word_senses: the entry each is in, or None
    rel,        \* committed rows of word_sense_relations
    spent,      \* history: senses that have been deleted
    cut,        \* history: relations that lost their target sense when it was deleted,
                \* and have not been saved with another since
    pc,         \* the statement each call executes next
    work        \* what each call was asked, what it has read, and the tree it saves

vars == <<word, sense, rel, spent, cut, pc, work>>

-----------------------------------------------------------------------------
Word == [state : {"absent", "live", "gone"}, status : {"draft", "published"},
         full : BOOLEAN, token : Calls \cup {None}]
NoWord == [state |-> "absent", status |-> "draft", full |-> FALSE, token |-> None]

\* word, batch: the entry, and the entries to delete.  base, seen: the token and the tree
\* that were read.  todo: relations yet to be written, of which rel is the next.
Work == [word : Words \cup {None}, batch : SUBSET Words,
         base : Calls \cup {None}, seen : Tree, body : Tree,
         todo : SUBSET Rels, rel : Rels \cup {None}]
NoWork == [word |-> None, batch |-> {}, base |-> None, seen |-> NoTree, body |-> NoTree,
           todo |-> {}, rel |-> None]

Running == {"insert", "edit", "check", "flip", "drop",
            "lock", "delete", "senses", "relations", "upsert", "commit"}

Live(w) == w \in Words /\ word[w].state = "live"
SensesOf(w) == {s \in Senses : sense[s] = w}
LinksOf(w) == {r \in Rels : rel[r].sense \in SensesOf(w)}

\* GetTree: one snapshot of the entry.
TreeOf(w) == [full |-> word[w].full, senses |-> SensesOf(w),
              links |-> [r \in Rels |-> IF r \in LinksOf(w) THEN rel[r] ELSE NoLink]]

\* The relations once these entries and senses are deleted: ON DELETE CASCADE from the
\* sense that has them, ON DELETE SET NULL from what they point to.
Remaining(words, senses) ==
    [r \in Rels |->
        IF rel[r].sense \in senses THEN NoLink
        ELSE [sense  |-> rel[r].sense,
              word   |-> IF rel[r].word \in words THEN None ELSE rel[r].word,
              target |-> IF rel[r].target \in senses THEN None ELSE rel[r].target]]

\* The relations whose rows that touches.
Touched(words, senses) ==
    {r \in Rels : rel[r].sense \in senses \/ rel[r].word \in words \/ rel[r].target \in senses}

-----------------------------------------------------------------------------
(* What the transactions of saves have done, and the locks they hold.      *)

InTx(d) == pc[d] \in {"delete", "senses", "relations", "upsert", "commit"}
HasDeleted(d) == pc[d] \in {"senses", "relations", "upsert", "commit"}
HasInserted(d) == pc[d] \in {"relations", "upsert", "commit"}

Gone(d) == IF HasDeleted(d) THEN SensesOf(work[d].word) \ work[d].body.senses ELSE {}
New(d) == IF HasInserted(d) THEN work[d].body.senses \ SensesOf(work[d].word) ELSE {}
Written(d) == IF HasInserted(d) THEN Carried(work[d].body) \ work[d].todo ELSE {}

\* The row a relation of the body becomes.  An orphan has its target columns frozen.
RowOf(d, r) ==
    LET l == work[d].body.links[r] IN
    IF l.word = None THEN [Remaining({}, Gone(d))[r] EXCEPT !.sense = l.sense] ELSE l

\* The root row, FOR UPDATE.
LocksWord(d, w) == InTx(d) /\ work[d].word = w

\* Relations that are written, deleted, or cut off from a deleted sense.
LocksLink(d, r) ==
    \/ r \in Written(d)
    \/ HasDeleted(d) /\ r \in LinksOf(work[d].word) \ Carried(work[d].body)
    \/ r \in Touched({}, Gone(d))

\* FOR KEY SHARE, on what a relation that is written has come to point to.
SharesWord(d, w) == \E r \in Written(d) : rel[r].word # w /\ RowOf(d, r).word = w
SharesSense(d, s) == \E r \in Written(d) : rel[r].target # s /\ RowOf(d, r).target = s

Others(c) == Calls \ {c}

-----------------------------------------------------------------------------
\* Tables: entries that are drafts, complete or not, or published; relations to any.
Init ==
    /\ word \in [Words -> {NoWord} \cup
            [state : {"live"}, status : {"draft", "published"}, full : BOOLEAN, token : {None}]]
    /\ sense \in [Senses -> {w \in Words : Live(w)} \cup {None}]
    /\ rel \in [Rels -> {NoLink} \cup
            {l \in Link : /\ l.sense # None /\ sense[l.sense] # None
                          /\ l.word # None => Live(l.word)
                          /\ l.target # None => l.word # None /\ sense[l.target] = l.word}]
    /\ \A w \in Words : word[w].status = "published" => Complete(TreeOf(w))
    /\ spent = {}
    /\ cut = {}
    /\ pc = [c \in Calls |-> "new"]
    /\ work = [c \in Calls |-> NoWork]

-----------------------------------------------------------------------------
Goto(c, label) == pc' = [pc EXCEPT ![c] = label]
Keep(c, locals) == work' = [work EXCEPT ![c] = locals]

\* The call returns, with or without an error; a transaction it had open ends.
Return(c) == Goto(c, "done") /\ Keep(c, NoWork)

Reads == UNCHANGED <<word, sense, rel, spent, cut>>

Begin(c, label, locals) == pc[c] = "new" /\ Goto(c, label) /\ Keep(c, locals) /\ Reads

\* CreateShell makes up a new id.
BeginCreate(c, w) ==
    /\ word[w].state = "absent" /\ \A d \in Calls : pc[d] = "insert" => work[d].word # w
    /\ Begin(c, "insert", [NoWork EXCEPT !.word = w])

\* An editor loads the entry and is going to save it.
BeginSave(c, w) ==
    /\ Live(w)
    /\ Begin(c, "edit", [NoWork EXCEPT !.word = w, !.base = word[w].token, !.seen = TreeOf(w)])

BeginPublish(c, w) ==
    word[w].state # "absent" /\ Begin(c, "check", [NoWork EXCEPT !.word = w])

\* Delete, and BatchDelete of several.
BeginDelete(c, batch) ==
    /\ batch # {} /\ \A w \in batch : word[w].state # "absent"
    /\ Begin(c, "drop", [NoWork EXCEPT !.batch = batch])

\* Repository.Create; the headword may be taken, by an entry that is not modelled.
Insert(c) ==
    /\ pc[c] = "insert"
    /\ \/ word' = [word EXCEPT ![work[c].word] = [NoWord EXCEPT !.state = "live", !.token = c]]
       \/ UNCHANGED word
    /\ Return(c)
    /\ UNCHANGED <<sense, rel, spent, cut>>

\* What an editor changes: the content, senses (and with them their relations), and
\* relations between senses that stay.
Changes(old, new) ==
    LET stay == (old.senses \cap new.senses) \cup {None} IN
    (IF new.full = old.full THEN 0 ELSE 1)
        + Cardinality((new.senses \ old.senses) \cup (old.senses \ new.senses))
        + Cardinality({r \in Rels : /\ new.links[r] # old.links[r]
                                    /\ {new.links[r].sense, old.links[r].sense} \subseteq stay})

\* The bodies validateTree accepts: relations are of senses of the body, and point to a
\* sense only together with its entry.
Bodies ==
    {t \in Tree : \A r \in Carried(t) :
        /\ t.links[r].sense \in t.senses
        /\ t.links[r].word = None => t.links[r].target = None}

\* Service.Save: the body arrives, and GetTree says whether it must be complete.  It
\* may carry ids of other entries.
Submit(c, body) ==
    LET w == work[c].word IN
    /\ pc[c] = "edit"
    /\ Changes(work[c].seen, body) <= MaxChanges
    /\ IF Live(w) /\ (word[w].status = "published" => Complete(body))
       THEN Goto(c, "lock") /\ Keep(c, [work[c] EXCEPT !.body = body])
       ELSE Return(c)
    /\ Reads

\* Broken: the lock is taken and the token is not looked at.
Lock_AnyToken(c) ==
    /\ pc[c] = "lock"
    /\ \A d \in Others(c) : ~LocksWord(d, work[c].word) /\ ~SharesWord(d, work[c].word)
    /\ IF Live(work[c].word)
       THEN Goto(c, "delete") /\ Keep(c, work[c]) ELSE Return(c)
    /\ Reads

\* SaveTree locks the root, compares its token, and updates it.  The lock keeps the
\* entry's nodes, which are listed next, from coming and going.
Lock(c) ==
    LET w == work[c].word IN
    /\ pc[c] = "lock"
    /\ \A d \in Others(c) : ~LocksWord(d, w) /\ ~SharesWord(d, w)
    /\ IF Live(w) /\ word[w].token = work[c].base
       THEN Goto(c, "delete") /\ Keep(c, work[c])
       ELSE Return(c)
    /\ Reads

\* The nodes that the body does not carry any more.
DeleteNodes(c) ==
    LET w == work[c].word
        gone == SensesOf(w) \ work[c].body.senses
        rows == Touched({}, gone) \cup (LinksOf(w) \ Carried(work[c].body)) IN
    /\ pc[c] = "delete"
    /\ \A d \in Others(c) : /\ \A s \in gone : ~SharesSense(d, s)
                            /\ \A r \in rows : ~LocksLink(d, r)
    /\ Goto(c, "senses") /\ Keep(c, work[c])
    /\ Reads

\* Broken: a sense of another entry is updated like one's own.
UpsertSenses_Adopts(c) ==
    /\ pc[c] = "senses"
    /\ LET todo == Carried(work[c].body) IN
         /\ Goto(c, IF todo = {} THEN "commit" ELSE "relations")
         /\ Keep(c, [work[c] EXCEPT !.todo = todo])
    /\ Reads

\* Senses are updated if they were in the entry and inserted otherwise, where the primary
\* key decides, after waiting for whoever is deleting or inserting that id.
UpsertSenses(c) ==
    LET new == work[c].body.senses \ SensesOf(work[c].word)
        todo == Carried(work[c].body) IN
    /\ pc[c] = "senses"
    /\ \A d \in Others(c) : new \cap (Gone(d) \cup New(d)) = {}
    /\ IF \E s \in new : sense[s] # None
       THEN Return(c)
       ELSE /\ Goto(c, IF todo = {} THEN "commit" ELSE "relations")
            /\ Keep(c, [work[c] EXCEPT !.todo = todo])
    /\ Reads

\* The entry that transaction c sees a sense in: it sees what it has done itself.
SeenIn(c, s) ==
    IF s \in work[c].body.senses THEN work[c].word
    ELSE IF s \in Gone(c) THEN None ELSE sense[s]

\* Broken: any sense will do, of whatever entry.
Resolvable_AnySense(c, l) ==
    IF l.target = None THEN Live(l.word) ELSE SeenIn(c, l.target) # None

\* resolveTarget: the target exists, and the sense is one of the target's.
Resolvable(c, l) ==
    IF l.target = None THEN Live(l.word) ELSE SeenIn(c, l.target) = l.word

\* The next relation: only one that was there may be an orphan; the target of any other
\* is read, for the snapshots of its headword and gloss.
Resolve(c, r) ==
    LET l == work[c].body.links[r] IN
    /\ pc[c] = "relations" /\ r \in work[c].todo
    /\ IF IF l.word = None THEN r \in LinksOf(work[c].word) ELSE Resolvable(c, l)
       THEN Goto(c, "upsert") /\ Keep(c, [work[c] EXCEPT !.rel = r])
       ELSE Return(c)
    /\ Reads

\* Broken: the relations have no foreign keys.
Upsert_NoForeignKey(c) ==
    LET r == work[c].rel
        todo == work[c].todo \ {r} IN
    /\ pc[c] = "upsert"
    /\ \A d \in Others(c) : ~LocksLink(d, r)
    /\ IF IF r \in LinksOf(work[c].word) THEN rel[r].sense \notin Gone(c) ELSE rel[r] = NoLink
       THEN /\ Goto(c, IF todo = {} THEN "commit" ELSE "relations")
            /\ Keep(c, [work[c] EXCEPT !.todo = todo, !.rel = None])
       ELSE Return(c)
    /\ Reads

\* Its row is updated if it was in the entry (unless it has just been deleted with the
\* sense it was of), inserted otherwise (unless another entry has that id), and its
\* foreign keys are checked, after waiting for whoever has the row or what it points to.
Upsert(c) ==
    LET r == work[c].rel
        row == RowOf(c, r)
        todo == work[c].todo \ {r} IN
    /\ pc[c] = "upsert"
    /\ \A d \in Others(c) :
          /\ ~LocksLink(d, r)
          /\ row.word # rel[r].word => ~LocksWord(d, row.word)
          /\ row.target # rel[r].target => row.target \notin Gone(d)
    /\ IF /\ IF r \in LinksOf(work[c].word) THEN rel[r].sense \notin Gone(c) ELSE rel[r] = NoLink
          /\ row.word # None => Live(row.word)
          /\ row.target # None => SeenIn(c, row.target) # None
       THEN /\ Goto(c, IF todo = {} THEN "commit" ELSE "relations")
            /\ Keep(c, [work[c] EXCEPT !.todo = todo, !.rel = None])
       ELSE Return(c)
    /\ Reads

\* What the transaction wrote becomes visible.
Commit(c) ==
    LET w == work[c].word
        body == work[c].body
        gone == Gone(c) IN
    /\ pc[c] = "commit"
    /\ word' = [word EXCEPT ![w].full = body.full, ![w].token = c]
    /\ sense' = [s \in Senses |-> IF s \in body.senses THEN w
                                  ELSE IF s \in gone THEN None ELSE sense[s]]
    /\ rel' = [r \in Rels |-> IF r \in Carried(body) THEN RowOf(c, r)
                              ELSE IF r \in LinksOf(w) THEN NoLink
                              ELSE Remaining({}, gone)[r]]
    /\ spent' = spent \cup gone
    /\ cut' = {r \in Rels : /\ rel'[r] # NoLink /\ rel'[r].target = None
                            /\ r \in cut \/ rel[r].target \in gone
                            /\ r \in Carried(body) => body.links[r].word = None}
    /\ Return(c)

\* Service.Publish: GetTree, and the check of what it read.
CheckComplete(c) ==
    LET w == work[c].word IN
    /\ pc[c] = "check"
    /\ IF Live(w) /\ Complete(TreeOf(w))
       THEN /\ Goto(c, "flip")
            /\ Keep(c, [work[c] EXCEPT !.base = word[w].token, !.seen = TreeOf(w)])
       ELSE Return(c)
    /\ Reads

\* Broken: the status is set whatever the token.
SetStatus_AnyToken(c) ==
    LET w == work[c].word IN
    /\ pc[c] = "flip"
    /\ \A d \in Others(c) : ~LocksWord(d, w)
    /\ word' = IF Live(w) THEN [word EXCEPT ![w].status = "published", ![w].token = c] ELSE word
    /\ Return(c)
    /\ UNCHANGED <<sense, rel, spent, cut>>

\* SetStatus: one UPDATE, where the token is still the one that was read.
SetStatus(c) ==
    LET w == work[c].word IN
    /\ pc[c] = "flip"
    /\ \A d \in Others(c) : ~LocksWord(d, w)
    /\ word' = IF Live(w) /\ word[w].token = work[c].base
               THEN [word EXCEPT ![w].status = "published", ![w].token = c] ELSE word
    /\ Return(c)
    /\ UNCHANGED <<sense, rel, spent, cut>>

\* DELETE FROM words: the entries that exist, all that hangs off them, and the links to
\* them, in one statement.
Drop(c) ==
    LET words == {w \in work[c].batch : Live(w)}
        senses == UNION {SensesOf(w) : w \in words} IN
    /\ pc[c] = "drop"
    /\ \A d \in Others(c) :
          /\ \A w \in words : ~LocksWord(d, w) /\ ~SharesWord(d, w)
          /\ \A s \in senses : ~SharesSense(d, s)
          /\ \A r \in Touched(words, senses) : ~LocksLink(d, r)
    /\ word' = [w \in Words |-> IF w \in words THEN [NoWord EXCEPT !.state = "gone"] ELSE word[w]]
    /\ sense' = [s \in Senses |-> IF s \in senses THEN None ELSE sense[s]]
    /\ rel' = Remaining(words, senses)
    /\ cut' = {r \in Rels : /\ rel'[r] # NoLink /\ rel'[r].target = None
                            /\ r \in cut \/ rel[r].target \in senses}
    /\ Return(c)
    /\ spent' = spent \cup senses

\* A statement fails, or the server does: a database error, a deadlock that Postgres
\* ends, a cancelled request, a crash.  An open transaction is rolled back.
Fail(c) ==
    /\ pc[c] \in Running
    /\ Return(c)
    /\ Reads

Start(c) ==
    \/ \E w \in Words : BeginCreate(c, w) \/ BeginSave(c, w) \/ BeginPublish(c, w)
    \/ \E batch \in SUBSET Words : BeginDelete(c, batch)

Advance(c) ==
    \/ Insert(c)
    \/ \E body \in Bodies : Submit(c, body)
    \/ Lock(c) \/ DeleteNodes(c) \/ UpsertSenses(c)
    \/ \E r \in Rels : Resolve(c, r)
    \/ Upsert(c) \/ Commit(c)
    \/ CheckComplete(c) \/ SetStatus(c) \/ Drop(c)

AllDone == (\A c \in Calls : pc[c] = "done") /\ UNCHANGED vars

Next == (\E c \in Calls : Start(c) \/ Advance(c) \/ Fail(c)) \/ AllDone

Spec == Init /\ [][Next]_vars

-----------------------------------------------------------------------------
(* Properties.                                                             *)

\* What the foreign keys promise (migration 000018): a sense is in an entry that exists,
\* a relation is of a sense that exists, and points to an entry and a sense that do.
KeysHold ==
    /\ \A s \in Senses : sense[s] # None => Live(sense[s])
    /\ \A r \in Rels : rel[r] # NoLink =>
          /\ rel[r].sense # None /\ sense[rel[r].sense] # None
          /\ rel[r].word # None => Live(rel[r].word)
          /\ rel[r].target # None => sense[rel[r].target] # None

TypeOK ==
    /\ word \in [Words -> Word]
    /\ sense \in [Senses -> Words \cup {None}]
    /\ rel \in [Rels -> Link]
    /\ spent \subseteq Senses
    /\ cut \subseteq Rels
    /\ pc \in [Calls -> Running \cup {"new", "done"}]
    /\ work \in [Calls -> Work]
    /\ KeysHold

\* The sense a relation points to is one of the entry it points to, although the two are
\* read before they are written (repository.go:774-802), unless a client has used the id of
\* a deleted sense again.
TargetsFit ==
    \A r \in Rels : rel[r].target # None =>
        sense[rel[r].target] = rel[r].word \/ rel[r].target \in spent

\* Nobody's work is lost (D16): the tree that a save replaces is the one its editor
\* loaded, and the one that is published is the one that was checked, except for links
\* to what others have deleted meanwhile.
NothingOverwritten ==
    [][ \A c \in Calls : \A w \in Words :
          word'[w].token = c /\ word[w].token # c /\ Live(w)
             => SameButCut(TreeOf(w), work[c].seen) ]_vars

\* A sense is never taken over by another entry (D15), whatever ids a body carries: it
\* stays where it is until it is deleted.
SensesStay ==
    [][ \A s \in Senses : sense[s] # None => sense'[s] \in {sense[s], None} ]_vars

\* A published entry is complete (D17), whatever saves and publishes overlap, but for
\* relations whose target sense has been deleted.
PublishedComplete ==
    \A w \in Words : Live(w) /\ word[w].status = "published" =>
        /\ word[w].full
        /\ \A r \in LinksOf(w) : rel[r].word # None /\ rel[r].target = None => r \in cut

-----------------------------------------------------------------------------
(* The statements implement operations on whole trees.                     *)

\* The calls that have read an entry and are going to write it.
Reading(d) == pc[d] \in {"edit", "lock", "flip"} \/ InTx(d)

Entries ==
    [w \in Words |->
        IF Live(w) THEN [status |-> word[w].status, tree |-> TreeOf(w)]
        ELSE [status |-> word[w].state, tree |-> NoTree]]

Loaded ==
    [c \in Calls |->
        IF Reading(c) THEN [word |-> work[c].word, tree |-> work[c].seen]
        ELSE [word |-> None, tree |-> NoTree]]

Trees == INSTANCE WordTrees WITH entry <- Entries, loaded <- Loaded

\* Whatever calls overlap, fail or are rolled back, a save and a publish take effect at
\* once, on the tree that was loaded, and nothing else of it does; other entries lose no
\* more than their links to what is deleted.
ImplementsTrees == Trees!Spec

-----------------------------------------------------------------------------
(* What the code and its documents say without that proviso.               *)

\* service.go:62-65, 202-204: "a publish can never bless a tree it didn't check"; the
\* token "pins the flip to the exact tree that passed the check".
PublishedAsChecked ==
    [][ \A w \in Words : Live(w) /\ word'[w].status = "published" /\ word[w].status = "draft"
            => Complete(TreeOf(w)) ]_vars
=============================================================================
