-------------------------- MODULE WordList_proofs --------------------------
(***************************************************************************)
(* Proofs about WordList, for any number of calls, entries, senses and     *)
(* relations, and saves that change as much as they like.                  *)
(***************************************************************************)
EXTENDS WordList, TLAPS

-----------------------------------------------------------------------------
(* The inductive invariant.                                                *)

\* The saves that have a body.
Posted(d) == pc[d] = "lock" \/ InTx(d)

\* What a call's locals are at each statement.
Locals(d) ==
    /\ pc[d] = "insert" => work[d].word \in Words /\ word[work[d].word].state = "absent"
    /\ Reading(d) \/ pc[d] = "check" => work[d].word \in Words
    /\ Posted(d) => work[d].body \in Bodies
    /\ HasInserted(d) => work[d].todo \subseteq Carried(work[d].body)
    /\ pc[d] = "upsert" => work[d].rel \in work[d].todo
    /\ pc[d] = "commit" => work[d].todo = {}

Control == \A d \in Calls : Locals(d)

\* No two calls make up the same id.
OwnIds ==
    \A c, d \in Calls :
        c # d /\ pc[c] = "insert" /\ pc[d] = "insert" => work[c].word # work[d].word

\* A token is not there before the call that sets it.
FreshTokens ==
    \A c \in Calls : pc[c] # "done" =>
        /\ \A w \in Words : word[w].token # c
        /\ \A d \in Calls : work[d].base # c

\* The entry has the token that the call has read.
AsRead(d) == Live(work[d].word) /\ word[work[d].word].token = work[d].base

\* What a token stands for: as long as the entry has it, it is the tree that was read,
\* but for links that were cut, and what the body was checked for is still what is asked.
TokenPins ==
    \A d \in Calls :
        /\ InTx(d) => AsRead(d)
        /\ Reading(d) /\ AsRead(d) =>
              work[d].seen \in Tree /\ SameButCut(TreeOf(work[d].word), work[d].seen)
        /\ Posted(d) /\ AsRead(d) /\ word[work[d].word].status = "published"
              => Complete(work[d].body)

\* An entry that may be published, and the publishes that may still happen.
Publishable(w) ==
    /\ word[w].full
    /\ \A r \in LinksOf(w) : rel[r].word # None /\ rel[r].target = None => r \in cut
CheckStands == \A d \in Calls : pc[d] = "flip" /\ AsRead(d) => Publishable(work[d].word)

\* What the locks keep apart.
Apart(c, d) ==
    /\ InTx(c) /\ InTx(d) => work[c].word # work[d].word
    /\ \A r \in Rels : ~(LocksLink(c, r) /\ LocksLink(d, r))
    /\ New(c) \cap New(d) = {}
    /\ \A w \in Words : SharesWord(c, w) => ~LocksWord(d, w)
    /\ \A s \in Senses : SharesSense(c, s) => s \notin Gone(d)
Exclusion == \A c, d \in Calls : c # d => Apart(c, d)

\* The row that a relation becomes at COMMIT keeps the foreign keys, and it replaces one
\* of the entry's own or none.
Fits(d, r) ==
    /\ \/ r \in LinksOf(work[d].word) /\ rel[r].sense \notin Gone(d)
       \/ rel[r] = NoLink
    /\ RowOf(d, r).word # None => Live(RowOf(d, r).word)
    /\ RowOf(d, r).target # None =>
          /\ SeenIn(d, RowOf(d, r).target) # None
          /\ SeenIn(d, RowOf(d, r).target) = RowOf(d, r).word \/ RowOf(d, r).target \in spent

\* The sense a relation is to point to was found in the entry it points to.
Resolved(d, l) == l.target # None => SeenIn(d, l.target) = l.word \/ l.target \in spent

\* What a transaction has written can be committed.
Committable ==
    \A d \in Calls :
        /\ \A s \in New(d) : sense[s] = None
        /\ \A r \in Written(d) : Fits(d, r)
        /\ pc[d] = "upsert" => Resolved(d, work[d].body.links[work[d].rel])

IInv ==
    /\ TypeOK /\ Control /\ OwnIds /\ FreshTokens
    /\ Exclusion /\ Committable
    /\ TokenPins /\ CheckStands
    /\ TargetsFit /\ PublishedComplete

-----------------------------------------------------------------------------
(* The steps.                                                              *)

Same(d) == pc'[d] = pc[d] /\ work'[d] = work[d]
Returned(c) == pc'[c] = "done" /\ work'[c] = NoWork

\* The steps that leave the tables alone: a call begins, goes on, or returns.
Going(c) ==
    \/ Start(c)
    \/ \E body \in Bodies : Submit(c, body)
    \/ Lock(c) \/ DeleteNodes(c) \/ UpsertSenses(c)
    \/ \E r \in Rels : Resolve(c, r)
    \/ Upsert(c) \/ CheckComplete(c) \/ Fail(c)

LEMMA StepCases ==
    ASSUME [Next]_vars
    PROVE  \/ \E c \in Calls : Going(c) \/ Insert(c) \/ SetStatus(c) \/ Commit(c) \/ Drop(c)
           \/ UNCHANGED vars
  BY DEF Next, Advance, AllDone, Going

LEMMA NoWorkTyped == NoWork \in Work /\ NoTree \in Tree /\ NoLink \in Link
  BY DEF NoWork, Work, NoTree, Tree, NoLink, Link

LEMMA BodiesAreTrees == \A t \in Bodies : t \in Tree
  BY DEF Bodies

LEMMA TreesTyped ==
    ASSUME TypeOK, NEW w \in Words
    PROVE  TreeOf(w) \in Tree
  <1>1. word[w].full \in BOOLEAN
    BY DEF TypeOK, Word
  <1>2. SensesOf(w) \in SUBSET Senses
    BY DEF SensesOf
  <1>3. [r \in Rels |-> IF r \in LinksOf(w) THEN rel[r] ELSE NoLink] \in [Rels -> Link]
    BY NoWorkTyped DEF TypeOK
  <1>4. QED
    BY <1>1, <1>2, <1>3 DEF TreeOf, Tree

\* Nobody but the call moves, and what it goes on with is of the right type.
Onward(c) ==
    /\ \A d \in Others(c) : Same(d)
    /\ pc' \in [Calls -> Running \cup {"new", "done"}]
    /\ work' \in [Calls -> Work]

LEMMA Moving ==
    ASSUME TypeOK, NEW c \in Calls, NEW label \in Running \cup {"new", "done"},
           NEW locals \in Work, Goto(c, label), Keep(c, locals)
    PROVE  Onward(c) /\ pc'[c] = label /\ work'[c] = locals
  BY DEF TypeOK, Goto, Keep, Onward, Same, Others

LEMMA ReturnMoves ==
    ASSUME TypeOK, NEW c \in Calls, Return(c)
    PROVE  Onward(c) /\ Returned(c)
  BY Moving, NoWorkTyped DEF Return, Returned

\* How a call begins: what is known of its locals, by the statement it is at.
Began(c) ==
    \/ /\ pc'[c] = "insert"
       /\ \E w \in Words :
             /\ work'[c] = [NoWork EXCEPT !.word = w] /\ word[w].state = "absent"
             /\ \A d \in Calls : pc[d] = "insert" => work[d].word # w
    \/ /\ pc'[c] = "edit"
       /\ \E w \in Words :
             /\ work'[c] = [NoWork EXCEPT !.word = w, !.base = word[w].token, !.seen = TreeOf(w)]
             /\ Live(w)
    \/ /\ pc'[c] = "check"
       /\ \E w \in Words : work'[c] = [NoWork EXCEPT !.word = w]
    \/ /\ pc'[c] = "drop"
       /\ \E batch \in SUBSET Words : work'[c] = [NoWork EXCEPT !.batch = batch]

LEMMA StartMoves ==
    ASSUME TypeOK, NEW c \in Calls, Start(c)
    PROVE  Onward(c) /\ Reads /\ pc[c] = "new" /\ Began(c)
  <1>1. ASSUME NEW label \in Running, NEW locals \in Work, Begin(c, label, locals)
        PROVE  Onward(c) /\ Reads /\ pc[c] = "new" /\ pc'[c] = label /\ work'[c] = locals
    BY <1>1, Moving DEF Begin
  <1>2. ASSUME NEW w \in Words, BeginCreate(c, w)
        PROVE  Onward(c) /\ Reads /\ pc[c] = "new" /\ Began(c)
    <2>1. [NoWork EXCEPT !.word = w] \in Work
      BY NoWorkTyped DEF Work
    <2>2. QED
      BY <1>1, <1>2, <2>1 DEF BeginCreate, Began, Running
  <1>3. ASSUME NEW w \in Words, BeginSave(c, w)
        PROVE  Onward(c) /\ Reads /\ pc[c] = "new" /\ Began(c)
    <2>1. word[w].token \in Calls \cup {None} /\ TreeOf(w) \in Tree
      BY TreesTyped DEF TypeOK, Word
    <2>2. [NoWork EXCEPT !.word = w, !.base = word[w].token, !.seen = TreeOf(w)] \in Work
      BY <2>1, NoWorkTyped DEF Work
    <2>3. QED
      BY <1>1, <1>3, <2>2 DEF BeginSave, Began, Running
  <1>4. ASSUME NEW w \in Words, BeginPublish(c, w)
        PROVE  Onward(c) /\ Reads /\ pc[c] = "new" /\ Began(c)
    <2>1. [NoWork EXCEPT !.word = w] \in Work
      BY NoWorkTyped DEF Work
    <2>2. QED
      BY <1>1, <1>4, <2>1 DEF BeginPublish, Began, Running
  <1>5. ASSUME NEW batch \in SUBSET Words, BeginDelete(c, batch)
        PROVE  Onward(c) /\ Reads /\ pc[c] = "new" /\ Began(c)
    <2>1. [NoWork EXCEPT !.batch = batch] \in Work
      BY NoWorkTyped DEF Work
    <2>2. QED
      BY <1>1, <1>5, <2>1 DEF BeginDelete, Began, Running
  <1>6. QED
    BY <1>2, <1>3, <1>4, <1>5 DEF Start

\* How it goes on.
Submitted(c) ==
    /\ pc[c] = "edit" /\ pc'[c] = "lock"
    /\ \E body \in Bodies :
          /\ work'[c] = [work[c] EXCEPT !.body = body]
          /\ Live(work[c].word)
          /\ word[work[c].word].status = "published" => Complete(body)

Locked(c) ==
    /\ pc[c] = "lock" /\ pc'[c] = "delete" /\ work'[c] = work[c]
    /\ AsRead(c)
    /\ \A d \in Others(c) : ~LocksWord(d, work[c].word) /\ ~SharesWord(d, work[c].word)

Unwanted(c) == SensesOf(work[c].word) \ work[c].body.senses

Deleted(c) ==
    /\ pc[c] = "delete" /\ pc'[c] = "senses" /\ work'[c] = work[c]
    /\ \A d \in Others(c) :
          /\ \A s \in Unwanted(c) : ~SharesSense(d, s)
          /\ \A r \in Touched({}, Unwanted(c)) : ~LocksLink(d, r)
          /\ \A r \in LinksOf(work[c].word) \ Carried(work[c].body) : ~LocksLink(d, r)

Wanted(c) == work[c].body.senses \ SensesOf(work[c].word)

Inserted(c) ==
    /\ pc[c] = "senses"
    /\ pc'[c] = IF Carried(work[c].body) = {} THEN "commit" ELSE "relations"
    /\ work'[c] = [work[c] EXCEPT !.todo = Carried(work[c].body)]
    /\ \A s \in Wanted(c) : sense[s] = None
    /\ \A d \in Others(c) : Wanted(c) \cap (Gone(d) \cup New(d)) = {}

Picked(c) ==
    /\ pc[c] = "relations" /\ pc'[c] = "upsert"
    /\ \E r \in work[c].todo :
          LET l == work[c].body.links[r] IN
          /\ work'[c] = [work[c] EXCEPT !.rel = r]
          /\ IF l.word = None THEN r \in LinksOf(work[c].word) ELSE Resolvable(c, l)

Wrote(c) ==
    LET r == work[c].rel
        row == RowOf(c, r)
        todo == work[c].todo \ {r} IN
    /\ pc[c] = "upsert"
    /\ pc'[c] = IF todo = {} THEN "commit" ELSE "relations"
    /\ work'[c] = [work[c] EXCEPT !.todo = todo, !.rel = None]
    /\ \A d \in Others(c) :
          /\ ~LocksLink(d, r)
          /\ row.word # rel[r].word => ~LocksWord(d, row.word)
          /\ row.target # rel[r].target => row.target \notin Gone(d)
    /\ IF r \in LinksOf(work[c].word) THEN rel[r].sense \notin Gone(c) ELSE rel[r] = NoLink
    /\ row.word # None => Live(row.word)
    /\ row.target # None => SeenIn(c, row.target) # None

FoundComplete(c) ==
    /\ pc[c] = "check" /\ pc'[c] = "flip"
    /\ work'[c] = [work[c] EXCEPT !.base = word[work[c].word].token,
                                  !.seen = TreeOf(work[c].word)]
    /\ Live(work[c].word) /\ Complete(TreeOf(work[c].word))

Went(c) ==
    \/ pc[c] = "new" /\ Began(c)
    \/ Submitted(c) \/ Locked(c) \/ Deleted(c) \/ Inserted(c) \/ Picked(c) \/ Wrote(c)
    \/ FoundComplete(c)
    \/ pc[c] \in Running /\ Returned(c)

LEMMA GoingMoves ==
    ASSUME TypeOK, Control, NEW c \in Calls, Going(c)
    PROVE  Onward(c) /\ Reads /\ Went(c)
  <1>0. work[c] \in Work
    BY DEF TypeOK
  <1>1. CASE Start(c)
    BY <1>1, StartMoves DEF Went
  <1>2. ASSUME Return(c), Reads, pc[c] \in Running PROVE Onward(c) /\ Reads /\ Went(c)
    BY <1>2, ReturnMoves DEF Went
  <1>3. ASSUME NEW body \in Bodies, Submit(c, body) PROVE Onward(c) /\ Reads /\ Went(c)
    <2>1. CASE Return(c)
      BY <1>2, <1>3, <2>1 DEF Submit, Running
    <2>2. CASE ~Return(c)
      <3>1. [work[c] EXCEPT !.body = body] \in Work
        BY <1>0, BodiesAreTrees DEF Work
      <3>2. /\ pc[c] = "edit" /\ Goto(c, "lock") /\ Keep(c, [work[c] EXCEPT !.body = body]) /\ Reads
            /\ Live(work[c].word) /\ (word[work[c].word].status = "published" => Complete(body))
        BY <1>3, <2>2 DEF Submit
      <3>3. Onward(c) /\ pc'[c] = "lock" /\ work'[c] = [work[c] EXCEPT !.body = body]
        BY <3>1, <3>2, Moving DEF Running
      <3>4. QED
        BY <3>2, <3>3 DEF Went, Submitted
    <2>3. QED
      BY <2>1, <2>2
  <1>4. CASE Lock(c)
    <2>1. CASE Return(c)
      BY <1>2, <1>4, <2>1 DEF Lock, Running
    <2>2. CASE ~Return(c)
      <3>1. Onward(c) /\ pc'[c] = "delete" /\ work'[c] = work[c]
        BY <1>0, <1>4, <2>2, Moving DEF Lock, Running
      <3>2. QED
        BY <1>4, <2>2, <3>1 DEF Lock, Went, Locked, AsRead
    <2>3. QED
      BY <2>1, <2>2
  <1>5. CASE DeleteNodes(c)
    <2>1. Onward(c) /\ pc'[c] = "senses" /\ work'[c] = work[c]
      BY <1>0, <1>5, Moving DEF DeleteNodes, Running
    <2>2. Deleted(c) /\ Reads
      BY <1>5, <2>1 DEF DeleteNodes, Deleted, Unwanted
    <2>3. QED
      BY <2>1, <2>2 DEF Went
  <1>6. CASE UpsertSenses(c)
    <2>1. CASE Return(c)
      BY <1>2, <1>6, <2>1 DEF UpsertSenses, Running
    <2>2. CASE ~Return(c)
      <3>1. [work[c] EXCEPT !.todo = Carried(work[c].body)] \in Work
        BY <1>0 DEF Work, Carried
      <3>2. /\ pc[c] = "senses" /\ Reads
            /\ Goto(c, IF Carried(work[c].body) = {} THEN "commit" ELSE "relations")
            /\ Keep(c, [work[c] EXCEPT !.todo = Carried(work[c].body)])
            /\ \A s \in Wanted(c) : sense[s] = None
            /\ \A d \in Others(c) : Wanted(c) \cap (Gone(d) \cup New(d)) = {}
        BY <1>6, <2>2 DEF UpsertSenses, Wanted
      <3>3. /\ Onward(c)
            /\ pc'[c] = IF Carried(work[c].body) = {} THEN "commit" ELSE "relations"
            /\ work'[c] = [work[c] EXCEPT !.todo = Carried(work[c].body)]
        BY <3>1, <3>2, Moving DEF Running
      <3>4. QED
        BY <3>2, <3>3 DEF Went, Inserted
    <2>3. QED
      BY <2>1, <2>2
  <1>7. ASSUME NEW r \in Rels, Resolve(c, r) PROVE Onward(c) /\ Reads /\ Went(c)
    <2>1. CASE Return(c)
      BY <1>2, <1>7, <2>1 DEF Resolve, Running
    <2>2. CASE ~Return(c)
      <3>1. [work[c] EXCEPT !.rel = r] \in Work
        BY <1>0 DEF Work
      <3>2. /\ pc[c] = "relations" /\ Reads /\ r \in work[c].todo
            /\ Goto(c, "upsert") /\ Keep(c, [work[c] EXCEPT !.rel = r])
            /\ IF work[c].body.links[r].word = None THEN r \in LinksOf(work[c].word)
               ELSE Resolvable(c, work[c].body.links[r])
        BY <1>7, <2>2 DEF Resolve
      <3>3. Onward(c) /\ pc'[c] = "upsert" /\ work'[c] = [work[c] EXCEPT !.rel = r]
        BY <3>1, <3>2, Moving DEF Running
      <3>4. QED
        BY <3>2, <3>3 DEF Went, Picked
    <2>3. QED
      BY <2>1, <2>2
  <1>8. CASE Upsert(c)
    <2>1. CASE Return(c)
      BY <1>2, <1>8, <2>1 DEF Upsert, Running
    <2>2. CASE ~Return(c)
      <3> DEFINE todo == work[c].todo \ {work[c].rel}
      <3>1. [work[c] EXCEPT !.todo = todo, !.rel = None] \in Work
        BY <1>0 DEF Work
      <3>2. /\ Goto(c, IF todo = {} THEN "commit" ELSE "relations")
            /\ Keep(c, [work[c] EXCEPT !.todo = todo, !.rel = None])
        BY <1>8, <2>2 DEF Upsert
      <3>3. /\ Onward(c) /\ pc'[c] = IF todo = {} THEN "commit" ELSE "relations"
            /\ work'[c] = [work[c] EXCEPT !.todo = todo, !.rel = None]
        BY <3>1, <3>2, Moving DEF Running
      <3>4. Wrote(c) /\ Reads
        BY <1>8, <2>2, <3>3 DEF Upsert, Wrote
      <3>5. QED
        BY <3>3, <3>4 DEF Went
    <2>3. QED
      BY <2>1, <2>2
  <1>9. CASE CheckComplete(c)
    <2>1. CASE Return(c)
      BY <1>2, <1>9, <2>1 DEF CheckComplete, Running
    <2>2. CASE ~Return(c)
      <3> DEFINE locals == [work[c] EXCEPT !.base = word[work[c].word].token,
                                           !.seen = TreeOf(work[c].word)]
      <3>1. locals \in Work
        <4>1. work[c].word \in Words
          BY <1>9 DEF CheckComplete, Control, Locals
        <4>2. word[work[c].word].token \in Calls \cup {None} /\ TreeOf(work[c].word) \in Tree
          BY <4>1, TreesTyped DEF TypeOK, Word
        <4>3. QED
          BY <1>0, <4>2 DEF Work
      <3>2. Goto(c, "flip") /\ Keep(c, locals)
        BY <1>9, <2>2 DEF CheckComplete
      <3>3. Onward(c) /\ pc'[c] = "flip" /\ work'[c] = locals
        BY <3>1, <3>2, Moving DEF Running
      <3>4. FoundComplete(c) /\ Reads
        BY <1>9, <2>2, <3>3 DEF CheckComplete, FoundComplete
      <3>5. QED
        BY <3>3, <3>4 DEF Went
    <2>3. QED
      BY <2>1, <2>2
  <1>10. CASE Fail(c)
    BY <1>2, <1>10 DEF Fail
  <1>11. QED
    BY <1>1, <1>3, <1>4, <1>5, <1>6, <1>7, <1>8, <1>9, <1>10 DEF Going

-----------------------------------------------------------------------------
(* What a transaction has written and locked, when nothing of it moves.    *)

\* Its writes and its locks are the same after the step.
Steady(d) ==
    /\ (InTx(d)' <=> InTx(d)) /\ (HasInserted(d)' <=> HasInserted(d))
    /\ Gone(d)' = Gone(d) /\ New(d)' = New(d) /\ Written(d)' = Written(d)
    /\ \A r \in Rels : LocksLink(d, r)' <=> LocksLink(d, r)
    /\ \A r \in Written(d) : RowOf(d, r)' = RowOf(d, r) /\ rel'[r] = rel[r]

\* What the sets of the locks are made of.
LEMMA SetsOf ==
    ASSUME NEW d \in Calls
    PROVE  /\ Gone(d) \subseteq Senses /\ New(d) = New(d) \cap work[d].body.senses
           /\ Gone(d) \cap work[d].body.senses = {}
           /\ Written(d) \subseteq Rels
           /\ HasInserted(d) => HasDeleted(d)
           /\ HasDeleted(d) => InTx(d)
           /\ \A r \in Rels : r \in Written(d) => LocksLink(d, r)
           /\ \A r \in Rels, s \in Senses : s \in Gone(d) /\ rel[r].target = s => LocksLink(d, r)
  BY DEF Gone, New, Written, Carried, HasInserted, HasDeleted, InTx, SensesOf, LocksLink, Touched

LEMMA KeptNodes ==
    ASSUME NEW d \in Calls, sense' = sense, rel' = rel, Same(d)
    PROVE  /\ Steady(d)
           /\ \A r \in Rels : RowOf(d, r)' = RowOf(d, r)
           /\ \A s \in Senses : SeenIn(d, s)' = SeenIn(d, s)
           /\ \A w \in Words : LocksWord(d, w)' = LocksWord(d, w)
           /\ \A w \in Words : SharesWord(d, w)' = SharesWord(d, w)
           /\ \A s \in Senses : SharesSense(d, s)' = SharesSense(d, s)
  <1>1. /\ InTx(d)' = InTx(d) /\ HasDeleted(d)' = HasDeleted(d) /\ HasInserted(d)' = HasInserted(d)
    BY DEF InTx, HasDeleted, HasInserted, Same
  <1>2. Gone(d)' = Gone(d) /\ New(d)' = New(d) /\ Written(d)' = Written(d)
    BY <1>1 DEF Gone, New, Written, Same, SensesOf, Carried
  <1>3. \A r \in Rels : RowOf(d, r)' = RowOf(d, r)
    BY <1>2 DEF RowOf, Same, Remaining
  <1>4. \A s \in Senses : SeenIn(d, s)' = SeenIn(d, s)
    BY <1>2 DEF SeenIn, Same
  <1>5. \A r \in Rels : LocksLink(d, r)' = LocksLink(d, r)
    BY <1>1, <1>2 DEF LocksLink, Same, Touched, LinksOf, SensesOf, Carried
  <1>6. /\ \A w \in Words : SharesWord(d, w)' = SharesWord(d, w)
        /\ \A s \in Senses : SharesSense(d, s)' = SharesSense(d, s)
    BY <1>2, <1>3 DEF SharesWord, SharesSense, Written, Carried
  <1>7. \A w \in Words : LocksWord(d, w)' = LocksWord(d, w)
    BY <1>1 DEF LocksWord, Same
  <1>8. QED
    BY <1>1, <1>2, <1>3, <1>4, <1>5, <1>6, <1>7, SetsOf DEF Steady

LEMMA QuietIsSteady ==
    ASSUME NEW d \in Calls, Reads, Same(d)
    PROVE  /\ Steady(d)
           /\ \A r \in Rels : RowOf(d, r)' = RowOf(d, r)
           /\ \A s \in Senses : SeenIn(d, s)' = SeenIn(d, s)
           /\ \A w \in Words : LocksWord(d, w)' = LocksWord(d, w)
           /\ \A w \in Words : SharesWord(d, w)' = SharesWord(d, w)
           /\ \A s \in Senses : SharesSense(d, s)' = SharesSense(d, s)
  BY KeptNodes DEF Reads

\* Outside its transaction a call holds nothing.
LEMMA Unlocked ==
    ASSUME NEW d \in Calls, ~InTx(d)
    PROVE  /\ Gone(d) = {} /\ New(d) = {} /\ Written(d) = {}
           /\ \A r \in Rels : ~LocksLink(d, r)
           /\ \A w \in Words : ~LocksWord(d, w) /\ ~SharesWord(d, w)
           /\ \A s \in Senses : ~SharesSense(d, s)
  <1>1. ~HasDeleted(d) /\ ~HasInserted(d)
    BY DEF InTx, HasDeleted, HasInserted
  <1>2. Gone(d) = {} /\ New(d) = {} /\ Written(d) = {}
    BY <1>1 DEF Gone, New, Written
  <1>3. \A r \in Rels : ~LocksLink(d, r)
    <2>1. ASSUME NEW r \in Rels, r \in Touched({}, {}) PROVE FALSE
      BY <2>1 DEF Touched
    <2>2. QED
      BY <1>1, <1>2, <2>1 DEF LocksLink
  <1>4. QED
    BY <1>2, <1>3 DEF LocksWord, SharesWord, SharesSense

LEMMA UnlockedAfter ==
    ASSUME NEW d \in Calls, ~InTx(d)'
    PROVE  /\ Gone(d)' = {} /\ New(d)' = {} /\ Written(d)' = {}
           /\ \A r \in Rels : ~LocksLink(d, r)'
           /\ \A w \in Words : ~LocksWord(d, w)' /\ ~SharesWord(d, w)'
           /\ \A s \in Senses : ~SharesSense(d, s)'
  <1>1. ~HasDeleted(d)' /\ ~HasInserted(d)'
    BY DEF InTx, HasDeleted, HasInserted
  <1>2. Gone(d)' = {} /\ New(d)' = {} /\ Written(d)' = {}
    BY <1>1 DEF Gone, New, Written
  <1>3. \A r \in Rels : ~LocksLink(d, r)'
    <2>1. ASSUME NEW r \in Rels, r \in Touched({}, {})' PROVE FALSE
      BY <2>1 DEF Touched
    <2>2. QED
      BY <1>1, <1>2, <2>1 DEF LocksLink
  <1>4. QED
    BY <1>2, <1>3 DEF LocksWord, SharesWord, SharesSense

\* What each step adds to what its call holds.
LEMMA LockedSets ==
    ASSUME TypeOK, NEW c \in Calls, Reads, Locked(c)
    PROVE  /\ Gone(c)' = {} /\ New(c)' = {} /\ Written(c)' = {}
           /\ InTx(c)' /\ ~InTx(c) /\ ~HasInserted(c)'
           /\ \A r \in Rels : ~LocksLink(c, r)'
           /\ \A w \in Words : LocksWord(c, w)' => w = work[c].word
  <1>1. ~HasDeleted(c)' /\ ~HasInserted(c)' /\ InTx(c)' /\ ~InTx(c)
    BY DEF Locked, InTx, HasDeleted, HasInserted
  <1>2. Gone(c)' = {} /\ New(c)' = {} /\ Written(c)' = {}
    BY <1>1 DEF Gone, New, Written
  <1>3. \A r \in Rels : ~LocksLink(c, r)'
    <2>1. ASSUME NEW r \in Rels, r \in Touched({}, {})' PROVE FALSE
      BY <2>1 DEF Touched
    <2>2. QED
      BY <1>1, <1>2, <2>1 DEF LocksLink
  <1>4. QED
    BY <1>1, <1>2, <1>3 DEF Locked, LocksWord

LEMMA DeletedSets ==
    ASSUME TypeOK, NEW c \in Calls, Reads, Deleted(c)
    PROVE  /\ Gone(c)' = Unwanted(c) /\ New(c)' = {} /\ Written(c)' = {}
           /\ InTx(c)' /\ InTx(c) /\ ~HasInserted(c)'
           /\ \A r \in Rels : LocksLink(c, r)' =>
                 r \in Touched({}, Unwanted(c)) \cup (LinksOf(work[c].word) \ Carried(work[c].body))
           /\ \A w \in Words : LocksWord(c, w)' = LocksWord(c, w)
  <1>1. HasDeleted(c)' /\ ~HasInserted(c)' /\ InTx(c)' /\ InTx(c)
    BY DEF Deleted, InTx, HasDeleted, HasInserted
  <1>2. Gone(c)' = Unwanted(c) /\ New(c)' = {} /\ Written(c)' = {}
    BY <1>1 DEF Gone, New, Written, Unwanted, Deleted, Reads, SensesOf
  <1>3. \A r \in Rels : LocksLink(c, r)' =>
            r \in Touched({}, Unwanted(c)) \cup (LinksOf(work[c].word) \ Carried(work[c].body))
    BY <1>1, <1>2 DEF LocksLink, Touched, LinksOf, SensesOf, Carried, Reads, Deleted
  <1>4. QED
    BY <1>1, <1>2, <1>3 DEF Deleted, LocksWord

LEMMA InsertedSets ==
    ASSUME TypeOK, NEW c \in Calls, Reads, Inserted(c)
    PROVE  /\ Gone(c)' = Gone(c) /\ New(c)' = Wanted(c) /\ Written(c)' = {}
           /\ InTx(c)' /\ InTx(c) /\ HasInserted(c)'
           /\ \A r \in Rels : LocksLink(c, r)' => LocksLink(c, r)
           /\ \A w \in Words : LocksWord(c, w)' = LocksWord(c, w)
  <1>0. work[c] \in Work
    BY DEF TypeOK
  <1>1. /\ work'[c].word = work[c].word /\ work'[c].body = work[c].body
        /\ work'[c].todo = Carried(work[c].body)
    BY <1>0 DEF Inserted, Work
  <1>2. HasDeleted(c)' /\ HasDeleted(c) /\ HasInserted(c)' /\ InTx(c)' /\ InTx(c)
    BY DEF Inserted, InTx, HasDeleted, HasInserted
  <1>3. Gone(c)' = Gone(c) /\ New(c)' = Wanted(c)
    BY <1>1, <1>2 DEF Gone, New, Wanted, Reads, SensesOf
  <1>4. Written(c)' = {}
    BY <1>1, <1>2 DEF Written, Carried
  <1>5. \A r \in Rels : LocksLink(c, r)' => LocksLink(c, r)
    BY <1>1, <1>2, <1>3, <1>4 DEF LocksLink, Touched, LinksOf, SensesOf, Carried, Reads
  <1>6. QED
    BY <1>1, <1>2, <1>3, <1>4, <1>5 DEF LocksWord

LEMMA PickedSets ==
    ASSUME TypeOK, NEW c \in Calls, Reads, Picked(c)
    PROVE  /\ Gone(c)' = Gone(c) /\ New(c)' = New(c) /\ Written(c)' = Written(c)
           /\ InTx(c)' /\ InTx(c) /\ HasInserted(c)'
           /\ \A r \in Rels : LocksLink(c, r)' = LocksLink(c, r) /\ RowOf(c, r)' = RowOf(c, r)
           /\ \A w \in Words : LocksWord(c, w)' = LocksWord(c, w)
           /\ \A s \in Senses : SeenIn(c, s)' = SeenIn(c, s)
  <1>0. work[c] \in Work
    BY DEF TypeOK
  <1>1. /\ work'[c].word = work[c].word /\ work'[c].body = work[c].body
        /\ work'[c].todo = work[c].todo
    BY <1>0 DEF Picked, Work
  <1>2. /\ HasDeleted(c)' /\ HasDeleted(c) /\ HasInserted(c)' /\ HasInserted(c)
        /\ InTx(c)' /\ InTx(c)
    BY DEF Picked, InTx, HasDeleted, HasInserted
  <1>3. Gone(c)' = Gone(c) /\ New(c)' = New(c)
    BY <1>1, <1>2 DEF Gone, New, Reads, SensesOf
  <1>4. Written(c)' = Written(c)
    BY <1>1, <1>2 DEF Written, Carried
  <1>5. \A r \in Rels : LocksLink(c, r)' = LocksLink(c, r)
    BY <1>1, <1>2, <1>3, <1>4 DEF LocksLink, Touched, LinksOf, SensesOf, Carried, Reads
  <1>6. \A r \in Rels : RowOf(c, r)' = RowOf(c, r)
    BY <1>1, <1>3 DEF RowOf, Reads, Remaining
  <1>7. QED
    BY <1>1, <1>2, <1>3, <1>4, <1>5, <1>6 DEF LocksWord, SeenIn, Reads

LEMMA WroteSets ==
    ASSUME TypeOK, Control, NEW c \in Calls, Reads, Wrote(c)
    PROVE  /\ Gone(c)' = Gone(c) /\ New(c)' = New(c)
           /\ Written(c)' = Written(c) \cup {work[c].rel}
           /\ work[c].rel \in Rels
           /\ InTx(c)' /\ InTx(c) /\ HasInserted(c)'
           /\ \A r \in Rels : /\ LocksLink(c, r)' => LocksLink(c, r) \/ r = work[c].rel
                              /\ RowOf(c, r)' = RowOf(c, r)
           /\ \A w \in Words : LocksWord(c, w)' = LocksWord(c, w)
           /\ \A s \in Senses : SeenIn(c, s)' = SeenIn(c, s)
  <1>0. work[c] \in Work /\ work[c].rel \in work[c].todo /\ work[c].todo \subseteq Carried(work[c].body)
    BY DEF TypeOK, Control, Locals, Wrote, HasInserted
  <1>1. /\ work'[c].word = work[c].word /\ work'[c].body = work[c].body
        /\ work'[c].todo = work[c].todo \ {work[c].rel}
    BY <1>0 DEF Wrote, Work
  <1>2. /\ HasDeleted(c)' /\ HasDeleted(c) /\ HasInserted(c)' /\ HasInserted(c)
        /\ InTx(c)' /\ InTx(c)
    BY DEF Wrote, InTx, HasDeleted, HasInserted
  <1>3. Gone(c)' = Gone(c) /\ New(c)' = New(c)
    BY <1>1, <1>2 DEF Gone, New, Reads, SensesOf
  <1>4. Written(c)' = Written(c) \cup {work[c].rel} /\ work[c].rel \in Rels
    BY <1>0, <1>1, <1>2 DEF Written, Carried
  <1>5. \A r \in Rels : LocksLink(c, r)' => LocksLink(c, r) \/ r = work[c].rel
    BY <1>1, <1>2, <1>3, <1>4 DEF LocksLink, Touched, LinksOf, SensesOf, Carried, Reads
  <1>6. \A r \in Rels : RowOf(c, r)' = RowOf(c, r)
    BY <1>1, <1>3 DEF RowOf, Reads, Remaining
  <1>7. QED
    BY <1>1, <1>2, <1>3, <1>4, <1>5, <1>6 DEF LocksWord, SeenIn, Reads

-----------------------------------------------------------------------------
(* Steps that leave the tables alone: the locks.                           *)

LEMMA GoingKeepsApart ==
    ASSUME IInv, NEW c \in Calls, Going(c)
    PROVE  Exclusion'
  <1>1. TypeOK /\ Control /\ Exclusion
    BY DEF IInv
  <1>2. Onward(c) /\ Reads /\ Went(c)
    BY <1>1, GoingMoves
  <1>3. \A d \in Others(c) : Same(d)
    BY <1>2 DEF Onward
  <1>4. ASSUME NEW x \in Others(c), NEW y \in Others(c), x # y PROVE Apart(x, y)'
    <2>1. x \in Calls /\ y \in Calls /\ Apart(x, y)
      BY <1>1, <1>4 DEF Others, Exclusion
    <2>2. Same(x) /\ Same(y)
      BY <1>3
    <2>3. InTx(x)' = InTx(x) /\ InTx(y)' = InTx(y) /\ work'[x] = work[x] /\ work'[y] = work[y]
      BY <2>2 DEF InTx, Same
    <2>4. QED
      BY <1>2, <2>1, <2>2, <2>3, QuietIsSteady DEF Apart, Steady
  <1>5. ASSUME NEW d \in Others(c) PROVE Apart(c, d)' /\ Apart(d, c)'
    <2>0. d \in Calls /\ c # d /\ Apart(c, d) /\ Apart(d, c) /\ Same(d)
      BY <1>1, <1>3, <1>5 DEF Others, Exclusion
    <2>1. /\ (InTx(d)' <=> InTx(d)) /\ work'[d].word = work[d].word
          /\ Gone(d)' = Gone(d) /\ New(d)' = New(d)
          /\ \A r \in Rels : LocksLink(d, r)' <=> LocksLink(d, r)
          /\ \A w \in Words : LocksWord(d, w)' = LocksWord(d, w)
          /\ \A w \in Words : SharesWord(d, w)' = SharesWord(d, w)
          /\ \A s \in Senses : SharesSense(d, s)' = SharesSense(d, s)
      BY <1>2, <2>0, QuietIsSteady DEF Steady, Same
    <2>2. CASE ~InTx(c)'
      BY <2>2, UnlockedAfter DEF Apart
    <2>3. CASE Locked(c)
      <3>1. work[c].word \in Words /\ work'[c].word = work[c].word
        BY <1>1, <2>3 DEF Control, Locals, Reading, Locked
      <3>2. ~LocksWord(d, work[c].word) /\ ~SharesWord(d, work[c].word)
        BY <1>5, <2>3 DEF Locked
      <3>3. /\ Gone(c)' = {} /\ New(c)' = {} /\ Written(c)' = {}
            /\ \A r \in Rels : ~LocksLink(c, r)'
            /\ \A w \in Words : LocksWord(c, w)' => w = work[c].word
        BY <1>1, <1>2, <2>3, LockedSets
      <3>4. /\ \A w \in Words : ~SharesWord(c, w)'
            /\ \A s \in Senses : ~SharesSense(c, s)'
        BY <3>3 DEF SharesWord, SharesSense
      <3>5. InTx(d) => work[d].word # work[c].word
        BY <3>2 DEF LocksWord
      <3>6. QED
        BY <2>1, <3>1, <3>2, <3>3, <3>4, <3>5 DEF Apart
    <2>4. CASE Deleted(c)
      <3>1. work[c].word \in Words /\ work'[c].word = work[c].word
        BY <1>1, <2>4 DEF Control, Locals, Reading, Deleted, InTx
      <3>2. /\ Gone(c)' = Unwanted(c) /\ New(c)' = {} /\ Written(c)' = {} /\ InTx(c)
            /\ \A r \in Rels : LocksLink(c, r)' => ~LocksLink(d, r)
            /\ \A w \in Words : LocksWord(c, w)' = LocksWord(c, w)
        BY <1>1, <1>2, <1>5, <2>4, DeletedSets DEF Deleted
      <3>3. \A s \in Unwanted(c) : ~SharesSense(d, s)
        BY <1>5, <2>4 DEF Deleted
      <3>4. /\ \A w \in Words : ~SharesWord(c, w)'
            /\ \A s \in Senses : ~SharesSense(c, s)'
        BY <3>2 DEF SharesWord, SharesSense
      <3>5. QED
        BY <2>0, <2>1, <3>1, <3>2, <3>3, <3>4 DEF Apart
    <2>5. CASE Inserted(c)
      <3>1. work'[c].word = work[c].word
        BY <1>1, <2>5 DEF TypeOK, Work, Inserted
      <3>2. /\ Gone(c)' = Gone(c) /\ New(c)' = Wanted(c) /\ Written(c)' = {} /\ InTx(c)
            /\ \A r \in Rels : LocksLink(c, r)' => LocksLink(c, r)
            /\ \A w \in Words : LocksWord(c, w)' = LocksWord(c, w)
        BY <1>1, <1>2, <2>5, InsertedSets
      <3>3. Wanted(c) \cap New(d) = {}
        BY <1>5, <2>5 DEF Inserted
      <3>4. /\ \A w \in Words : ~SharesWord(c, w)'
            /\ \A s \in Senses : ~SharesSense(c, s)'
        BY <3>2 DEF SharesWord, SharesSense
      <3>5. QED
        BY <2>0, <2>1, <3>1, <3>2, <3>3, <3>4 DEF Apart
    <2>6. CASE Picked(c)
      <3>1. work'[c].word = work[c].word
        BY <1>1, <2>6 DEF TypeOK, Work, Picked
      <3>2. /\ Gone(c)' = Gone(c) /\ New(c)' = New(c) /\ Written(c)' = Written(c) /\ InTx(c)
            /\ \A r \in Rels : LocksLink(c, r)' = LocksLink(c, r) /\ RowOf(c, r)' = RowOf(c, r)
            /\ \A w \in Words : LocksWord(c, w)' = LocksWord(c, w)
        BY <1>1, <1>2, <2>6, PickedSets
      <3>3. /\ \A w \in Words : SharesWord(c, w)' = SharesWord(c, w)
            /\ \A s \in Senses : SharesSense(c, s)' = SharesSense(c, s)
        BY <1>2, <3>2, SetsOf DEF SharesWord, SharesSense, Reads
      <3>4. QED
        BY <2>0, <2>1, <3>1, <3>2, <3>3 DEF Apart
    <2>7. CASE Wrote(c)
      <3> DEFINE row == RowOf(c, work[c].rel)
      <3>1. work'[c].word = work[c].word
        BY <1>1, <2>7 DEF TypeOK, Work, Wrote
      <3>2. /\ Gone(c)' = Gone(c) /\ New(c)' = New(c) /\ InTx(c)
            /\ Written(c)' = Written(c) \cup {work[c].rel} /\ work[c].rel \in Rels
            /\ \A r \in Rels : /\ LocksLink(c, r)' => LocksLink(c, r) \/ r = work[c].rel
                               /\ RowOf(c, r)' = RowOf(c, r)
            /\ \A w \in Words : LocksWord(c, w)' = LocksWord(c, w)
        BY <1>1, <1>2, <2>7, WroteSets
      <3>3. /\ ~LocksLink(d, work[c].rel)
            /\ row.word # rel[work[c].rel].word => ~LocksWord(d, row.word)
            /\ row.target # rel[work[c].rel].target => row.target \notin Gone(d)
        BY <1>5, <2>7 DEF Wrote
      <3>4. \A w \in Words : SharesWord(c, w)' =>
                SharesWord(c, w) \/ (rel[work[c].rel].word # w /\ row.word = w)
        BY <1>2, <3>2, SetsOf DEF SharesWord, Reads
      <3>5. \A s \in Senses : SharesSense(c, s)' =>
                SharesSense(c, s) \/ (rel[work[c].rel].target # s /\ row.target = s)
        BY <1>2, <3>2, SetsOf DEF SharesSense, Reads
      <3>6. QED
        BY <2>0, <2>1, <3>1, <3>2, <3>3, <3>4, <3>5 DEF Apart
    <2>8. QED
      <3>1. Began(c) \/ Submitted(c) \/ FoundComplete(c) \/ Returned(c) => ~InTx(c)'
        BY DEF Began, Submitted, FoundComplete, Returned, InTx
      <3>2. QED
        BY <1>2, <2>2, <2>3, <2>4, <2>5, <2>6, <2>7, <3>1 DEF Went
  <1>6. QED
    BY <1>4, <1>5 DEF Exclusion, Others

-----------------------------------------------------------------------------
(* Steps that leave the tables alone: what has been written.               *)

\* A transaction sees a sense that exists and that it has not deleted where it is.
LEMMA SeenWhereItIs ==
    ASSUME Committable, NEW d \in Calls, HasInserted(d), NEW s \in Senses,
           sense[s] # None, s \notin Gone(d)
    PROVE  SeenIn(d, s) = sense[s]
  <1>1. s \notin New(d)
    BY DEF Committable
  <1>2. CASE s \in work[d].body.senses
    BY <1>1, <1>2 DEF SeenIn, New, SensesOf
  <1>3. CASE s \notin work[d].body.senses
    BY <1>3 DEF SeenIn
  <1>4. QED
    BY <1>2, <1>3

\* The row of an orphan keeps what it points to, if that is still there.
LEMMA OrphanRow ==
    ASSUME TypeOK, NEW d \in Calls, NEW r \in Rels,
           work[d].body.links[r].word = None, rel[r].sense \notin Gone(d)
    PROVE  /\ RowOf(d, r).word = rel[r].word
           /\ RowOf(d, r).target = IF rel[r].target \in Gone(d) THEN None ELSE rel[r].target
           /\ RowOf(d, r).sense = work[d].body.links[r].sense
  <1>1. rel[r] \in Link
    BY DEF TypeOK
  <1>2. Remaining({}, Gone(d))[r] =
            [sense |-> rel[r].sense, word |-> rel[r].word,
             target |-> IF rel[r].target \in Gone(d) THEN None ELSE rel[r].target]
    BY DEF Remaining
  <1>3. QED
    BY <1>2 DEF RowOf

LEMMA OtherRow ==
    ASSUME NEW d \in Calls, NEW r \in Rels, work[d].body.links[r].word # None
    PROVE  RowOf(d, r) = work[d].body.links[r]
  BY DEF RowOf

LEMMA NoneGone ==
    ASSUME NEW d \in Calls
    PROVE  None \notin Gone(d) /\ NoLink.sense \notin Gone(d) /\ NoLink.target \notin Gone(d)
  BY SetsOf, WordAssumption DEF NoLink

LEMMA RowTyped ==
    ASSUME TypeOK, NEW d \in Calls, NEW r \in Rels
    PROVE  RowOf(d, r) \in Link
  <1>1. rel[r] \in Link /\ work[d].body \in Tree
    BY DEF TypeOK, Work
  <1>2. work[d].body.links[r] \in Link
    BY <1>1 DEF Tree
  <1>3. Remaining({}, Gone(d))[r] \in Link
    BY <1>1, NoWorkTyped DEF Remaining, Link
  <1>4. QED
    BY <1>2, <1>3 DEF RowOf, Link

LEMMA NothingThere ==
    ASSUME TypeOK, NEW r \in Rels, rel[r].target # None \/ rel[r].word # None \/ rel[r].sense # None
    PROVE  rel[r] # NoLink
  BY DEF NoLink

LEMMA GoingKeepsCommittable ==
    ASSUME IInv, NEW c \in Calls, Going(c)
    PROVE  Committable'
  <1>1. TypeOK /\ Control /\ Committable /\ TargetsFit
    BY DEF IInv
  <1>2. Onward(c) /\ Reads /\ Went(c)
    BY <1>1, GoingMoves
  <1>3. ASSUME NEW d \in Others(c)
        PROVE  /\ \A s \in New(d)' : sense'[s] = None
               /\ \A r \in Written(d)' : Fits(d, r)'
               /\ pc'[d] = "upsert" => Resolved(d, work[d].body.links[work[d].rel])'
    <2>1. d \in Calls /\ Same(d)
      BY <1>2 DEF Onward, Others
    <2>2. /\ Gone(d)' = Gone(d) /\ New(d)' = New(d) /\ Written(d)' = Written(d)
          /\ \A r \in Rels : RowOf(d, r)' = RowOf(d, r)
          /\ \A s \in Senses : SeenIn(d, s)' = SeenIn(d, s)
      BY <1>2, <2>1, QuietIsSteady DEF Steady
    <2>3. \A s \in New(d)' : sense'[s] = None
      BY <1>1, <1>2, <2>1, <2>2 DEF Committable, Reads
    <2>4. ASSUME NEW r \in Written(d) PROVE Fits(d, r)'
      <3>1. r \in Rels /\ Fits(d, r)
        BY <1>1, <2>1, SetsOf DEF Committable
      <3>2. RowOf(d, r).target \in Senses \cup {None}
        BY <1>1, <2>1, <3>1, RowTyped DEF Link
      <3>3. QED
        BY <1>2, <2>1, <2>2, <3>1, <3>2 DEF Fits, Same, Reads, LinksOf, SensesOf, Live
    <2>5. pc'[d] = "upsert" => Resolved(d, work[d].body.links[work[d].rel])'
      <3>1. ASSUME pc[d] = "upsert" PROVE Resolved(d, work[d].body.links[work[d].rel])'
        <4>1. Resolved(d, work[d].body.links[work[d].rel])
          BY <1>1, <2>1, <3>1 DEF Committable
        <4>2. work[d].body \in Tree /\ work[d].rel \in Rels
          <5>1. work[d] \in Work /\ work[d].rel \in work[d].todo
            BY <1>1, <2>1, <3>1 DEF TypeOK, Control, Locals
          <5>2. QED
            BY <5>1 DEF Work
        <4>3. work[d].body.links[work[d].rel].target \in Senses \cup {None}
          BY <4>2 DEF Tree, Link
        <4>4. QED
          BY <1>2, <2>1, <2>2, <4>1, <4>3 DEF Resolved, Same, Reads
      <3>2. QED
        BY <2>1, <3>1 DEF Same
    <2>6. QED
      BY <2>2, <2>3, <2>4, <2>5
  <1>4. /\ \A s \in New(c)' : sense'[s] = None
        /\ \A r \in Written(c)' : Fits(c, r)'
        /\ pc'[c] = "upsert" => Resolved(c, work[c].body.links[work[c].rel])'
    <2>1. CASE ~InTx(c)'
      <3>1. pc'[c] # "upsert"
        BY <2>1 DEF InTx
      <3>2. QED
        BY <2>1, <3>1, UnlockedAfter
    <2>2. CASE Locked(c) \/ Deleted(c)
      <3>1. New(c)' = {} /\ Written(c)' = {} /\ pc'[c] # "upsert"
        BY <1>1, <1>2, <2>2, LockedSets, DeletedSets DEF Locked, Deleted
      <3>2. QED
        BY <3>1
    <2>3. CASE Inserted(c)
      <3>1. New(c)' = Wanted(c) /\ Written(c)' = {} /\ pc'[c] # "upsert"
        BY <1>1, <1>2, <2>3, InsertedSets DEF Inserted
      <3>2. QED
        BY <1>2, <2>3, <3>1 DEF Inserted, Reads
    <2>4. CASE Picked(c)
      <3>1. /\ New(c)' = New(c) /\ Written(c)' = Written(c) /\ Gone(c)' = Gone(c)
            /\ \A r \in Rels : RowOf(c, r)' = RowOf(c, r)
            /\ \A s \in Senses : SeenIn(c, s)' = SeenIn(c, s)
        BY <1>1, <1>2, <2>4, PickedSets
      <3>2. PICK r \in work[c].todo :
                /\ work'[c] = [work[c] EXCEPT !.rel = r]
                /\ IF work[c].body.links[r].word = None THEN r \in LinksOf(work[c].word)
                   ELSE Resolvable(c, work[c].body.links[r])
        BY <2>4 DEF Picked
      <3>3. work[c] \in Work /\ work[c].body \in Bodies /\ r \in Carried(work[c].body)
        BY <1>1, <2>4, <3>2 DEF TypeOK, Control, Locals, Picked, Posted, InTx, HasInserted
      <3>4. r \in Rels /\ work'[c].rel = r /\ work'[c].body = work[c].body /\ work'[c].word = work[c].word
        BY <3>2, <3>3 DEF Work, Carried
      <3>5. \A s \in New(c)' : sense'[s] = None
        BY <1>1, <1>2, <3>1 DEF Committable, Reads
      <3>6. ASSUME NEW q \in Written(c) PROVE Fits(c, q)'
        <4>1. q \in Rels /\ Fits(c, q)
          BY <1>1, <3>6, SetsOf DEF Committable
        <4>2. RowOf(c, q).target \in Senses \cup {None}
          BY <1>1, <4>1, RowTyped DEF Link
        <4>3. QED
          BY <1>2, <3>1, <3>4, <4>1, <4>2 DEF Fits, Reads, LinksOf, SensesOf, Live
      <3>7. Resolved(c, work[c].body.links[work[c].rel])'
        <4>1. work[c].body.links[r].word = None => work[c].body.links[r].target = None
          BY <3>3 DEF Bodies
        <4>2. work[c].body.links[r] \in Link
          BY <3>3, <3>4, BodiesAreTrees DEF Tree
        <4>3. work[c].body.links[r].target # None =>
                  SeenIn(c, work[c].body.links[r].target) = work[c].body.links[r].word
          BY <3>2, <4>1 DEF Resolvable
        <4>4. QED
          BY <3>1, <3>4, <4>2, <4>3 DEF Resolved, Link
      <3>8. QED
        BY <3>1, <3>5, <3>6, <3>7
    <2>5. CASE Wrote(c)
      <3> DEFINE r == work[c].rel
                 l == work[c].body.links[r]
                 row == RowOf(c, r)
      <3>1. /\ New(c)' = New(c) /\ Gone(c)' = Gone(c)
            /\ Written(c)' = Written(c) \cup {r} /\ r \in Rels
            /\ \A q \in Rels : RowOf(c, q)' = RowOf(c, q)
            /\ \A s \in Senses : SeenIn(c, s)' = SeenIn(c, s)
        BY <1>1, <1>2, <2>5, WroteSets
      <3>2. /\ work[c] \in Work /\ work'[c].word = work[c].word /\ pc[c] = "upsert"
            /\ pc'[c] # "upsert"
        BY <1>1, <2>5 DEF TypeOK, Work, Wrote
      <3>3. \A s \in New(c)' : sense'[s] = None
        BY <1>1, <1>2, <3>1 DEF Committable, Reads
      <3>4. ASSUME NEW q \in Rels, Fits(c, q) PROVE Fits(c, q)'
        <4>1. RowOf(c, q).target \in Senses \cup {None}
          BY <1>1, RowTyped DEF Link
        <4>2. QED
          BY <1>2, <3>1, <3>2, <3>4, <4>1 DEF Fits, Reads, LinksOf, SensesOf, Live
      <3>5. Fits(c, r)
        <4>1. /\ IF r \in LinksOf(work[c].word) THEN rel[r].sense \notin Gone(c) ELSE rel[r] = NoLink
              /\ row.word # None => Live(row.word)
              /\ row.target # None => SeenIn(c, row.target) # None
          BY <2>5 DEF Wrote
        <4>2. rel[r].sense \notin Gone(c)
          BY <4>1, NoneGone
        <4>3. ASSUME row.target # None
              PROVE  SeenIn(c, row.target) = row.word \/ row.target \in spent
          <5>1. CASE l.word = None
            <6>1. row.target = rel[r].target /\ row.word = rel[r].word /\ rel[r].target \notin Gone(c)
              BY <1>1, <3>1, <4>2, <4>3, <5>1, OrphanRow
            <6>2. rel[r].target \in Senses /\ sense[rel[r].target] # None
              BY <1>1, <3>1, <4>3, <6>1, NothingThere DEF TypeOK, KeysHold, Link
            <6>3. SeenIn(c, rel[r].target) = sense[rel[r].target]
              BY <1>1, <3>2, <6>1, <6>2, SeenWhereItIs DEF HasInserted
            <6>4. QED
              BY <1>1, <3>1, <4>3, <6>1, <6>3 DEF TargetsFit
          <5>2. CASE l.word # None
            <6>1. row = l
              BY <3>1, <5>2, OtherRow
            <6>2. QED
              BY <1>1, <3>2, <4>3, <6>1 DEF Committable, Resolved
          <5>3. QED
            BY <5>1, <5>2
        <4>4. QED
          BY <4>1, <4>3 DEF Fits
      <3>6. QED
        BY <1>1, <3>1, <3>2, <3>3, <3>4, <3>5, SetsOf DEF Committable
    <2>8. QED
      <3>1. Began(c) \/ Submitted(c) \/ FoundComplete(c) \/ Returned(c) => ~InTx(c)'
        BY DEF Began, Submitted, FoundComplete, Returned, InTx
      <3>2. QED
        BY <1>2, <2>1, <2>2, <2>3, <2>4, <2>5, <3>1 DEF Went
  <1>5. QED
    BY <1>3, <1>4 DEF Committable, Others

-----------------------------------------------------------------------------
(* Steps that leave the tables alone: the rest of the invariant.           *)

\* What the next statement relies on, for the call that moves.
LEMMA GoingKeepsLocals ==
    ASSUME IInv, NEW c \in Calls, Going(c)
    PROVE  Control' /\ OwnIds'
  <1>1. TypeOK /\ Control /\ OwnIds
    BY DEF IInv
  <1>2. Onward(c) /\ Reads /\ Went(c) /\ work[c] \in Work /\ Locals(c)
    BY <1>1, GoingMoves DEF TypeOK, Control
  <1>3. ASSUME NEW d \in Others(c) PROVE Locals(d)'
    <2>1. d \in Calls /\ Same(d) /\ Locals(d)
      BY <1>1, <1>2 DEF Onward, Others, Control
    <2>2. QED
      BY <1>2, <2>1 DEF Locals, Same, Reads, Reading, Posted, InTx, HasInserted, Carried, Bodies
  <1>4. Locals(c)'
    <2>1. CASE pc[c] = "new" /\ Began(c)
      <3>1. /\ pc'[c] \in {"insert", "edit", "check"} => work'[c].word \in Words
            /\ pc'[c] = "insert" => word[work'[c].word].state = "absent"
            /\ pc'[c] \in {"insert", "edit", "check", "drop"}
        BY <2>1, NoWorkTyped DEF Began, Work
      <3>2. QED
        BY <1>2, <3>1 DEF Locals, Reading, Posted, InTx, HasInserted, Reads
    <2>2. CASE Submitted(c)
      <3>1. pc'[c] = "lock" /\ work'[c].body \in Bodies /\ work'[c].word = work[c].word
            /\ work[c].word \in Words
        BY <1>2, <2>2 DEF Submitted, Work, Locals, Reading
      <3>2. QED
        BY <3>1 DEF Locals, Reading, Posted, InTx, HasInserted, Bodies, Carried
    <2>3. CASE Locked(c) \/ Deleted(c)
      BY <1>2, <2>3 DEF Locked, Deleted, Locals, Reading, Posted, InTx, HasInserted, Bodies, Carried
    <2>4. CASE Inserted(c)
      <3>1. /\ work'[c].word = work[c].word /\ work'[c].body = work[c].body
            /\ work'[c].todo = Carried(work[c].body)
        BY <1>2, <2>4 DEF Inserted, Work
      <3>2. pc'[c] \in {"commit", "relations"} /\ (pc'[c] = "commit" => work'[c].todo = {})
        BY <2>4, <3>1 DEF Inserted
      <3>3. work[c].word \in Words /\ work[c].body \in Bodies
        BY <1>2, <2>4 DEF Inserted, Locals, Reading, Posted, InTx
      <3>4. QED
        BY <3>1, <3>2, <3>3 DEF Locals, Reading, Posted, InTx, HasInserted, Bodies, Carried
    <2>5. CASE Picked(c)
      <3>1. /\ work'[c].word = work[c].word /\ work'[c].body = work[c].body
            /\ work'[c].todo = work[c].todo /\ work'[c].rel \in work[c].todo
        BY <1>2, <2>5 DEF Picked, Work
      <3>2. /\ work[c].word \in Words /\ work[c].body \in Bodies
            /\ work[c].todo \subseteq Carried(work[c].body) /\ pc'[c] = "upsert"
        BY <1>2, <2>5 DEF Picked, Locals, Reading, Posted, InTx, HasInserted
      <3>3. QED
        BY <3>1, <3>2 DEF Locals, Reading, Posted, InTx, HasInserted, Bodies, Carried
    <2>6. CASE Wrote(c)
      <3>1. /\ work'[c].word = work[c].word /\ work'[c].body = work[c].body
            /\ work'[c].todo = work[c].todo \ {work[c].rel}
        BY <1>2, <2>6 DEF Wrote, Work
      <3>2. /\ work[c].word \in Words /\ work[c].body \in Bodies
            /\ work[c].todo \subseteq Carried(work[c].body)
        BY <1>2, <2>6 DEF Wrote, Locals, Reading, Posted, InTx, HasInserted
      <3>3. pc'[c] \in {"commit", "relations"} /\ (pc'[c] = "commit" => work'[c].todo = {})
        BY <2>6, <3>1 DEF Wrote
      <3>4. QED
        BY <3>1, <3>2, <3>3 DEF Locals, Reading, Posted, InTx, HasInserted, Bodies, Carried
    <2>7. CASE FoundComplete(c)
      <3>1. work'[c].word = work[c].word /\ work[c].word \in Words /\ pc'[c] = "flip"
        BY <1>2, <2>7 DEF FoundComplete, Work, Locals
      <3>2. QED
        BY <3>1 DEF Locals, Reading, Posted, InTx, HasInserted
    <2>8. CASE Returned(c)
      BY <2>8 DEF Returned, Locals, Reading, Posted, InTx, HasInserted
    <2>9. QED
      BY <1>2, <2>1, <2>2, <2>3, <2>4, <2>5, <2>6, <2>7, <2>8 DEF Went
  <1>5. ASSUME NEW d \in Others(c), pc'[c] = "insert", pc'[d] = "insert"
        PROVE  work'[c].word # work'[d].word
    <2>1. d \in Calls /\ pc[d] = "insert" /\ work'[d] = work[d]
      BY <1>2, <1>5 DEF Onward, Others, Same
    <2>2. Began(c)
      BY <1>2, <1>5 DEF Went, Submitted, Locked, Deleted, Inserted, Picked, Wrote, FoundComplete,
         Returned
    <2>3. PICK w \in Words : /\ work'[c] = [NoWork EXCEPT !.word = w]
                             /\ \A e \in Calls : pc[e] = "insert" => work[e].word # w
      BY <1>5, <2>2 DEF Began
    <2>4. work'[c].word = w
      BY <2>3 DEF NoWork
    <2>5. QED
      BY <2>1, <2>3, <2>4
  <1>6. ASSUME NEW x \in Others(c), NEW y \in Others(c), x # y, pc'[x] = "insert", pc'[y] = "insert"
        PROVE  work'[x].word # work'[y].word
    BY <1>1, <1>2, <1>6 DEF OwnIds, Onward, Others, Same
  <1>7. OwnIds'
    BY <1>5, <1>6 DEF OwnIds, Others
  <1>8. QED
    BY <1>3, <1>4, <1>7 DEF Control, Others

LEMMA GoingKeepsTokens ==
    ASSUME IInv, NEW c \in Calls, Going(c)
    PROVE  FreshTokens'
  <1>1. TypeOK /\ Control /\ FreshTokens
    BY DEF IInv
  <1>2. Onward(c) /\ Reads /\ Went(c) /\ work[c] \in Work
    BY <1>1, GoingMoves DEF TypeOK
  <1>3. \/ work'[c].base = work[c].base
        \/ work'[c].base = None
        \/ \E w \in Words : work'[c].base = word[w].token
    <2>1. CASE Began(c)
      BY <2>1 DEF Began, NoWork
    <2>2. CASE FoundComplete(c)
      <3>1. work[c].word \in Words /\ work'[c].base = word[work[c].word].token
        BY <1>1, <1>2, <2>2 DEF FoundComplete, Work, Control, Locals
      <3>2. QED
        BY <3>1
    <2>3. CASE Returned(c)
      BY <2>3 DEF Returned, NoWork
    <2>4. CASE Submitted(c) \/ Locked(c) \/ Deleted(c) \/ Inserted(c) \/ Picked(c) \/ Wrote(c)
      BY <1>2, <2>4 DEF Submitted, Locked, Deleted, Inserted, Picked, Wrote, Work
    <2>5. QED
      BY <1>2, <2>1, <2>2, <2>3, <2>4 DEF Went
  <1>4. \A e \in Calls : pc'[e] # "done" => pc[e] # "done"
    <2>1. \A e \in Others(c) : pc'[e] = pc[e]
      BY <1>2 DEF Onward, Same
    <2>2. pc[c] # "done"
      BY <1>2 DEF Went, Submitted, Locked, Deleted, Inserted, Picked, Wrote, FoundComplete, Running
    <2>3. QED
      BY <2>1, <2>2 DEF Others
  <1>5. ASSUME NEW e \in Calls, pc'[e] # "done", NEW d \in Calls
        PROVE  work'[d].base # e
    <2>1. CASE d = c
      BY <1>1, <1>3, <1>4, <1>5, <2>1, WordAssumption DEF FreshTokens
    <2>2. CASE d # c
      BY <1>1, <1>2, <1>4, <1>5, <2>2 DEF FreshTokens, Onward, Others, Same
    <2>3. QED
      BY <2>1, <2>2
  <1>6. QED
    BY <1>1, <1>2, <1>4, <1>5 DEF FreshTokens, Reads

LEMMA SameTree ==
    ASSUME TypeOK, NEW w \in Words
    PROVE  SameButCut(TreeOf(w), TreeOf(w))
  BY DEF SameButCut

LEMMA GoingKeepsPins ==
    ASSUME IInv, NEW c \in Calls, Going(c)
    PROVE  TokenPins' /\ CheckStands'
  <1>1. TypeOK /\ Control /\ TokenPins /\ CheckStands
    BY DEF IInv
  <1>2. Onward(c) /\ Reads /\ Went(c) /\ work[c] \in Work /\ Locals(c)
    BY <1>1, GoingMoves DEF TypeOK, Control
  <1>3. /\ \A w \in Words : TreeOf(w)' = TreeOf(w)
        /\ \A w : Live(w)' = Live(w)
        /\ \A w \in Words : Publishable(w)' = Publishable(w)
    BY <1>2 DEF Reads, TreeOf, Live, Publishable, SensesOf, LinksOf
  <1> DEFINE Pinned(d) ==
                /\ InTx(d) => AsRead(d)
                /\ Reading(d) /\ AsRead(d) =>
                      work[d].seen \in Tree /\ SameButCut(TreeOf(work[d].word), work[d].seen)
                /\ Posted(d) /\ AsRead(d) /\ word[work[d].word].status = "published"
                      => Complete(work[d].body)
                /\ pc[d] = "flip" /\ AsRead(d) => Publishable(work[d].word)
  <1>4. \A d \in Calls : Pinned(d)
    BY <1>1 DEF TokenPins, CheckStands
  <1>5. ASSUME NEW d \in Others(c) PROVE Pinned(d)'
    <2>1. d \in Calls /\ Same(d) /\ Pinned(d) /\ Locals(d)
      BY <1>1, <1>2, <1>4 DEF Onward, Others, Control
    <2>2. InTx(d)' = InTx(d) /\ Reading(d)' = Reading(d) /\ Posted(d)' = Posted(d)
          /\ AsRead(d)' = AsRead(d) /\ pc'[d] = pc[d] /\ work'[d] = work[d] /\ word' = word
      BY <1>2, <1>3, <2>1 DEF InTx, Reading, Posted, AsRead, Same, Reads
    <2>3. Reading(d) => work[d].word \in Words
      BY <2>1 DEF Locals
    <2>4. /\ InTx(d)' => AsRead(d)'
          /\ (Posted(d) /\ AsRead(d) /\ word[work[d].word].status = "published")' => Complete(work[d].body)'
      BY <2>1, <2>2 DEF Complete
    <2>5. (Reading(d) /\ AsRead(d))' =>
              (work[d].seen \in Tree /\ SameButCut(TreeOf(work[d].word), work[d].seen))'
      BY <1>3, <2>1, <2>2, <2>3 DEF SameButCut, Tree, Link
    <2>6. (pc[d] = "flip" /\ AsRead(d))' => Publishable(work[d].word)'
      BY <1>3, <2>1, <2>2, <2>3 DEF Reading
    <2>7. QED
      BY <2>4, <2>5, <2>6
  <1>6. Pinned(c)'
    <2>1. CASE Began(c)
      <3>1. CASE pc'[c] = "edit"
        <4>1. PICK w \in Words : /\ Live(w)
                                 /\ work'[c] = [NoWork EXCEPT !.word = w, !.base = word[w].token,
                                                              !.seen = TreeOf(w)]
          BY <2>1, <3>1 DEF Began
        <4>2. work'[c].word = w /\ work'[c].seen = TreeOf(w)
          BY <4>1 DEF NoWork
        <4>3. TreeOf(w) \in Tree /\ SameButCut(TreeOf(w), TreeOf(w))
          BY <1>1, TreesTyped, SameTree
        <4>4. (work[c].seen \in Tree /\ SameButCut(TreeOf(work[c].word), work[c].seen))'
          BY <1>3, <4>2, <4>3 DEF SameButCut, Tree, Link
        <4>5. QED
          BY <3>1, <4>4 DEF InTx, Posted
      <3>2. CASE pc'[c] # "edit"
        BY <2>1, <3>2 DEF Began, InTx, Reading, Posted
      <3>3. QED
        BY <3>1, <3>2
    <2>2. CASE Returned(c)
      BY <2>2 DEF Returned, InTx, Reading, Posted
    <2>3. CASE FoundComplete(c)
      <3> DEFINE w == work[c].word
      <3>1. w \in Words /\ Live(w) /\ Complete(TreeOf(w)) /\ pc'[c] = "flip"
            /\ work'[c].word = w /\ work'[c].seen = TreeOf(w)
        BY <1>2, <2>3 DEF FoundComplete, Work, Locals
      <3>2. TreeOf(w) \in Tree /\ SameButCut(TreeOf(w), TreeOf(w))
        BY <1>1, <3>1, TreesTyped, SameTree
      <3>3. (work[c].seen \in Tree /\ SameButCut(TreeOf(work[c].word), work[c].seen))'
        BY <1>3, <3>1, <3>2 DEF SameButCut, Tree, Link
      <3>4. Publishable(w)
        <4>1. word[w].full /\ \A r \in LinksOf(w) : rel[r].word # None => rel[r].target # None
          BY <3>1 DEF Complete, TreeOf, LinksOf
        <4>2. QED
          BY <4>1 DEF Publishable
      <3>5. Publishable(work[c].word)'
        BY <1>3, <3>1, <3>4
      <3>6. QED
        BY <3>1, <3>3, <3>5 DEF InTx, Posted
    <2>4. CASE Submitted(c) \/ Locked(c) \/ Deleted(c) \/ Inserted(c) \/ Picked(c) \/ Wrote(c)
      <3>1. /\ work'[c].word = work[c].word /\ work'[c].base = work[c].base
            /\ work'[c].seen = work[c].seen
        BY <1>2, <2>4 DEF Submitted, Locked, Deleted, Inserted, Picked, Wrote, Work
      <3>2. Reading(c) /\ work[c].word \in Words /\ pc'[c] # "flip"
        BY <1>2, <2>4 DEF Submitted, Locked, Deleted, Inserted, Picked, Wrote, Reading, InTx, Locals
      <3>3. AsRead(c)' = AsRead(c)
        BY <1>2, <1>3, <3>1 DEF AsRead, Reads
      <3>4. InTx(c)' => AsRead(c)'
        <4>1. InTx(c) => AsRead(c)
          BY <1>4
        <4>2. QED
          BY <2>4, <3>3, <4>1 DEF Submitted, Locked, Deleted, Inserted, Picked, Wrote, InTx
      <3>5. (Reading(c) /\ AsRead(c))' =>
                (work[c].seen \in Tree /\ SameButCut(TreeOf(work[c].word), work[c].seen))'
        <4>1. AsRead(c) => work[c].seen \in Tree /\ SameButCut(TreeOf(work[c].word), work[c].seen)
          BY <1>4, <3>2
        <4>2. QED
          BY <1>3, <3>1, <3>2, <3>3, <4>1 DEF SameButCut, Tree, Link
      <3>6. (Posted(c) /\ AsRead(c) /\ word[work[c].word].status = "published")' => Complete(work[c].body)'
        <4>1. CASE Submitted(c)
          <5>1. PICK body \in Bodies : /\ work'[c] = [work[c] EXCEPT !.body = body]
                                       /\ word[work[c].word].status = "published" => Complete(body)
            BY <4>1 DEF Submitted
          <5>2. work'[c].body = body
            BY <1>2, <5>1 DEF Work
          <5>3. QED
            BY <1>2, <3>1, <5>1, <5>2 DEF Reads, Complete
        <4>2. CASE Locked(c) \/ Deleted(c) \/ Inserted(c) \/ Picked(c) \/ Wrote(c)
          <5>1. Posted(c) /\ work'[c].body = work[c].body
            BY <1>2, <4>2 DEF Locked, Deleted, Inserted, Picked, Wrote, Work, Posted, InTx
          <5>2. AsRead(c) /\ word[work[c].word].status = "published" => Complete(work[c].body)
            BY <1>4, <5>1
          <5>3. QED
            BY <1>2, <3>1, <3>3, <5>1, <5>2 DEF Reads, Complete
        <4>3. QED
          BY <2>4, <4>1, <4>2
      <3>7. QED
        BY <3>2, <3>4, <3>5, <3>6
    <2>5. QED
      BY <1>2, <2>1, <2>2, <2>3, <2>4 DEF Went
  <1>7. \A d \in Calls : Pinned(d)'
    BY <1>5, <1>6 DEF Others
  <1>8. QED
    BY <1>7 DEF TokenPins, CheckStands

LEMMA GoingKeepsInvariant ==
    ASSUME IInv, NEW c \in Calls, Going(c)
    PROVE  IInv'
  <1>1. TypeOK /\ Control /\ TargetsFit /\ PublishedComplete
    BY DEF IInv
  <1>2. Onward(c) /\ Reads
    BY <1>1, GoingMoves
  <1>3. KeysHold'
    BY <1>1, <1>2 DEF TypeOK, KeysHold, Reads, Live
  <1>4. TypeOK'
    BY <1>1, <1>2, <1>3 DEF TypeOK, Onward, Reads
  <1>5. TargetsFit' /\ PublishedComplete'
    BY <1>1, <1>2 DEF TargetsFit, PublishedComplete, Reads, Live, LinksOf, SensesOf
  <1>6. QED
    BY <1>4, <1>5, GoingKeepsApart, GoingKeepsCommittable, GoingKeepsLocals, GoingKeepsTokens,
       GoingKeepsPins DEF IInv

-----------------------------------------------------------------------------
(* Steps that change one row of words: an entry is created or published.   *)

\* The row of an entry that no transaction holds gets a new token.
Stamped(c, w) ==
    /\ w \in Words /\ pc[c] # "done"
    /\ UNCHANGED <<sense, rel, spent, cut>>
    /\ \E row \in Word :
          /\ word' = [word EXCEPT ![w] = row]
          /\ row.state = "live" /\ row.token = c
          /\ row.status = "published" => row.full = word[w].full /\ Publishable(w)
    /\ \A d \in Others(c) : InTx(d) \/ pc[d] = "insert" => work[d].word # w

LEMMA StampMoves ==
    ASSUME IInv, NEW c \in Calls, Insert(c) \/ SetStatus(c), ~Going(c)
    PROVE  Onward(c) /\ Returned(c) /\ Stamped(c, work[c].word)
  <1> DEFINE w == work[c].word
  <1>1. TypeOK /\ Control /\ OwnIds /\ TokenPins /\ CheckStands
    BY DEF IInv
  <1>2. Return(c) /\ pc[c] \in {"insert", "flip"}
    BY DEF Insert, SetStatus
  <1>3. Onward(c) /\ Returned(c)
    BY <1>1, <1>2, ReturnMoves
  <1>4. word' # word
    <2>1. ~Fail(c)
      BY DEF Going
    <2>2. UNCHANGED <<sense, rel, spent, cut>>
      BY DEF Insert, SetStatus
    <2>3. QED
      BY <1>2, <2>1, <2>2 DEF Fail, Reads, Running
  <1>5. w \in Words /\ word[w] \in Word
    BY <1>1, <1>2 DEF Control, Locals, Reading, TypeOK
  <1>6. CASE Insert(c)
    <2> DEFINE row == [NoWord EXCEPT !.state = "live", !.token = c]
    <2>1. row \in Word /\ row.state = "live" /\ row.token = c /\ row.status = "draft"
      BY DEF NoWord, Word
    <2>2. word' = [word EXCEPT ![w] = row] /\ UNCHANGED <<sense, rel, spent, cut>> /\ pc[c] = "insert"
      BY <1>4, <1>6 DEF Insert
    <2>3. ~Live(w)
      BY <1>1, <2>2 DEF Control, Locals, Live
    <2>4. ASSUME NEW d \in Others(c), InTx(d) \/ pc[d] = "insert" PROVE work[d].word # w
      BY <1>1, <2>2, <2>3, <2>4 DEF TokenPins, AsRead, OwnIds, Others
    <2>5. QED
      <3> HIDE DEF row
      <3>1. QED
        BY <1>3, <1>5, <2>1, <2>2, <2>4 DEF Stamped
  <1>7. CASE SetStatus(c)
    <2> DEFINE row == [word[w] EXCEPT !.status = "published", !.token = c]
    <2>1. Live(w) /\ word[w].token = work[c].base /\ pc[c] = "flip"
          /\ word' = [word EXCEPT ![w].status = "published", ![w].token = c]
          /\ UNCHANGED <<sense, rel, spent, cut>>
      BY <1>4, <1>7 DEF SetStatus
    <2>2. row \in Word /\ row.state = "live" /\ row.token = c /\ row.full = word[w].full
      BY <1>5, <2>1 DEF Word, Live
    <2>3. word' = [word EXCEPT ![w] = row]
      BY <1>1, <1>5, <2>1 DEF TypeOK, Word
    <2>4. Publishable(w)
      BY <1>1, <2>1 DEF CheckStands, AsRead
    <2>5. ASSUME NEW d \in Others(c), InTx(d) \/ pc[d] = "insert" PROVE work[d].word # w
      BY <1>1, <1>5, <1>7, <2>1, <2>5 DEF SetStatus, LocksWord, Control, Locals, Live, Others
    <2>6. QED
      <3> HIDE DEF row
      <3>1. QED
        BY <1>3, <1>5, <2>1, <2>2, <2>3, <2>4, <2>5 DEF Stamped
  <1>8. QED
    BY <1>6, <1>7

LEMMA StampKeepsNodes ==
    ASSUME IInv, NEW c \in Calls, NEW w \in Words, Onward(c), Returned(c), Stamped(c, w)
    PROVE  TypeOK' /\ Control' /\ OwnIds' /\ FreshTokens' /\ TargetsFit'
  <1>1. TypeOK /\ Control /\ OwnIds /\ FreshTokens /\ TargetsFit
    BY DEF IInv
  <1>2. PICK row \in Word :
            /\ word' = [word EXCEPT ![w] = row] /\ row.state = "live" /\ row.token = c
            /\ UNCHANGED <<sense, rel, spent, cut>>
    BY DEF Stamped
  <1>3. word' \in [Words -> Word] /\ \A v : Live(v) => Live(v)'
    BY <1>1, <1>2 DEF TypeOK, Live
  <1>4. KeysHold'
    BY <1>1, <1>2, <1>3 DEF TypeOK, KeysHold
  <1>5. TypeOK'
    BY <1>1, <1>2, <1>3, <1>4 DEF TypeOK, Onward
  <1>6. ASSUME NEW d \in Others(c) PROVE Locals(d)'
    <2>1. d \in Calls /\ Same(d) /\ Locals(d)
      BY <1>1, <1>6 DEF Onward, Others, Control
    <2>2. pc[d] = "insert" => work[d].word \in Words /\ word'[work[d].word].state = "absent"
      BY <1>1, <1>2, <1>6, <2>1 DEF Stamped, Locals, TypeOK
    <2>3. QED
      BY <2>1, <2>2 DEF Locals, Same, Reading, Posted, InTx, HasInserted, Carried, Bodies
  <1>7. Locals(c)'
    BY DEF Returned, Locals, Reading, Posted, InTx, HasInserted
  <1>8. OwnIds'
    BY <1>1 DEF OwnIds, Onward, Others, Same, Returned
  <1>9. FreshTokens'
    <2>1. ASSUME NEW e \in Calls, pc'[e] # "done"
          PROVE  e # c /\ pc[e] # "done"
      BY <2>1 DEF Onward, Others, Same, Returned
    <2>2. ASSUME NEW e \in Calls, pc'[e] # "done", NEW v \in Words
          PROVE  word'[v].token # e
      BY <1>1, <1>2, <2>1, <2>2 DEF FreshTokens, TypeOK
    <2>3. ASSUME NEW e \in Calls, pc'[e] # "done", NEW d \in Calls
          PROVE  work'[d].base # e
      BY <1>1, <2>1, <2>3, WordAssumption DEF FreshTokens, Onward, Others, Same, Returned, NoWork
    <2>4. QED
      BY <2>2, <2>3 DEF FreshTokens
  <1>10. TargetsFit'
    BY <1>1, <1>2 DEF TargetsFit
  <1>11. QED
    BY <1>5, <1>6, <1>7, <1>8, <1>9, <1>10 DEF Control, Others

-----------------------------------------------------------------------------
(* A call changes tables and returns: what the others need of that step.   *)

LEMMA SteadyKeepsApart ==
    ASSUME Exclusion, NEW c \in Calls, Onward(c), Returned(c),
           \A d \in Others(c) : Steady(d)
    PROVE  Exclusion'
  <1>1. ~InTx(c)'
    BY DEF Returned, InTx
  <1>2. ASSUME NEW d \in Calls PROVE Apart(c, d)' /\ (d # c => Apart(d, c)')
    BY <1>1, UnlockedAfter DEF Apart
  <1>3. ASSUME NEW x \in Others(c), NEW y \in Others(c), x # y PROVE Apart(x, y)'
    <2>1. x \in Calls /\ y \in Calls /\ Apart(x, y) /\ Steady(x) /\ Steady(y)
      BY <1>3 DEF Others, Exclusion
    <2>2. work'[x] = work[x] /\ work'[y] = work[y]
      BY DEF Onward, Same
    <2>3. /\ \A w \in Words : SharesWord(x, w)' = SharesWord(x, w)
          /\ \A s \in Senses : SharesSense(x, s)' = SharesSense(x, s)
          /\ \A w \in Words : LocksWord(y, w)' = LocksWord(y, w)
      BY <2>1, <2>2, SetsOf DEF SharesWord, SharesSense, LocksWord, Steady
    <2>4. QED
      BY <2>1, <2>2, <2>3 DEF Apart, Steady
  <1>4. QED
    BY <1>2, <1>3 DEF Exclusion, Others

\* The entry a transaction holds keeps its senses, the relations it holds stay as they
\* are, and no other one comes to be of these senses or to point to one it has deleted.
Clear(d) ==
    InTx(d) =>
        /\ SensesOf(work[d].word)' = SensesOf(work[d].word)
        /\ \A r \in Rels :
              /\ LocksLink(d, r) => rel'[r] = rel[r]
              /\ rel'[r].sense \in SensesOf(work[d].word) => rel'[r].sense = rel[r].sense
              /\ rel'[r].target \in Gone(d) => rel'[r].target = rel[r].target

LEMMA ClearIsSteady ==
    ASSUME NEW d \in Calls, Same(d), Clear(d)
    PROVE  Steady(d)
  <1>1. /\ InTx(d)' = InTx(d) /\ HasDeleted(d)' = HasDeleted(d) /\ HasInserted(d)' = HasInserted(d)
    BY DEF InTx, HasDeleted, HasInserted, Same
  <1>2. CASE ~InTx(d)
    BY <1>1, <1>2, Unlocked, UnlockedAfter DEF Steady
  <1>3. CASE InTx(d)
    <2>1. SensesOf(work[d].word)' = SensesOf(work[d].word)
      BY <1>3 DEF Clear
    <2>2. Gone(d)' = Gone(d) /\ New(d)' = New(d) /\ Written(d)' = Written(d)
      BY <1>1, <2>1 DEF Gone, New, Written, Same, Carried
    <2>3. ASSUME NEW r \in Rels PROVE LocksLink(d, r)' => LocksLink(d, r)
      <3>1. CASE r \in Written(d)'
        BY <2>2, <3>1 DEF LocksLink
      <3>2. CASE HasDeleted(d)' /\ (r \in LinksOf(work[d].word) \ Carried(work[d].body))'
        <4>1. rel'[r].sense \in SensesOf(work[d].word) /\ r \notin Carried(work[d].body)
          BY <2>1, <3>2 DEF LinksOf, Same, Carried
        <4>2. r \in LinksOf(work[d].word) \ Carried(work[d].body)
          BY <1>3, <4>1 DEF Clear, LinksOf
        <4>3. QED
          BY <1>1, <3>2, <4>2 DEF LocksLink
      <3>3. CASE (r \in Touched({}, Gone(d)))'
        <4>1. rel'[r].sense \in Gone(d) \/ rel'[r].target \in Gone(d)
          BY <2>2, <3>3 DEF Touched
        <4>2. Gone(d) \subseteq SensesOf(work[d].word)
          BY DEF Gone
        <4>3. rel[r].sense \in Gone(d) \/ rel[r].target \in Gone(d)
          BY <1>3, <4>1, <4>2 DEF Clear
        <4>4. QED
          BY <4>3 DEF LocksLink, Touched
      <3>4. QED
        BY <3>1, <3>2, <3>3 DEF LocksLink
    <2>4. ASSUME NEW r \in Rels PROVE LocksLink(d, r) => LocksLink(d, r)'
      <3>1. ASSUME LocksLink(d, r) PROVE LocksLink(d, r)'
        <4>1. rel'[r] = rel[r]
          BY <1>3, <3>1 DEF Clear
        <4>2. CASE r \in Written(d)
          BY <2>2, <4>2 DEF LocksLink
        <4>3. CASE HasDeleted(d) /\ r \in LinksOf(work[d].word) \ Carried(work[d].body)
          BY <1>1, <2>1, <4>1, <4>3 DEF LocksLink, LinksOf, Same, Carried
        <4>4. CASE r \in Touched({}, Gone(d))
          BY <2>2, <4>1, <4>4 DEF LocksLink, Touched
        <4>5. QED
          BY <3>1, <4>2, <4>3, <4>4 DEF LocksLink
      <3>2. QED
        BY <3>1
    <2>5. ASSUME NEW r \in Written(d) PROVE RowOf(d, r)' = RowOf(d, r) /\ rel'[r] = rel[r]
      <3>1. r \in Rels /\ LocksLink(d, r)
        BY SetsOf
      <3>2. rel'[r] = rel[r]
        BY <1>3, <3>1 DEF Clear
      <3>3. QED
        BY <2>2, <3>1, <3>2 DEF RowOf, Remaining, Same
    <2>6. QED
      BY <1>1, <2>2, <2>3, <2>4, <2>5 DEF Steady
  <1>4. QED
    BY <1>2, <1>3

\* What it is to write stays possible, and senses leave their entries only for good.
Secure(d) ==
    /\ \A s \in New(d) : sense'[s] = None
    /\ \A r \in Written(d) :
          /\ RowOf(d, r).word # None => Live(RowOf(d, r).word)'
          /\ RowOf(d, r).target # None => SeenIn(d, RowOf(d, r).target)' # None
    /\ \A s \in Senses : sense'[s] # sense[s] => sense[s] = None \/ s \in spent'
    /\ spent \subseteq spent'

LEMMA SecureKeepsCommittable ==
    ASSUME TypeOK, Control, Committable, NEW c \in Calls, Onward(c), Returned(c),
           \A d \in Others(c) : Steady(d) /\ Clear(d) /\ Secure(d)
    PROVE  Committable'
  <1>1. ~InTx(c)' /\ pc'[c] # "upsert"
    BY DEF Returned, InTx
  <1>2. New(c)' = {} /\ Written(c)' = {}
    BY <1>1, UnlockedAfter
  <1>3. ASSUME NEW d \in Others(c)
        PROVE  /\ \A s \in New(d)' : sense'[s] = None
               /\ \A r \in Written(d)' : Fits(d, r)'
               /\ pc'[d] = "upsert" => Resolved(d, work[d].body.links[work[d].rel])'
    <2>1. d \in Calls /\ Same(d) /\ Steady(d) /\ Clear(d) /\ Secure(d) /\ work[d] \in Work
      BY DEF Onward, Others, TypeOK
    <2>2. /\ Gone(d)' = Gone(d) /\ New(d)' = New(d) /\ Written(d)' = Written(d)
          /\ \A r \in Written(d) : RowOf(d, r)' = RowOf(d, r) /\ rel'[r] = rel[r]
      BY <2>1 DEF Steady
    <2>3. ASSUME NEW s \in Senses, NEW w \in Words \cup {None}, w # None,
                 SeenIn(d, s) = w \/ s \in spent
          PROVE  SeenIn(d, s)' = w \/ s \in spent'
      <3>1. CASE s \in spent
        BY <2>1, <3>1 DEF Secure
      <3>2. CASE SeenIn(d, s) = w
        BY <2>1, <2>2, <2>3, <3>2 DEF SeenIn, Same, Secure
      <3>3. QED
        BY <2>3, <3>1, <3>2
    <2>4. ASSUME NEW r \in Written(d) PROVE Fits(d, r)'
      <3>1. r \in Rels /\ Fits(d, r) /\ RowOf(d, r) \in Link /\ InTx(d)
        BY <2>1, RowTyped, SetsOf, Unlocked DEF Committable
      <3>2. /\ \/ r \in LinksOf(work[d].word) /\ rel[r].sense \notin Gone(d)
               \/ rel[r] = NoLink
            /\ rel'[r] = rel[r] /\ work'[d] = work[d]
            /\ SensesOf(work[d].word)' = SensesOf(work[d].word)
        BY <2>1, <2>2, <3>1 DEF Fits, Same, Clear
      <3>3. ((r \in LinksOf(work[d].word) /\ rel[r].sense \notin Gone(d)) \/ rel[r] = NoLink)'
        BY <2>2, <3>1, <3>2 DEF LinksOf, NoLink
      <3>4. RowOf(d, r).word # None => Live(RowOf(d, r).word)'
        BY <2>1 DEF Secure
      <3>5. ASSUME RowOf(d, r).target # None
            PROVE  /\ SeenIn(d, RowOf(d, r).target)' # None
                   /\ SeenIn(d, RowOf(d, r).target)' = RowOf(d, r).word
                         \/ RowOf(d, r).target \in spent'
        <4>1. SeenIn(d, RowOf(d, r).target)' # None
          BY <2>1, <3>5 DEF Secure
        <4>2. /\ SeenIn(d, RowOf(d, r).target) # None
              /\ SeenIn(d, RowOf(d, r).target) = RowOf(d, r).word \/ RowOf(d, r).target \in spent
          BY <3>1, <3>5 DEF Fits
        <4>3. RowOf(d, r).target \in Senses /\ RowOf(d, r).word \in Words \cup {None}
          BY <3>1, <3>5 DEF Link
        <4>4. CASE RowOf(d, r).target \in spent
          BY <2>1, <4>1, <4>4 DEF Secure
        <4>5. CASE RowOf(d, r).target \notin spent
          <5>1. PICK t \in Senses : t = RowOf(d, r).target
            BY <4>3
          <5>2. PICK w \in Words \cup {None} : w = RowOf(d, r).word
            BY <4>3
          <5>3. SeenIn(d, t) # None /\ SeenIn(d, t) = w
            BY <4>2, <4>5, <5>1, <5>2
          <5>4. SeenIn(d, t)' = w \/ t \in spent'
            BY <2>3, <5>3
          <5>5. QED
            <6>1. RowOf(d, r)' = RowOf(d, r)
              BY <2>2
            <6>2. SeenIn(d, RowOf(d, r).target)' = SeenIn(d, t)'
              BY <5>1, <6>1
            <6>3. QED
              BY <4>1, <5>1, <5>2, <5>4, <6>2
        <4>6. QED
          BY <4>4, <4>5
      <3>6. PICK row \in Link : row = RowOf(d, r)
        BY <3>1
      <3>7. RowOf(d, r)' = row
        BY <2>2, <3>6
      <3>8. QED
        BY <3>3, <3>4, <3>5, <3>6, <3>7 DEF Fits
    <2>5. ASSUME pc[d] = "upsert"
          PROVE  Resolved(d, work[d].body.links[work[d].rel])'
      <3>1. Resolved(d, work[d].body.links[work[d].rel])
        BY <2>1, <2>5 DEF Committable
      <3>2. work[d].rel \in Rels /\ work[d].body \in Bodies /\ work[d].rel \in Carried(work[d].body)
        BY <2>1, <2>5 DEF Control, Locals, HasInserted, Posted, InTx, Work
      <3>3. PICK l \in Link : l = work[d].body.links[work[d].rel]
        BY <3>2, BodiesAreTrees DEF Tree
      <3>4. l.target # None => l.word # None
        BY <3>2, <3>3 DEF Bodies
      <3>5. l.target # None => SeenIn(d, l.target)' = l.word \/ l.target \in spent'
        BY <2>3, <3>1, <3>3, <3>4 DEF Resolved, Link
      <3>6. (work[d].body.links[work[d].rel])' = l
        BY <2>1, <3>3 DEF Same
      <3>7. QED
        BY <3>5, <3>6 DEF Resolved
    <2>6. QED
      BY <2>1, <2>2, <2>4, <2>5 DEF Secure, Same
  <1>4. QED
    BY <1>1, <1>2, <1>3 DEF Committable, Others

\* An entry that is still there keeps its row and its tree, but for links that are cut.
Follows(v) ==
    Live(v)' =>
        /\ Live(v) /\ word'[v] = word[v]
        /\ SensesOf(v)' = SensesOf(v)
        /\ \A r \in Rels :
              /\ rel'[r].sense \in SensesOf(v) <=> rel[r].sense \in SensesOf(v)
              /\ rel[r].sense \in SensesOf(v) =>
                    /\ rel'[r].sense = rel[r].sense
                    /\ rel'[r].word \in {rel[r].word, None}
                    /\ rel'[r].target \in {rel[r].target, None}
                    /\ rel'[r].word # None /\ rel'[r].target = None
                          => r \in cut' \/ (rel[r].target = None /\ r \notin cut)

LEMMA FollowsKeepsTree ==
    ASSUME TypeOK, NEW v \in Words, Follows(v), Live(v)',
           NEW t \in Tree, SameButCut(TreeOf(v), t)
    PROVE  SameButCut(TreeOf(v)', t)
  <1> DEFINE now == TreeOf(v)
  <1>1. now.full = word[v].full /\ now.senses = SensesOf(v)
        /\ \A r \in Rels : now.links[r] = IF r \in LinksOf(v) THEN rel[r] ELSE NoLink
    BY DEF TreeOf
  <1>2. TreeOf(v)' = [full |-> word'[v].full, senses |-> SensesOf(v)',
                      links |-> [r \in Rels |-> IF r \in LinksOf(v)' THEN rel'[r] ELSE NoLink]]
    BY DEF TreeOf
  <1>3. /\ word'[v].full = word[v].full /\ SensesOf(v)' = SensesOf(v)
        /\ \A r \in Rels : r \in LinksOf(v)' <=> r \in LinksOf(v)
    BY DEF Follows, LinksOf
  <1>4. ASSUME NEW r \in Rels
        PROVE  /\ TreeOf(v)'.links[r].sense = now.links[r].sense
               /\ TreeOf(v)'.links[r].word \in {now.links[r].word, None}
               /\ TreeOf(v)'.links[r].target \in {now.links[r].target, None}
    <2>1. TreeOf(v)'.links[r] = IF r \in LinksOf(v) THEN rel'[r] ELSE NoLink
      BY <1>2, <1>3
    <2>2. CASE r \in LinksOf(v)
      BY <1>1, <2>1, <2>2 DEF Follows, LinksOf
    <2>3. CASE r \notin LinksOf(v)
      BY <1>1, <2>1, <2>3
    <2>4. QED
      BY <2>2, <2>3
  <1>5. /\ now.full = t.full /\ now.senses = t.senses
        /\ \A r \in Rels : /\ now.links[r].sense = t.links[r].sense
                           /\ now.links[r].word \in {t.links[r].word, None}
                           /\ now.links[r].target \in {t.links[r].target, None}
    BY DEF SameButCut
  <1>6. TreeOf(v)'.full = t.full /\ TreeOf(v)'.senses = t.senses
    BY <1>1, <1>2, <1>3, <1>5
  <1> HIDE DEF now
  <1>7. \A r \in Rels : /\ TreeOf(v)'.links[r].sense = t.links[r].sense
                        /\ TreeOf(v)'.links[r].word \in {t.links[r].word, None}
                        /\ TreeOf(v)'.links[r].target \in {t.links[r].target, None}
    BY <1>4, <1>5
  <1>8. QED
    BY <1>6, <1>7 DEF SameButCut

LEMMA FollowsKeepsPublishable ==
    ASSUME TypeOK, NEW v \in Words, Follows(v), Live(v)', Publishable(v)
    PROVE  Publishable(v)'
  <1>1. word'[v].full
    BY DEF Follows, Publishable
  <1>2. ASSUME NEW r \in Rels, rel'[r].sense \in SensesOf(v)',
               rel'[r].word # None, rel'[r].target = None
        PROVE  r \in cut'
    <2>1. /\ rel[r].sense \in SensesOf(v)
          /\ rel'[r].word \in {rel[r].word, None}
          /\ r \in cut' \/ (rel[r].target = None /\ r \notin cut)
      BY <1>2 DEF Follows
    <2>2. rel[r].word # None /\ rel[r].target = None => r \in cut
      BY <2>1 DEF Publishable, LinksOf
    <2>3. QED
      BY <1>2, <2>1, <2>2
  <1>3. QED
    BY <1>1, <1>2 DEF Publishable, LinksOf

\* If each entry follows or gets the call's token, then tokens go on to stand for what
\* was read.
LEMMA FollowsKeepsPins ==
    ASSUME IInv, NEW c \in Calls, pc[c] # "done", Onward(c), Returned(c),
           \A v \in Words : Follows(v) \/ word'[v].token = c,
           \A d \in Others(c) : InTx(d) => AsRead(d)'
    PROVE  TokenPins' /\ CheckStands'
  <1>1. TypeOK /\ Control /\ FreshTokens /\ TokenPins /\ CheckStands
    BY DEF IInv
  <1>2. ~InTx(c)' /\ ~Reading(c)' /\ ~Posted(c)' /\ pc'[c] # "flip"
    BY DEF Returned, InTx, Reading, Posted
  <1> DEFINE Pinned(d) ==
                /\ InTx(d) => AsRead(d)
                /\ Reading(d) /\ AsRead(d) =>
                      work[d].seen \in Tree /\ SameButCut(TreeOf(work[d].word), work[d].seen)
                /\ Posted(d) /\ AsRead(d) /\ word[work[d].word].status = "published"
                      => Complete(work[d].body)
                /\ pc[d] = "flip" /\ AsRead(d) => Publishable(work[d].word)
  <1>3. ASSUME NEW d \in Others(c) PROVE Pinned(d)'
    <2>1. d \in Calls /\ Same(d) /\ Locals(d) /\ Pinned(d)
      BY <1>1 DEF Onward, Others, Control, TokenPins, CheckStands
    <2>2. /\ (InTx(d)' <=> InTx(d)) /\ (Reading(d)' <=> Reading(d)) /\ (Posted(d)' <=> Posted(d))
          /\ work'[d] = work[d] /\ pc'[d] = pc[d]
      BY <2>1 DEF Same, InTx, Reading, Posted
    <2>3. Posted(d) \/ pc[d] = "flip" => Reading(d)
      BY DEF Posted, Reading
    <2>4. CASE ~(Reading(d) /\ AsRead(d)')
      BY <2>2, <2>3, <2>4
    <2>5. CASE Reading(d) /\ AsRead(d)'
      <3>1. PICK v \in Words : v = work[d].word
        BY <2>1, <2>5 DEF Locals
      <3>2. Live(v)' /\ word'[v].token = work[d].base
        BY <2>2, <2>5, <3>1 DEF AsRead
      <3>3. word'[v].token # c
        BY <1>1, <2>1, <3>2 DEF FreshTokens
      <3>4. Follows(v) /\ Live(v) /\ word'[v] = word[v]
        BY <3>2, <3>3 DEF Follows
      <3>5. AsRead(d)
        BY <3>1, <3>2, <3>4 DEF AsRead
      <3>6. PICK t \in Tree : t = work[d].seen /\ SameButCut(TreeOf(v), t)
        BY <2>1, <2>5, <3>1, <3>5
      <3>7. SameButCut(TreeOf(v)', t)
        BY <1>1, <3>2, <3>4, <3>6, FollowsKeepsTree
      <3>8. (work[d].seen \in Tree /\ SameButCut(TreeOf(work[d].word), work[d].seen))'
        <4>1. work'[d].seen = t /\ work'[d].word = v
          BY <2>2, <3>1, <3>6
        <4>2. SameButCut(TreeOf(v), t)'
          BY <3>7 DEF SameButCut
        <4>3. t \in Tree'
          BY <3>6 DEF Tree, Link
        <4>4. QED
          BY <4>1, <4>2, <4>3
      <3>9. (Posted(d) /\ word[work[d].word].status = "published" => Complete(work[d].body))'
        BY <2>1, <2>2, <3>1, <3>4, <3>5 DEF Complete
      <3>10. (pc[d] = "flip" => Publishable(work[d].word))'
        <4>1. pc[d] = "flip" => Publishable(v)
          BY <2>1, <3>1, <3>5
        <4>2. pc[d] = "flip" => Publishable(v)'
          BY <1>1, <3>2, <3>4, <4>1, FollowsKeepsPublishable
        <4>3. QED
          BY <2>2, <3>1, <4>2
      <3>11. QED
        BY <2>2, <2>5, <3>8, <3>9, <3>10
    <2>6. QED
      BY <2>4, <2>5
  <1>4. Pinned(c)'
    BY <1>2
  <1>5. \A d \in Calls : Pinned(d)'
    BY <1>3, <1>4 DEF Others
  <1>6. QED
    BY <1>5 DEF TokenPins, CheckStands

LEMMA FollowsKeepsPublished ==
    ASSUME TypeOK, PublishedComplete, NEW v \in Words, Follows(v), Live(v)',
           word'[v].status = "published"
    PROVE  Publishable(v)'
  <1>1. Live(v) /\ word[v].status = "published"
    BY DEF Follows
  <1>2. Publishable(v)
    BY <1>1 DEF PublishedComplete, Publishable
  <1>3. QED
    BY <1>2, FollowsKeepsPublishable

LEMMA StampKeepsInvariant ==
    ASSUME IInv, NEW c \in Calls, Insert(c) \/ SetStatus(c)
    PROVE  IInv'
  <1>1. CASE Going(c)
    BY <1>1, GoingKeepsInvariant
  <1>2. CASE ~Going(c)
    <2>1. PICK w \in Words : w = work[c].word /\ Stamped(c, w)
      BY <1>2, StampMoves DEF Stamped
    <2>2. Onward(c) /\ Returned(c) /\ pc[c] # "done"
      BY <1>2, <2>1, StampMoves DEF Stamped
    <2>3. /\ TypeOK /\ Control /\ Exclusion /\ Committable /\ TokenPins /\ PublishedComplete
      BY DEF IInv
    <2>4. PICK row \in Word :
              /\ word' = [word EXCEPT ![w] = row]
              /\ row.state = "live" /\ row.token = c
              /\ row.status = "published" => row.full = word[w].full /\ Publishable(w)
      BY <2>1 DEF Stamped
    <2>5. sense' = sense /\ rel' = rel /\ spent' = spent /\ cut' = cut
      BY <2>1 DEF Stamped
    <2>6. word'[w] = row /\ \A v \in Words : v # w => word'[v] = word[v]
      BY <2>3, <2>4 DEF TypeOK
    <2>7. ASSUME NEW d \in Others(c) PROVE Steady(d) /\ Clear(d) /\ Secure(d)
      <3>1. d \in Calls /\ Same(d) /\ Locals(d)
        BY <2>2, <2>3 DEF Onward, Others, Control
      <3>2. Steady(d)
        BY <2>5, <3>1, KeptNodes
      <3>3. Clear(d)
        BY <2>5, <3>1 DEF Clear, SensesOf, Same
      <3>4. Secure(d)
        <4>1. \A s \in New(d) : sense'[s] = None
          BY <2>3, <2>5, <3>1 DEF Committable
        <4>2. \A v : Live(v) => Live(v)'
          BY <2>4, <2>6 DEF Live
        <4>3. ASSUME NEW r \in Written(d)
              PROVE  /\ RowOf(d, r).word # None => Live(RowOf(d, r).word)'
                     /\ RowOf(d, r).target # None => SeenIn(d, RowOf(d, r).target)' # None
          <5>1. r \in Rels /\ Fits(d, r) /\ RowOf(d, r) \in Link
            BY <2>3, <3>1, RowTyped, SetsOf DEF Committable
          <5>2. RowOf(d, r)' = RowOf(d, r) /\ \A s \in Senses : SeenIn(d, s)' = SeenIn(d, s)
            BY <2>5, <3>1, <5>1, KeptNodes
          <5>3. QED
            BY <4>2, <5>1, <5>2 DEF Fits, Link
        <4>4. QED
          BY <2>5, <4>1, <4>3 DEF Secure
      <3>5. QED
        BY <3>2, <3>3, <3>4
    <2>8. Exclusion' /\ Committable'
      BY <2>2, <2>3, <2>7, SteadyKeepsApart, SecureKeepsCommittable
    <2>9. ASSUME NEW v \in Words PROVE Follows(v) \/ word'[v].token = c
      <3>1. CASE v = w
        BY <2>4, <2>6, <3>1
      <3>2. CASE v # w
        BY <2>5, <2>6, <3>2 DEF Follows, Live, SensesOf
      <3>3. QED
        BY <3>1, <3>2
    <2>10. ASSUME NEW d \in Others(c), InTx(d) PROVE AsRead(d)'
      <3>1. d \in Calls /\ work[d].word # w /\ work'[d] = work[d]
        BY <2>1, <2>2, <2>10 DEF Stamped, Onward, Others, Same
      <3>2. AsRead(d) /\ work[d].word \in Words
        BY <2>3, <2>10, <3>1 DEF TokenPins, AsRead, Live
      <3>3. QED
        BY <2>6, <3>1, <3>2 DEF AsRead, Live
    <2>11. TokenPins' /\ CheckStands'
      BY <2>2, <2>9, <2>10, FollowsKeepsPins
    <2>12. PublishedComplete'
      <3>1. ASSUME NEW v \in Words, Live(v)', word'[v].status = "published"
            PROVE  Publishable(v)'
        <4>1. CASE v = w
          BY <2>4, <2>5, <2>6, <3>1, <4>1 DEF Publishable, LinksOf, SensesOf
        <4>2. CASE v # w
          <5>1. Follows(v)
            BY <2>5, <2>6, <4>2 DEF Follows, Live, SensesOf
          <5>2. QED
            BY <2>3, <3>1, <5>1, FollowsKeepsPublished
        <4>3. QED
          BY <4>1, <4>2
      <3>2. QED
        BY <3>1 DEF PublishedComplete, Publishable
    <2>13. QED
      BY <2>1, <2>2, <2>8, <2>11, <2>12, StampKeepsNodes DEF IInv
  <1>3. QED
    BY <1>1, <1>2

-----------------------------------------------------------------------------
(* COMMIT.                                                                 *)

\* What becomes of a sense, and of a relation.
SenseSaved(c, s) ==
    \/ s \in work[c].body.senses /\ sense'[s] = work[c].word /\ sense[s] \in {work[c].word, None}
    \/ /\ s \notin work[c].body.senses /\ s \in Gone(c)
       /\ sense[s] = work[c].word /\ sense'[s] = None /\ s \in spent'
    \/ /\ s \notin work[c].body.senses /\ s \notin Gone(c)
       /\ sense[s] # work[c].word /\ sense'[s] = sense[s]

LinkSaved(c, r) ==
    \/ /\ r \in Carried(work[c].body) /\ r \in Written(c) /\ Fits(c, r)
       /\ rel'[r] = RowOf(c, r) /\ RowOf(c, r) \in Link
       /\ rel'[r].sense = work[c].body.links[r].sense /\ rel'[r].sense \in work[c].body.senses
    \/ /\ r \notin Carried(work[c].body) /\ r \in LinksOf(work[c].word)
       /\ rel'[r] = NoLink
    \/ /\ r \notin Carried(work[c].body) /\ r \notin LinksOf(work[c].word)
       /\ rel'[r] \in Link
       /\ rel'[r].sense = rel[r].sense /\ rel'[r].word = rel[r].word
       /\ rel'[r].target = IF rel[r].target \in Gone(c) THEN None ELSE rel[r].target
       /\ rel[r] = NoLink => rel'[r] = NoLink
       /\ rel[r].target \notin Gone(c) => rel'[r] = rel[r]

LEMMA CommitMoves ==
    ASSUME IInv, NEW c \in Calls, Commit(c)
    PROVE  /\ Onward(c) /\ Returned(c) /\ pc[c] = "commit" /\ InTx(c) /\ HasInserted(c)
           /\ AsRead(c) /\ work[c].body \in Bodies
           /\ work[c].word \in Words /\ work[c].word # None
           /\ Live(work[c].word) /\ Written(c) = Carried(work[c].body)
  <1>1. TypeOK /\ Control /\ TokenPins
    BY DEF IInv
  <1>2. pc[c] = "commit" /\ Return(c)
    BY DEF Commit
  <1>3. InTx(c) /\ HasInserted(c)
    BY <1>2 DEF InTx, HasInserted
  <1>4. work[c].body \in Bodies /\ work[c].todo = {} /\ work[c].word \in Words
    BY <1>1, <1>2, <1>3 DEF Control, Locals, Posted, Reading
  <1>5. AsRead(c)
    BY <1>1, <1>3 DEF TokenPins
  <1>6. QED
    BY <1>1, <1>2, <1>3, <1>4, <1>5, ReturnMoves, WordAssumption DEF AsRead, Written

LEMMA CommitSenses ==
    ASSUME IInv, NEW c \in Calls, Commit(c), NEW s \in Senses
    PROVE  SenseSaved(c, s) /\ spent \subseteq spent'
  <1> DEFINE w == work[c].word
  <1>1. w \in Words /\ w # None /\ HasInserted(c) /\ HasDeleted(c)
    BY CommitMoves DEF HasInserted, HasDeleted
  <1>2. /\ sense'[s] = IF s \in work[c].body.senses THEN w
                       ELSE IF s \in Gone(c) THEN None ELSE sense[s]
        /\ spent' = spent \cup Gone(c)
    BY DEF Commit
  <1>3. Gone(c) = SensesOf(w) \ work[c].body.senses /\ New(c) = work[c].body.senses \ SensesOf(w)
    BY <1>1 DEF Gone, New
  <1>4. s \in SensesOf(w) <=> sense[s] = w
    BY DEF SensesOf
  <1>5. s \in New(c) => sense[s] = None
    BY DEF IInv, Committable
  <1>6. QED
    BY <1>2, <1>3, <1>4, <1>5 DEF SenseSaved

LEMMA CommitLinks ==
    ASSUME IInv, NEW c \in Calls, Commit(c), NEW r \in Rels
    PROVE  LinkSaved(c, r)
  <1> DEFINE w == work[c].word
             body == work[c].body
  <1>1. /\ w \in Words /\ HasInserted(c) /\ HasDeleted(c) /\ body \in Bodies /\ body \in Tree
        /\ Written(c) = Carried(body)
    BY CommitMoves, BodiesAreTrees DEF HasInserted, HasDeleted
  <1>2. rel'[r] = IF r \in Carried(body) THEN RowOf(c, r)
                  ELSE IF r \in LinksOf(w) THEN NoLink ELSE Remaining({}, Gone(c))[r]
    BY DEF Commit
  <1>3. TypeOK /\ Committable
    BY DEF IInv
  <1>4. rel[r] \in Link
    BY <1>3 DEF TypeOK
  <1>5. CASE r \in Carried(body)
    <2>1. Fits(c, r) /\ RowOf(c, r) \in Link
      BY <1>1, <1>3, <1>5, RowTyped DEF Committable
    <2>2. body.links[r].sense \in body.senses
      BY <1>1, <1>5 DEF Bodies
    <2>3. rel[r].sense \notin Gone(c)
      BY <2>1, NoneGone DEF Fits
    <2>4. RowOf(c, r).sense = body.links[r].sense
      BY <1>3, <2>3, OrphanRow, OtherRow
    <2>5. QED
      BY <1>1, <1>2, <1>5, <2>1, <2>2, <2>4 DEF LinkSaved
  <1>6. CASE r \notin Carried(body) /\ r \in LinksOf(w)
    BY <1>2, <1>6 DEF LinkSaved
  <1>7. CASE r \notin Carried(body) /\ r \notin LinksOf(w)
    <2>1. rel[r].sense \notin Gone(c)
      BY <1>7 DEF Gone, LinksOf
    <2>2. rel'[r] = [sense |-> rel[r].sense, word |-> rel[r].word,
                     target |-> IF rel[r].target \in Gone(c) THEN None ELSE rel[r].target]
      BY <1>2, <1>7, <2>1 DEF Remaining
    <2>3. rel'[r] \in Link
      BY <1>4, <2>2 DEF Link
    <2>4. rel[r] = NoLink => rel'[r] = NoLink
      BY <2>2, NoneGone DEF NoLink
    <2>5. rel[r].target \notin Gone(c) => rel'[r] = rel[r]
      BY <1>4, <2>2 DEF Link
    <2>6. QED
      BY <1>7, <2>2, <2>3, <2>4, <2>5 DEF LinkSaved
  <1>8. QED
    BY <1>5, <1>6, <1>7

\* The rows that change are those the transaction holds.
LEMMA CommitWritesWhatItHolds ==
    ASSUME IInv, NEW c \in Calls, Commit(c), NEW r \in Rels, ~LocksLink(c, r)
    PROVE  rel'[r] = rel[r]
  <1>1. HasDeleted(c) /\ r \notin Written(c)
    BY CommitMoves DEF HasInserted, HasDeleted, LocksLink
  <1>2. r \notin LinksOf(work[c].word) \ Carried(work[c].body) /\ rel[r].target \notin Gone(c)
    BY <1>1 DEF LocksLink, Touched
  <1>3. QED
    BY <1>1, <1>2, CommitLinks DEF LinkSaved

\* Relations of other entries.
LEMMA CommitElsewhere ==
    ASSUME IInv, NEW c \in Calls, Commit(c), NEW v \in Words, v # work[c].word
    PROVE  /\ SensesOf(v)' = SensesOf(v)
           /\ \A r \in Rels :
                 /\ rel'[r].sense \in SensesOf(v) <=> rel[r].sense \in SensesOf(v)
                 /\ rel[r].sense \in SensesOf(v) =>
                       /\ r \notin Carried(work[c].body) /\ r \notin LinksOf(work[c].word)
                       /\ rel'[r].sense = rel[r].sense
  <1> DEFINE w == work[c].word
  <1>1. v # None /\ w # None
    BY CommitMoves, WordAssumption
  <1>2. \A s \in Senses : sense'[s] = v <=> sense[s] = v
    BY <1>1, CommitSenses DEF SenseSaved
  <1>3. \A s \in Senses : s \in work[c].body.senses => sense[s] # v
    BY <1>1, CommitSenses DEF SenseSaved
  <1>4. SensesOf(v)' = SensesOf(v)
    BY <1>2 DEF SensesOf
  <1>5. ASSUME NEW r \in Rels
        PROVE  /\ rel'[r].sense \in SensesOf(v) <=> rel[r].sense \in SensesOf(v)
               /\ rel[r].sense \in SensesOf(v) =>
                     /\ r \notin Carried(work[c].body) /\ r \notin LinksOf(w)
                     /\ rel'[r].sense = rel[r].sense
    <2>1. None \notin SensesOf(v) /\ SensesOf(v) \cap SensesOf(w) = {}
      BY WordAssumption DEF SensesOf
    <2>2. CASE r \in Carried(work[c].body)
      <3>1. rel'[r].sense \in work[c].body.senses /\ Fits(c, r)
        BY <2>2, CommitLinks DEF LinkSaved
      <3>2. rel'[r].sense \notin SensesOf(v)
        BY <1>3, <3>1 DEF SensesOf
      <3>3. rel[r].sense \notin SensesOf(v)
        BY <2>1, <3>1 DEF Fits, LinksOf, NoLink
      <3>4. QED
        BY <3>2, <3>3
    <2>3. CASE r \notin Carried(work[c].body) /\ r \in LinksOf(w)
      <3>1. rel'[r].sense = None /\ rel[r].sense \in SensesOf(w)
        BY <2>3, CommitLinks DEF LinkSaved, NoLink, LinksOf
      <3>2. QED
        BY <2>1, <3>1
    <2>4. CASE r \notin Carried(work[c].body) /\ r \notin LinksOf(w)
      BY <2>4, CommitLinks DEF LinkSaved
    <2>5. QED
      BY <2>2, <2>3, <2>4
  <1>6. QED
    BY <1>4, <1>5

LEMMA CommitLeavesOthers ==
    ASSUME IInv, NEW c \in Calls, Commit(c), NEW d \in Others(c)
    PROVE  Clear(d) /\ Secure(d) /\ Steady(d) /\ (InTx(d) => AsRead(d)')
  <1> DEFINE w == work[c].word
  <1>1. TypeOK /\ Control /\ Exclusion /\ Committable /\ TokenPins
    BY DEF IInv
  <1>2. /\ Onward(c) /\ InTx(c) /\ w \in Words /\ Live(w)
        /\ Written(c) = Carried(work[c].body)
    BY CommitMoves
  <1>3. d \in Calls /\ c # d /\ Apart(c, d) /\ Apart(d, c) /\ Same(d) /\ Locals(d)
    BY <1>1, <1>2 DEF Others, Exclusion, Onward, Control
  <1>4. word' = [word EXCEPT ![w].full = work[c].body.full, ![w].token = c]
    BY DEF Commit
  <1>5. \A v \in Words : Live(v) => Live(v)'
    <2>1. ASSUME NEW v \in Words PROVE word'[v].state = word[v].state
      BY <1>1, <1>2, <1>4 DEF TypeOK, Word
    <2>2. QED
      BY <2>1 DEF Live
  <1>6. /\ \A s \in Senses : sense'[s] # sense[s] => sense[s] = None \/ s \in spent'
        /\ spent \subseteq spent'
    <2>1. spent \subseteq spent'
      BY DEF Commit
    <2>2. QED
      BY <2>1, CommitSenses DEF SenseSaved
  <1>7. CASE ~InTx(d)
    <2>1. New(d) = {} /\ Written(d) = {}
      BY <1>3, <1>7, Unlocked
    <2>2. Clear(d)
      BY <1>7 DEF Clear
    <2>3. Secure(d)
      BY <1>6, <2>1 DEF Secure
    <2>4. QED
      BY <1>3, <1>7, <2>2, <2>3, ClearIsSteady
  <1>8. CASE InTx(d)
    <2> DEFINE v == work[d].word
    <2>1. v \in Words /\ v # w
      BY <1>2, <1>3, <1>8 DEF Locals, Reading, Apart
    <2>2. ASSUME NEW r \in Rels, LocksLink(d, r) PROVE rel'[r] = rel[r]
      BY <1>3, <2>2, CommitWritesWhatItHolds DEF Apart
    <2>3. ASSUME NEW r \in Rels, rel'[r].target \in Gone(d) PROVE rel'[r].target = rel[r].target
      <3>1. None \notin Gone(d)
        BY <1>3, NoneGone
      <3>2. CASE r \in Carried(work[c].body)
        <4>1. rel'[r] = RowOf(c, r) /\ r \in Written(c) /\ rel'[r].target \in Senses
          BY <2>3, <3>2, <1>3, CommitLinks, SetsOf DEF LinkSaved
        <4>2. ~SharesSense(c, rel'[r].target)
          BY <1>3, <2>3, <4>1 DEF Apart
        <4>3. QED
          BY <4>1, <4>2 DEF SharesSense
      <3>3. CASE r \notin Carried(work[c].body) /\ r \in LinksOf(w)
        BY <2>3, <3>1, <3>3, CommitLinks DEF LinkSaved, NoLink
      <3>4. CASE r \notin Carried(work[c].body) /\ r \notin LinksOf(w)
        BY <2>3, <3>1, <3>4, CommitLinks DEF LinkSaved
      <3>5. QED
        BY <3>2, <3>3, <3>4
    <2>4. Clear(d)
      <3>1. PICK x \in Words : x = work[d].word /\ x # w
        BY <2>1
      <3>2. /\ SensesOf(x)' = SensesOf(x)
            /\ \A r \in Rels : rel'[r].sense \in SensesOf(x) => rel'[r].sense = rel[r].sense
        BY <3>1, CommitElsewhere
      <3>3. SensesOf(work[d].word)' = SensesOf(work[d].word)
        BY <1>3, <3>1, <3>2 DEF Same
      <3>4. QED
        BY <2>2, <2>3, <3>1, <3>2, <3>3 DEF Clear
    <2>5. Steady(d)
      BY <1>3, <2>4, ClearIsSteady
    <2>6. \A s \in New(d) : sense'[s] = None
      <3>1. ASSUME NEW s \in New(d) PROVE sense'[s] = None
        <4>1. sense[s] = None /\ s \in Senses
          BY <1>1, <1>3, SetsOf, BodiesAreTrees, <1>8 DEF Committable, Locals, Posted, Tree
        <4>2. s \notin New(c)
          BY <1>3 DEF Apart
        <4>3. w # None
          BY CommitMoves
        <4>4. s \notin work[c].body.senses
          BY <4>1, <4>2, <4>3, CommitMoves DEF New, SensesOf
        <4>5. QED
          BY <4>1, <4>4, CommitSenses DEF SenseSaved
      <3>2. QED
        BY <3>1
    <2>7. ASSUME NEW r \in Written(d)
          PROVE  /\ RowOf(d, r).word # None => Live(RowOf(d, r).word)'
                 /\ RowOf(d, r).target # None => SeenIn(d, RowOf(d, r).target)' # None
      <3>1. r \in Rels /\ Fits(d, r) /\ RowOf(d, r) \in Link /\ LocksLink(d, r)
        BY <1>1, <1>3, RowTyped, SetsOf DEF Committable
      <3>2. RowOf(d, r)' = RowOf(d, r) /\ Gone(d)' = Gone(d) /\ work'[d] = work[d]
        BY <1>3, <2>5 DEF Steady, Same
      <3>3. RowOf(d, r).word # None => Live(RowOf(d, r).word)'
        BY <1>5, <3>1, <3>2 DEF Fits, Link
      <3>4. ASSUME RowOf(d, r).target # None
            PROVE  SeenIn(d, RowOf(d, r).target)' # None
        <4>1. PICK t \in Senses : t = RowOf(d, r).target
          BY <3>1, <3>4 DEF Link
        <4>2. SeenIn(d, t) # None
          BY <3>1, <3>4, <4>1 DEF Fits
        <4>3. t \notin Gone(c)
          <5>1. CASE rel[r].target = t
            BY <1>3, <3>1, <5>1, SetsOf DEF Apart
          <5>2. CASE rel[r].target # t
            <6>1. SharesSense(d, t)
              BY <4>1, <5>2 DEF SharesSense
            <6>2. QED
              BY <1>3, <6>1 DEF Apart
          <5>3. QED
            BY <5>1, <5>2
        <4>4. sense[t] # None => sense'[t] # None
          BY <4>3, CommitSenses, CommitMoves DEF SenseSaved
        <4>5. SeenIn(d, t)' # None
          BY <3>2, <4>2, <4>4 DEF SeenIn
        <4>6. QED
          BY <3>2, <4>1, <4>5
      <3>5. QED
        BY <3>3, <3>4
    <2>8. Secure(d)
      BY <1>6, <2>6, <2>7 DEF Secure
    <2>9. AsRead(d)'
      <3>1. PICK x \in Words : x = work[d].word
        BY <2>1
      <3>2. AsRead(d) /\ x # w
        BY <1>1, <1>3, <1>8, <2>1, <3>1 DEF TokenPins
      <3>3. word'[x] = word[x]
        BY <1>1, <1>4, <3>2 DEF TypeOK
      <3>4. QED
        BY <1>3, <3>1, <3>2, <3>3 DEF AsRead, Live, Same
    <2>10. QED
      BY <2>4, <2>5, <2>8, <2>9
  <1>9. QED
    BY <1>7, <1>8

LEMMA CommitFollows ==
    ASSUME IInv, NEW c \in Calls, Commit(c), NEW v \in Words
    PROVE  Follows(v) \/ word'[v].token = c
  <1> DEFINE w == work[c].word
  <1>1. TypeOK
    BY DEF IInv
  <1>2. word' = [word EXCEPT ![w].full = work[c].body.full, ![w].token = c] /\ w \in Words
    BY CommitMoves DEF Commit
  <1>3. CASE v = w
    BY <1>1, <1>2, <1>3 DEF TypeOK, Word
  <1>4. CASE v # w
    <2>1. word'[v] = word[v]
      BY <1>1, <1>2, <1>4 DEF TypeOK
    <2>2. ASSUME NEW r \in Rels, rel[r].sense \in SensesOf(v)
          PROVE  /\ rel'[r].sense = rel[r].sense
                 /\ rel'[r].word \in {rel[r].word, None}
                 /\ rel'[r].target \in {rel[r].target, None}
                 /\ rel'[r].word # None /\ rel'[r].target = None
                       => r \in cut' \/ (rel[r].target = None /\ r \notin cut)
      <3>1. r \notin Carried(work[c].body) /\ r \notin LinksOf(w)
        BY <1>4, <2>2, CommitElsewhere
      <3>2. /\ rel'[r].sense = rel[r].sense /\ rel'[r].word = rel[r].word
            /\ rel'[r].target = IF rel[r].target \in Gone(c) THEN None ELSE rel[r].target
        BY <3>1, CommitLinks DEF LinkSaved
      <3>3. ASSUME rel'[r].word # None, rel'[r].target = None,
                   rel[r].target = None => r \in cut
            PROVE  r \in cut'
        <4>1. r \in cut \/ rel[r].target \in Gone(c)
          BY <3>2, <3>3
        <4>2. rel'[r] # NoLink
          BY <3>3 DEF NoLink
        <4>3. QED
          BY <3>1, <3>3, <4>1, <4>2 DEF Commit
      <3>4. QED
        BY <3>2, <3>3
    <2>3. QED
      BY <1>4, <2>1, <2>2, CommitElsewhere DEF Follows, Live
  <1>5. QED
    BY <1>3, <1>4

LEMMA CommitKeepsKeys ==
    ASSUME IInv, NEW c \in Calls, Commit(c)
    PROVE  TypeOK' /\ TargetsFit'
  <1> DEFINE w == work[c].word
             body == work[c].body
  <1>1. TypeOK /\ KeysHold /\ Committable /\ TargetsFit
    BY DEF IInv, TypeOK
  <1>2. /\ Onward(c) /\ w \in Words /\ w # None /\ Live(w) /\ body \in Tree /\ InTx(c)
        /\ HasInserted(c)
    BY CommitMoves, BodiesAreTrees
  <1>3. word' = [word EXCEPT ![w].full = body.full, ![w].token = c]
    BY DEF Commit
  <1>4. word' \in [Words -> Word] /\ \A v \in Words : Live(v) => Live(v)'
    <2>1. body.full \in BOOLEAN
      BY <1>2 DEF Tree
    <2>2. word[w] \in Word
      BY <1>1, <1>2 DEF TypeOK
    <2>3. word' \in [Words -> Word]
      <3>1. PICK full \in BOOLEAN : full = body.full
        BY <2>1
      <3>2. [word[w] EXCEPT !.full = full, !.token = c] \in Word
        BY <2>2 DEF Word
      <3>3. word' = [word EXCEPT ![w] = [word[w] EXCEPT !.full = full, !.token = c]]
        BY <1>1, <1>2, <1>3, <3>1 DEF TypeOK
      <3>4. QED
        BY <1>1, <3>2, <3>3 DEF TypeOK
    <2>4. ASSUME NEW v \in Words PROVE word'[v].state = word[v].state
      BY <1>1, <1>2, <1>3 DEF TypeOK, Word
    <2>5. QED
      BY <2>3, <2>4 DEF Live
  <1>5. sense' \in [Senses -> Words \cup {None}]
    BY <1>1, <1>2 DEF Commit, TypeOK
  <1>6. rel' \in [Rels -> Link]
    <2>1. \A r \in Rels : rel'[r] \in Link
      BY CommitLinks, NoWorkTyped DEF LinkSaved
    <2>2. \E f : rel' = [r \in Rels |-> f[r]]
      BY DEF Commit
    <2>3. QED
      BY <2>1, <2>2
  <1>7. spent' \subseteq Senses /\ cut' \subseteq Rels
    BY <1>1, SetsOf DEF Commit, TypeOK
  <1>8. \A s \in Senses : sense'[s] # None => Live(sense[s])'
    <2>1. ASSUME NEW s \in Senses, sense'[s] # None PROVE Live(sense[s])'
      <3>1. CASE sense'[s] = w
        BY <1>2, <1>4, <3>1
      <3>2. CASE sense'[s] # w
        <4>1. sense'[s] = sense[s]
          BY <2>1, <3>2, CommitSenses DEF SenseSaved
        <4>2. sense[s] \in Words /\ Live(sense[s])
          BY <1>1, <2>1, <4>1 DEF TypeOK, KeysHold
        <4>3. QED
          BY <1>4, <4>1, <4>2
      <3>3. QED
        BY <3>1, <3>2
    <2>2. QED
      BY <2>1
  <1>9. \A s \in Senses : sense[s] # None /\ s \notin Gone(c) => sense'[s] = sense[s]
    <2>1. ASSUME NEW s \in Senses, sense[s] # None, s \notin Gone(c) PROVE sense'[s] = sense[s]
      BY <2>1, CommitSenses DEF SenseSaved
    <2>2. QED
      BY <2>1
  <1>10. ASSUME NEW r \in Rels, rel'[r] # NoLink
         PROVE  /\ rel'[r].sense # None /\ sense'[rel'[r].sense] # None
                /\ rel'[r].word # None => Live(rel[r].word)'
                /\ rel'[r].target # None =>
                      /\ sense'[rel'[r].target] # None
                      /\ sense'[rel'[r].target] = rel'[r].word \/ rel'[r].target \in spent'
    <2>1. CASE r \in Carried(body)
      <3>1. /\ Fits(c, r) /\ RowOf(c, r) \in Link /\ rel'[r] = RowOf(c, r)
            /\ rel'[r].sense \in body.senses
        BY <2>1, CommitLinks DEF LinkSaved
      <3>2. PICK row \in Link : row = RowOf(c, r)
        BY <3>1
      <3>3. rel'[r] = row
        BY <3>1, <3>2
      <3>4. row.sense \in Senses /\ sense'[row.sense] = w
        BY <1>2, <3>1, <3>3, CommitSenses DEF SenseSaved, Tree
      <3>5. row.word # None => row.word \in Words /\ Live(row.word)
        BY <3>1, <3>2 DEF Fits, Link
      <3>6. ASSUME row.target # None
            PROVE  /\ sense'[row.target] # None
                   /\ sense'[row.target] = row.word \/ row.target \in spent'
        <4>1. PICK t \in Senses : t = row.target
          BY <3>2, <3>6 DEF Link
        <4>2. SeenIn(c, t) # None /\ (SeenIn(c, t) = row.word \/ t \in spent)
          BY <3>1, <3>2, <3>6, <4>1 DEF Fits
        <4>3. sense'[t] = SeenIn(c, t)
          BY <4>2, CommitSenses DEF SeenIn, SenseSaved
        <4>4. spent \subseteq spent'
          BY DEF Commit
        <4>5. QED
          BY <4>1, <4>2, <4>3, <4>4
      <3>7. row.sense # None
        BY <3>4, WordAssumption
      <3>8. row.word # None => Live(row.word)'
        BY <1>4, <3>5
      <3>9. QED
        BY <1>2, <3>3, <3>4, <3>6, <3>7, <3>8
    <2>2. CASE r \notin Carried(body) /\ r \in LinksOf(w)
      BY <1>10, <2>2, CommitLinks DEF LinkSaved
    <2>3. CASE r \notin Carried(body) /\ r \notin LinksOf(w)
      <3>1. /\ rel'[r].sense = rel[r].sense /\ rel'[r].word = rel[r].word
            /\ rel'[r].target = IF rel[r].target \in Gone(c) THEN None ELSE rel[r].target
            /\ rel[r] # NoLink
        BY <1>10, <2>3, CommitLinks DEF LinkSaved
      <3>2. PICK row \in Link : row = rel[r]
        BY <1>1 DEF TypeOK
      <3>3. /\ row.sense \in Senses /\ sense[row.sense] # None
            /\ row.word # None => row.word \in Words /\ Live(row.word)
            /\ row.target # None => row.target \in Senses /\ sense[row.target] # None
        BY <1>1, <3>1, <3>2 DEF KeysHold, Link
      <3>4. row.sense \notin Gone(c)
        BY <2>3, <3>2 DEF LinksOf, Gone
      <3>5. sense'[row.sense] # None /\ row.sense # None
        BY <1>9, <3>3, <3>4, WordAssumption
      <3>6. row.word # None => Live(row.word)'
        BY <1>4, <3>3
      <3>7. ASSUME rel'[r].target # None
            PROVE  /\ rel'[r].target = row.target /\ sense'[row.target] # None
                   /\ sense'[row.target] = row.word \/ row.target \in spent'
        <4>1. rel'[r].target = row.target /\ row.target \notin Gone(c)
          BY <3>1, <3>2, <3>7
        <4>2. sense'[row.target] = sense[row.target] /\ sense[row.target] # None
          BY <1>9, <3>3, <3>7, <4>1
        <4>3. sense[row.target] = row.word \/ row.target \in spent
          BY <1>1, <3>2, <3>7, <4>1 DEF TargetsFit
        <4>4. spent \subseteq spent'
          BY DEF Commit
        <4>5. QED
          BY <4>1, <4>2, <4>3, <4>4
      <3>8. QED
        BY <3>1, <3>2, <3>5, <3>6, <3>7
    <2>4. QED
      BY <2>1, <2>2, <2>3
  <1>11. KeysHold'
    BY <1>8, <1>10 DEF KeysHold
  <1>12. TargetsFit'
    <2>1. ASSUME NEW r \in Rels, rel'[r].target # None
          PROVE  sense'[rel'[r].target] = rel'[r].word \/ rel'[r].target \in spent'
      <3>1. rel'[r] # NoLink
        BY <2>1 DEF NoLink
      <3>2. QED
        BY <1>10, <2>1, <3>1
    <2>2. QED
      BY <2>1 DEF TargetsFit
  <1>13. QED
    BY <1>2, <1>4, <1>5, <1>6, <1>7, <1>11, <1>12 DEF TypeOK, Onward

\* The body of a published entry was complete, and its orphans were what they are.
LEMMA CommitKeepsPublished ==
    ASSUME IInv, NEW c \in Calls, Commit(c)
    PROVE  PublishedComplete'
  <1>1. PICK w \in Words : w = work[c].word
    BY CommitMoves
  <1>2. PICK body \in Tree : body = work[c].body
    BY CommitMoves, BodiesAreTrees
  <1>3. TypeOK /\ KeysHold /\ Committable /\ PublishedComplete /\ TokenPins
    BY DEF IInv, TypeOK
  <1>4. w # None /\ Live(w) /\ InTx(c) /\ HasInserted(c) /\ AsRead(c)
    BY <1>1, CommitMoves
  <1>5. word' = [word EXCEPT ![w].full = body.full, ![w].token = c]
    BY <1>1, <1>2 DEF Commit
  <1>6. ASSUME word'[w].status = "published" PROVE Publishable(w)'
    <2>1. word'[w].full = body.full /\ word[w].status = "published"
      BY <1>3, <1>4, <1>5, <1>6 DEF TypeOK, Word
    <2>2. Complete(body)
      BY <1>1, <1>2, <1>3, <1>4, <2>1 DEF TokenPins, Posted
    <2>3. ASSUME NEW r \in Rels, rel'[r].sense \in SensesOf(w)',
                 rel'[r].word # None, rel'[r].target = None
          PROVE  r \in cut'
      <3>1. rel'[r] # NoLink
        BY <2>3 DEF NoLink
      <3>2. CASE r \in Carried(body)
        <4>1. Fits(c, r) /\ rel'[r] = RowOf(c, r)
          BY <1>2, <3>2, CommitLinks DEF LinkSaved
        <4>2. body.links[r].word = None
          <5>1. ASSUME body.links[r].word # None PROVE FALSE
            <6>1. rel'[r] = body.links[r]
              BY <1>2, <4>1, <5>1, OtherRow
            <6>2. QED
              BY <2>2, <2>3, <5>1, <6>1 DEF Complete
          <5>2. QED
            BY <5>1
        <4>3. rel[r].sense \notin Gone(c)
          BY <4>1, NoneGone DEF Fits
        <4>4. /\ rel[r].word # None
              /\ IF rel[r].target \in Gone(c) THEN TRUE ELSE rel[r].target = None
          BY <1>2, <1>3, <2>3, <4>1, <4>2, <4>3, OrphanRow
        <4>5. rel[r] # NoLink /\ r \in LinksOf(w)
          BY <1>1, <4>1, <4>4 DEF Fits, NoLink
        <4>6. rel[r].target \in Gone(c) \/ r \in cut
          BY <1>3, <1>4, <2>1, <4>4, <4>5 DEF PublishedComplete
        <4>7. QED
          BY <1>2, <2>3, <3>1, <4>2, <4>6 DEF Commit
      <3>3. CASE r \notin Carried(body) /\ r \in LinksOf(w)
        BY <1>1, <1>2, <3>1, <3>3, CommitLinks DEF LinkSaved
      <3>4. CASE r \notin Carried(body) /\ r \notin LinksOf(w)
        <4>1. rel'[r].sense = rel[r].sense /\ rel[r] # NoLink
          BY <1>2, <3>1, <3>4, CommitLinks DEF LinkSaved
        <4>2. PICK s \in Senses : s = rel[r].sense
          BY <1>3, <4>1 DEF KeysHold, TypeOK, Link
        <4>3. sense[s] # None /\ sense[s] # w
          BY <1>3, <3>4, <4>1, <4>2 DEF KeysHold, LinksOf, SensesOf
        <4>4. sense'[s] = w
          BY <2>3, <4>1, <4>2 DEF SensesOf
        <4>5. QED
          BY <1>4, <4>3, <4>4, CommitSenses DEF SenseSaved
      <3>5. QED
        BY <3>2, <3>3, <3>4
    <2>4. word'[w].full
      BY <2>1, <2>2 DEF Complete
    <2>5. QED
      BY <2>3, <2>4 DEF Publishable, LinksOf
  <1>7. ASSUME NEW v \in Words, Live(v)', word'[v].status = "published"
        PROVE  Publishable(v)'
    <2>1. CASE v = w
      <3>1. QED
        BY <1>6, <1>7, <2>1 DEF Publishable, LinksOf, SensesOf
    <2>2. CASE v # w
      <3>1. word'[v] = word[v]
        BY <1>3, <1>5, <2>2 DEF TypeOK
      <3>2. word[v].token # c
        BY CommitMoves DEF IInv, FreshTokens
      <3>3. Follows(v)
        BY <3>1, <3>2, CommitFollows
      <3>4. QED
        BY <1>3, <1>7, <3>3, FollowsKeepsPublished
    <2>3. QED
      BY <2>1, <2>2
  <1>8. QED
    BY <1>7 DEF PublishedComplete, Publishable

\* What every call that changes the tables and returns leaves as it is.
LEMMA ReturnKeepsCalls ==
    ASSUME IInv, NEW c \in Calls, pc[c] # "done", Onward(c), Returned(c),
           \A d \in Others(c) : pc[d] = "insert" => word'[work[d].word].state = "absent",
           \A v \in Words : word'[v].token \in {word[v].token, c, None}
    PROVE  Control' /\ OwnIds' /\ FreshTokens'
  <1>1. Control /\ OwnIds /\ FreshTokens
    BY DEF IInv
  <1>2. ASSUME NEW d \in Others(c) PROVE Locals(d)'
    <2>1. d \in Calls /\ Same(d) /\ Locals(d)
      BY <1>1, <1>2 DEF Onward, Others, Control
    <2>2. QED
      BY <2>1 DEF Locals, Same, Reading, Posted, InTx, HasInserted, Carried, Bodies
  <1>3. Locals(c)'
    BY DEF Returned, Locals, Reading, Posted, InTx, HasInserted
  <1>4. OwnIds'
    BY <1>1 DEF OwnIds, Onward, Others, Same, Returned
  <1>5. ASSUME NEW e \in Calls, pc'[e] # "done"
        PROVE  e # c /\ pc[e] # "done" /\ e # None
    BY <1>5, WordAssumption DEF Onward, Others, Same, Returned
  <1>6. ASSUME NEW e \in Calls, pc'[e] # "done", NEW v \in Words
        PROVE  word'[v].token # e
    BY <1>1, <1>5, <1>6 DEF FreshTokens
  <1>7. ASSUME NEW e \in Calls, pc'[e] # "done", NEW d \in Calls
        PROVE  work'[d].base # e
    BY <1>1, <1>5, <1>7 DEF FreshTokens, Onward, Others, Same, Returned, NoWork
  <1>8. QED
    BY <1>2, <1>3, <1>4, <1>6, <1>7 DEF Control, FreshTokens, Others

LEMMA CommitKeepsInvariant ==
    ASSUME IInv, NEW c \in Calls, Commit(c)
    PROVE  IInv'
  <1> DEFINE w == work[c].word
  <1>1. TypeOK /\ Control /\ Exclusion /\ Committable
    BY DEF IInv
  <1>2. Onward(c) /\ Returned(c) /\ pc[c] # "done" /\ w \in Words /\ Live(w)
    BY CommitMoves
  <1>3. \A d \in Others(c) : Clear(d) /\ Secure(d) /\ Steady(d) /\ (InTx(d) => AsRead(d)')
    BY CommitLeavesOthers
  <1>4. word' = [word EXCEPT ![w].full = work[c].body.full, ![w].token = c]
    BY DEF Commit
  <1>5. \A v \in Words : /\ word'[v].state = word[v].state
                         /\ word'[v].token \in {word[v].token, c, None}
    BY <1>1, <1>2, <1>4 DEF TypeOK, Word
  <1>6. \A d \in Others(c) : pc[d] = "insert" => word'[work[d].word].state = "absent"
    BY <1>1, <1>5 DEF Control, Locals, Others
  <1>7. Control' /\ OwnIds' /\ FreshTokens'
    BY <1>2, <1>5, <1>6, ReturnKeepsCalls
  <1>8. Exclusion' /\ Committable'
    BY <1>1, <1>2, <1>3, SteadyKeepsApart, SecureKeepsCommittable
  <1>9. TokenPins' /\ CheckStands'
    BY <1>2, <1>3, CommitFollows, FollowsKeepsPins
  <1>10. QED
    BY <1>7, <1>8, <1>9, CommitKeepsKeys, CommitKeepsPublished DEF IInv

-----------------------------------------------------------------------------
(* Entries are deleted.                                                    *)

\* What goes, and what holds it.
Dropped(c, words, senses) ==
    /\ \A w \in words : Live(w)
    /\ \A s \in Senses : s \in senses <=> sense[s] \in words
    /\ \A d \in Others(c) :
          /\ \A w \in words : ~LocksWord(d, w) /\ ~SharesWord(d, w)
          /\ \A s \in senses : ~SharesSense(d, s)
          /\ \A r \in Touched(words, senses) : ~LocksLink(d, r)
    /\ word' = [w \in Words |-> IF w \in words THEN [NoWord EXCEPT !.state = "gone"] ELSE word[w]]
    /\ sense' = [s \in Senses |-> IF s \in senses THEN None ELSE sense[s]]
    /\ rel' = Remaining(words, senses)
    /\ cut' = {r \in Rels : /\ rel'[r] # NoLink /\ rel'[r].target = None
                            /\ r \in cut \/ rel[r].target \in senses}
    /\ spent' = spent \cup senses

LEMMA DropMoves ==
    ASSUME IInv, NEW c \in Calls, Drop(c)
    PROVE  /\ Onward(c) /\ Returned(c) /\ pc[c] # "done"
           /\ \E words \in SUBSET Words, senses \in SUBSET Senses : Dropped(c, words, senses)
  <1> DEFINE words == {w \in work[c].batch : Live(w)}
             senses == UNION {SensesOf(w) : w \in words}
  <1>1. TypeOK
    BY DEF IInv
  <1>2. Onward(c) /\ Returned(c) /\ pc[c] # "done"
    BY <1>1, ReturnMoves DEF Drop
  <1>3. words \in SUBSET Words /\ senses \in SUBSET Senses /\ \A w \in words : Live(w)
    BY DEF Live, SensesOf
  <1>4. \A s \in Senses : s \in senses <=> sense[s] \in words
    BY DEF SensesOf
  <1>5. Dropped(c, words, senses)
    BY <1>3, <1>4 DEF Drop, Dropped
  <1>6. QED
    BY <1>2, <1>3, <1>5

\* What a deletion leaves of a relation whose sense stays.
LEMMA LinkRemains ==
    ASSUME TypeOK, NEW words \in SUBSET Words, NEW senses \in SUBSET Senses,
           rel' = Remaining(words, senses), NEW r \in Rels, rel[r].sense \notin senses
    PROVE  /\ rel'[r] \in Link /\ rel'[r].sense = rel[r].sense
           /\ rel'[r].word = IF rel[r].word \in words THEN None ELSE rel[r].word
           /\ rel'[r].target = IF rel[r].target \in senses THEN None ELSE rel[r].target
  <1>1. rel[r] \in Link
    BY DEF TypeOK
  <1>2. rel'[r] = [sense  |-> rel[r].sense,
                   word   |-> IF rel[r].word \in words THEN None ELSE rel[r].word,
                   target |-> IF rel[r].target \in senses THEN None ELSE rel[r].target]
    BY DEF Remaining
  <1>3. rel'[r] \in Link
    BY <1>1, <1>2 DEF Link
  <1>4. QED
    BY <1>2, <1>3

LEMMA DropLinks ==
    ASSUME TypeOK, NEW c \in Calls, NEW words \in SUBSET Words, NEW senses \in SUBSET Senses,
           Dropped(c, words, senses), NEW r \in Rels
    PROVE  \/ rel[r].sense \in senses /\ rel'[r] = NoLink
           \/ /\ rel[r].sense \notin senses /\ rel'[r] \in Link
              /\ rel'[r].sense = rel[r].sense
              /\ rel'[r].word = IF rel[r].word \in words THEN None ELSE rel[r].word
              /\ rel'[r].target = IF rel[r].target \in senses THEN None ELSE rel[r].target
              /\ rel[r] = NoLink => rel'[r] = NoLink
              /\ r \notin Touched(words, senses) => rel'[r] = rel[r]
  <1>1. rel[r] \in Link /\ rel' = Remaining(words, senses)
    BY DEF TypeOK, Dropped
  <1>2. CASE rel[r].sense \in senses
    BY <1>1, <1>2 DEF Remaining
  <1>3. CASE rel[r].sense \notin senses
    <2>1. /\ rel'[r] \in Link /\ rel'[r].sense = rel[r].sense
          /\ rel'[r].word = IF rel[r].word \in words THEN None ELSE rel[r].word
          /\ rel'[r].target = IF rel[r].target \in senses THEN None ELSE rel[r].target
      BY <1>1, <1>3, LinkRemains
    <2>2. rel[r] = NoLink => rel'[r] = NoLink
      BY <2>1 DEF NoLink, Link
    <2>3. r \notin Touched(words, senses) => rel'[r] = rel[r]
      BY <1>1, <2>1 DEF Touched, Link
    <2>4. QED
      BY <1>3, <2>1, <2>2, <2>3
  <1>4. QED
    BY <1>2, <1>3

LEMMA DropLeavesOthers ==
    ASSUME IInv, NEW c \in Calls, NEW words \in SUBSET Words, NEW senses \in SUBSET Senses,
           Dropped(c, words, senses), Onward(c), NEW d \in Others(c)
    PROVE  Clear(d) /\ Secure(d) /\ Steady(d) /\ (InTx(d) => AsRead(d)')
  <1>1. TypeOK /\ Control /\ Exclusion /\ Committable /\ TokenPins
    BY DEF IInv
  <1>2. d \in Calls /\ Same(d) /\ Locals(d)
    BY <1>1 DEF Others, Onward, Control
  <1>3. /\ \A s \in Senses : sense'[s] = IF s \in senses THEN None ELSE sense[s]
        /\ \A s \in Senses : s \in senses <=> sense[s] \in words
        /\ \A w \in words : ~LocksWord(d, w) /\ ~SharesWord(d, w)
        /\ \A s \in senses : ~SharesSense(d, s)
        /\ \A r \in Touched(words, senses) : ~LocksLink(d, r)
    BY DEF Dropped
  <1>4. /\ \A s \in Senses : sense'[s] # sense[s] => sense[s] = None \/ s \in spent'
        /\ spent \subseteq spent'
    BY DEF Dropped
  <1>5. None \notin words /\ None \notin senses
    BY WordAssumption
  <1>6. CASE ~InTx(d)
    <2>1. New(d) = {} /\ Written(d) = {}
      BY <1>2, <1>6, Unlocked
    <2>2. Clear(d)
      BY <1>6 DEF Clear
    <2>3. Secure(d)
      BY <1>4, <2>1 DEF Secure
    <2>4. QED
      BY <1>2, <1>6, <2>2, <2>3, ClearIsSteady
  <1>7. CASE InTx(d)
    <2>1. PICK v \in Words : v = work[d].word
      BY <1>2, <1>7 DEF Locals, Reading
    <2>2. v \notin words /\ v # None
      BY <1>3, <1>7, <2>1, WordAssumption DEF LocksWord
    <2>3. SensesOf(v)' = SensesOf(v)
      BY <1>3, <2>2 DEF SensesOf
    <2>4. ASSUME NEW r \in Rels, LocksLink(d, r)
          PROVE  rel'[r] = rel[r]
      <3>1. r \notin Touched(words, senses)
        BY <1>3, <2>4
      <3>2. rel[r].sense \notin senses
        BY <3>1 DEF Touched
      <3>3. QED
        BY <1>1, <3>1, <3>2, DropLinks
    <2>5. Clear(d)
      <3>1. SensesOf(work[d].word)' = SensesOf(work[d].word)
        BY <1>2, <2>1, <2>3 DEF Same
      <3>2. ASSUME NEW r \in Rels
            PROVE  /\ rel'[r].sense \in SensesOf(work[d].word) => rel'[r].sense = rel[r].sense
                   /\ rel'[r].target \in Gone(d) => rel'[r].target = rel[r].target
        <4>1. None \notin SensesOf(work[d].word) /\ None \notin Gone(d)
          BY <1>2, NoneGone, WordAssumption DEF SensesOf
        <4>2. NoLink.sense = None /\ NoLink.target = None
          BY DEF NoLink
        <4>3. QED
          BY <1>1, <4>1, <4>2, DropLinks
      <3>3. QED
        BY <2>4, <3>1, <3>2 DEF Clear
    <2>6. Steady(d)
      BY <1>2, <2>5, ClearIsSteady
    <2>7. \A s \in New(d) : sense'[s] = None
      <3>1. ASSUME NEW s \in New(d) PROVE sense'[s] = None
        <4>1. sense[s] = None /\ s \in Senses
          BY <1>1, <1>2, <1>7, SetsOf, BodiesAreTrees DEF Committable, Locals, Posted, Tree
        <4>2. QED
          BY <1>3, <4>1
      <3>2. QED
        BY <3>1
    <2>8. ASSUME NEW r \in Written(d)
          PROVE  /\ RowOf(d, r).word # None => Live(RowOf(d, r).word)'
                 /\ RowOf(d, r).target # None => SeenIn(d, RowOf(d, r).target)' # None
      <3>1. r \in Rels /\ Fits(d, r) /\ LocksLink(d, r) /\ r \notin Touched(words, senses)
        BY <1>1, <1>2, <1>3, SetsOf DEF Committable
      <3>2. PICK row \in Link : row = RowOf(d, r)
        BY <1>1, <1>2, <3>1, RowTyped
      <3>3. RowOf(d, r)' = row /\ Gone(d)' = Gone(d) /\ work'[d] = work[d]
        BY <1>2, <2>6, <3>2 DEF Steady, Same
      <3>4. ASSUME row.word # None PROVE Live(row.word)'
        <4>1. row.word \in Words /\ Live(row.word)
          BY <3>1, <3>2, <3>4 DEF Fits, Link
        <4>2. row.word \notin words
          <5>1. CASE rel[r].word = row.word
            BY <3>1, <5>1 DEF Touched
          <5>2. CASE rel[r].word # row.word
            <6>1. SharesWord(d, row.word)
              BY <3>2, <5>2 DEF SharesWord
            <6>2. QED
              BY <1>3, <6>1
          <5>3. QED
            BY <5>1, <5>2
        <4>3. word'[row.word] = word[row.word]
          BY <4>1, <4>2 DEF Dropped
        <4>4. QED
          BY <4>1, <4>3 DEF Live
      <3>5. ASSUME row.target # None PROVE SeenIn(d, row.target)' # None
        <4>1. PICK t \in Senses : t = row.target
          BY <3>2, <3>5 DEF Link
        <4>2. SeenIn(d, t) # None
          BY <3>1, <3>2, <3>5, <4>1 DEF Fits
        <4>3. t \notin senses
          <5>1. CASE rel[r].target = t
            BY <3>1, <5>1 DEF Touched
          <5>2. CASE rel[r].target # t
            <6>1. SharesSense(d, t)
              BY <3>2, <4>1, <5>2 DEF SharesSense
            <6>2. QED
              BY <1>3, <6>1
          <5>3. QED
            BY <5>1, <5>2
        <4>4. SeenIn(d, t)' # None
          BY <1>3, <3>3, <4>2, <4>3 DEF SeenIn
        <4>5. QED
          BY <4>1, <4>4
      <3>6. QED
        BY <3>2, <3>3, <3>4, <3>5
    <2>9. Secure(d)
      BY <1>4, <2>7, <2>8 DEF Secure
    <2>10. AsRead(d)'
      <3>1. AsRead(d) /\ word'[v] = word[v]
        BY <1>1, <1>2, <1>7, <2>1, <2>2 DEF TokenPins, Dropped
      <3>2. QED
        BY <1>2, <2>1, <3>1 DEF AsRead, Live, Same
    <2>11. QED
      BY <2>5, <2>6, <2>9, <2>10
  <1>8. QED
    BY <1>6, <1>7

LEMMA DropFollows ==
    ASSUME IInv, NEW c \in Calls, NEW words \in SUBSET Words, NEW senses \in SUBSET Senses,
           Dropped(c, words, senses), NEW v \in Words
    PROVE  Follows(v)
  <1>1. TypeOK
    BY DEF IInv
  <1>2. CASE v \in words
    <2>1. word'[v].state = "gone"
      BY <1>2 DEF Dropped, NoWord
    <2>2. ~Live(v)'
      BY <2>1 DEF Live
    <2>3. QED
      BY <2>2 DEF Follows
  <1>3. CASE v \notin words
    <2>1. word'[v] = word[v]
      BY <1>3 DEF Dropped
    <2>2. \A s \in Senses : sense'[s] = v <=> sense[s] = v
      BY <1>3, WordAssumption DEF Dropped
    <2>3. SensesOf(v)' = SensesOf(v) /\ None \notin SensesOf(v)
      BY <2>2, WordAssumption DEF SensesOf
    <2>4. \A s \in SensesOf(v) : s \notin senses
      BY <1>3 DEF Dropped, SensesOf
    <2>5. ASSUME NEW r \in Rels
          PROVE  rel'[r].sense \in SensesOf(v) <=> rel[r].sense \in SensesOf(v)
      <3>1. \/ rel[r].sense \in senses /\ rel'[r] = NoLink
            \/ rel'[r].sense = rel[r].sense
        BY <1>1, DropLinks
      <3>2. rel[r].sense \in senses => rel[r].sense \notin SensesOf(v)
        BY <2>4
      <3>3. QED
        BY <2>3, <3>1, <3>2 DEF NoLink
    <2>6. ASSUME NEW r \in Rels, rel[r].sense \in SensesOf(v)
          PROVE  /\ rel'[r].sense = rel[r].sense
                 /\ rel'[r].word \in {rel[r].word, None}
                 /\ rel'[r].target \in {rel[r].target, None}
                 /\ rel'[r].word # None /\ rel'[r].target = None
                       => r \in cut' \/ (rel[r].target = None /\ r \notin cut)
      <3>1. /\ rel'[r].sense = rel[r].sense
            /\ rel'[r].word \in {rel[r].word, None}
            /\ rel'[r].target = IF rel[r].target \in senses THEN None ELSE rel[r].target
        <4>1. rel[r].sense \notin senses
          BY <2>4, <2>6
        <4>2. QED
          BY <1>1, <4>1, DropLinks
      <3>2. ASSUME rel'[r].word # None, rel'[r].target = None, rel[r].target = None => r \in cut
            PROVE  r \in cut'
        <4>1. rel'[r] # NoLink
          BY <3>2 DEF NoLink
        <4>2. QED
          BY <3>1, <3>2, <4>1 DEF Dropped
      <3>3. QED
        BY <3>1, <3>2
    <2>7. QED
      BY <2>1, <2>3, <2>5, <2>6 DEF Follows, Live
  <1>4. QED
    BY <1>2, <1>3

LEMMA DropKeepsKeys ==
    ASSUME IInv, NEW c \in Calls, NEW words \in SUBSET Words, NEW senses \in SUBSET Senses,
           Dropped(c, words, senses), Onward(c)
    PROVE  TypeOK' /\ TargetsFit'
  <1>1. TypeOK /\ KeysHold /\ TargetsFit
    BY DEF IInv, TypeOK
  <1>2. /\ \A s \in Senses : sense'[s] = IF s \in senses THEN None ELSE sense[s]
        /\ \A s \in Senses : s \in senses <=> sense[s] \in words
        /\ spent' = spent \cup senses
    BY DEF Dropped
  <1>3. word' \in [Words -> Word]
    <2>1. [NoWord EXCEPT !.state = "gone"] \in Word
      BY DEF NoWord, Word
    <2>2. QED
      BY <1>1, <2>1 DEF Dropped, TypeOK
  <1>4. \A v \in Words : Live(v) /\ v \notin words => Live(v)'
    BY DEF Live, Dropped
  <1>5. sense' \in [Senses -> Words \cup {None}]
    BY <1>1 DEF Dropped, TypeOK
  <1>6. rel' \in [Rels -> Link]
    <2>1. \A r \in Rels : rel'[r] \in Link
      BY <1>1, DropLinks, NoWorkTyped
    <2>2. QED
      BY <2>1 DEF Dropped, Remaining
  <1>7. spent' \subseteq Senses /\ cut' \subseteq Rels
    BY <1>1 DEF Dropped, TypeOK
  <1>8. ASSUME NEW s \in Senses, sense'[s] # None PROVE Live(sense[s])'
    <2>1. sense'[s] = sense[s] /\ sense[s] \in Words /\ sense[s] \notin words /\ Live(sense[s])
      BY <1>1, <1>2, <1>8 DEF KeysHold, TypeOK
    <2>2. QED
      BY <1>4, <2>1
  <1>9. ASSUME NEW r \in Rels, rel'[r] # NoLink
        PROVE  /\ rel'[r].sense # None /\ sense'[rel'[r].sense] # None
               /\ rel'[r].word # None => Live(rel[r].word)'
               /\ rel'[r].target # None =>
                     /\ sense'[rel'[r].target] # None
                     /\ sense'[rel'[r].target] = rel'[r].word \/ rel'[r].target \in spent'
    <2>1. PICK row \in Link : row = rel[r]
      BY <1>1 DEF TypeOK
    <2>2. /\ row.sense \notin senses /\ rel'[r].sense = row.sense /\ rel[r] # NoLink
          /\ rel'[r].word = IF row.word \in words THEN None ELSE row.word
          /\ rel'[r].target = IF row.target \in senses THEN None ELSE row.target
      BY <1>1, <1>9, <2>1, DropLinks
    <2>3. /\ row.sense \in Senses /\ sense[row.sense] # None
          /\ row.word # None => row.word \in Words /\ Live(row.word)
          /\ row.target # None => row.target \in Senses /\ sense[row.target] # None
      BY <1>1, <2>1, <2>2 DEF KeysHold, Link
    <2>4. sense'[row.sense] # None /\ row.sense # None
      BY <1>2, <2>2, <2>3, WordAssumption
    <2>5. rel'[r].word # None => rel'[r].word = row.word /\ Live(row.word)'
      BY <1>4, <2>2, <2>3
    <2>6. ASSUME rel'[r].target # None
          PROVE  /\ rel'[r].target = row.target /\ sense'[row.target] # None
                 /\ sense'[row.target] = rel'[r].word \/ row.target \in spent'
      <3>1. rel'[r].target = row.target /\ row.target \notin senses /\ row.target \in Senses
        BY <2>2, <2>3, <2>6
      <3>2. sense'[row.target] = sense[row.target] /\ sense[row.target] # None
            /\ sense[row.target] \notin words
        BY <1>2, <2>3, <2>6, <3>1
      <3>3. sense[row.target] = row.word \/ row.target \in spent
        BY <1>1, <2>1, <2>6, <3>1 DEF TargetsFit
      <3>4. QED
        BY <1>2, <2>2, <3>1, <3>2, <3>3
    <2>7. QED
      BY <2>2, <2>4, <2>5, <2>6
  <1>10. KeysHold'
    BY <1>8, <1>9 DEF KeysHold
  <1>11. TargetsFit'
    <2>1. ASSUME NEW r \in Rels, rel'[r].target # None
          PROVE  sense'[rel'[r].target] = rel'[r].word \/ rel'[r].target \in spent'
      <3>1. rel'[r] # NoLink
        BY <2>1 DEF NoLink
      <3>2. QED
        BY <1>9, <2>1, <3>1
    <2>2. QED
      BY <2>1 DEF TargetsFit
  <1>12. QED
    BY <1>1, <1>3, <1>5, <1>6, <1>7, <1>10, <1>11 DEF TypeOK, Onward

LEMMA DropKeepsInvariant ==
    ASSUME IInv, NEW c \in Calls, Drop(c)
    PROVE  IInv'
  <1>1. TypeOK /\ Control /\ Exclusion /\ Committable /\ PublishedComplete
    BY DEF IInv
  <1>2. Onward(c) /\ Returned(c) /\ pc[c] # "done"
    BY DropMoves
  <1>3. PICK words \in SUBSET Words, senses \in SUBSET Senses : Dropped(c, words, senses)
    BY DropMoves
  <1>4. \A d \in Others(c) : Clear(d) /\ Secure(d) /\ Steady(d) /\ (InTx(d) => AsRead(d)')
    BY <1>2, <1>3, DropLeavesOthers
  <1>5. \A v \in Words : Follows(v)
    BY <1>3, DropFollows
  <1>6. \A d \in Others(c) : pc[d] = "insert" => word'[work[d].word].state = "absent"
    <2>1. ASSUME NEW d \in Others(c), pc[d] = "insert"
          PROVE  word'[work[d].word].state = "absent"
      <3>1. work[d].word \in Words /\ word[work[d].word].state = "absent"
        BY <1>1, <2>1 DEF Control, Locals, Others
      <3>2. work[d].word \notin words
        BY <1>3, <3>1 DEF Dropped, Live
      <3>3. QED
        BY <1>3, <3>1, <3>2 DEF Dropped
    <2>2. QED
      BY <2>1
  <1>7. \A v \in Words : word'[v].token \in {word[v].token, c, None}
    BY <1>3 DEF Dropped, NoWord
  <1>8. Control' /\ OwnIds' /\ FreshTokens'
    BY <1>2, <1>6, <1>7, ReturnKeepsCalls
  <1>9. Exclusion' /\ Committable'
    BY <1>1, <1>2, <1>4, SteadyKeepsApart, SecureKeepsCommittable
  <1>10. TokenPins' /\ CheckStands'
    BY <1>2, <1>4, <1>5, FollowsKeepsPins
  <1>11. PublishedComplete'
    <2>1. ASSUME NEW v \in Words, Live(v)', word'[v].status = "published"
          PROVE  Publishable(v)'
      BY <1>1, <1>5, <2>1, FollowsKeepsPublished
    <2>2. QED
      BY <2>1 DEF PublishedComplete, Publishable
  <1>12. QED
    BY <1>2, <1>3, <1>8, <1>9, <1>10, <1>11, DropKeepsKeys DEF IInv

-----------------------------------------------------------------------------
(* The invariant.                                                          *)

LEMMA InitHolds ==
    ASSUME Init
    PROVE  IInv
  <1>1. \A d \in Calls : pc[d] = "new" /\ work[d] = NoWork
    BY DEF Init
  <1>2. \A d \in Calls : ~InTx(d) /\ ~Reading(d) /\ ~Posted(d)
    BY <1>1 DEF InTx, Reading, Posted
  <1>3. word \in [Words -> Word]
    <2>1. NoWord \in Word
      BY DEF NoWord, Word
    <2>2. [state : {"live"}, status : {"draft", "published"}, full : BOOLEAN, token : {None}]
              \subseteq Word
      BY DEF Word
    <2>3. QED
      BY <2>1, <2>2 DEF Init
  <1>4. sense \in [Senses -> Words \cup {None}] /\ \A s \in Senses : sense[s] # None => Live(sense[s])
    BY DEF Init
  <1>5. \A r \in Rels :
            /\ rel[r] \in Link
            /\ rel[r] # NoLink =>
                  /\ rel[r].sense # None /\ sense[rel[r].sense] # None
                  /\ rel[r].word # None => Live(rel[r].word)
                  /\ rel[r].target # None => rel[r].word # None /\ sense[rel[r].target] = rel[r].word
    BY NoWorkTyped DEF Init
  <1>6. rel \in [Rels -> Link]
    BY NoWorkTyped DEF Init
  <1>7. KeysHold
    BY <1>4, <1>5 DEF KeysHold
  <1>8. TypeOK
    <2>1. pc \in [Calls -> Running \cup {"new", "done"}] /\ work \in [Calls -> Work]
      BY NoWorkTyped DEF Init
    <2>2. QED
      BY <1>3, <1>4, <1>6, <1>7, <2>1 DEF Init, TypeOK
  <1>9. Control /\ OwnIds
    BY <1>1, <1>2 DEF Control, Locals, OwnIds, HasInserted, InTx
  <1>10. FreshTokens
    <2>1. ASSUME NEW w \in Words PROVE word[w].token = None
      BY DEF Init, NoWord
    <2>2. \A d \in Calls : work[d].base = None
      BY <1>1 DEF NoWork
    <2>3. QED
      BY <2>1, <2>2, WordAssumption DEF FreshTokens
  <1>11. Exclusion
    BY <1>2, Unlocked DEF Exclusion, Apart
  <1>12. Committable
    BY <1>1, <1>2, Unlocked DEF Committable
  <1>13. TokenPins /\ CheckStands
    BY <1>1, <1>2 DEF TokenPins, CheckStands
  <1>14. TargetsFit
    BY <1>5 DEF TargetsFit, NoLink
  <1>15. PublishedComplete
    <2>1. ASSUME NEW w \in Words, word[w].status = "published"
          PROVE  /\ word[w].full
                 /\ \A r \in LinksOf(w) : rel[r].word # None => rel[r].target # None
      BY <2>1 DEF Init, Complete, TreeOf, LinksOf
    <2>2. QED
      BY <2>1 DEF PublishedComplete
  <1>16. QED
    BY <1>8, <1>9, <1>10, <1>11, <1>12, <1>13, <1>14, <1>15 DEF IInv

LEMMA UnchangedKeepsInvariant ==
    ASSUME IInv, UNCHANGED vars
    PROVE  IInv'
  <1>1. TypeOK /\ Exclusion /\ Committable
    BY DEF IInv
  <1>2. /\ word' = word /\ sense' = sense /\ rel' = rel /\ spent' = spent
        /\ \A d \in Calls : Same(d)
    BY DEF vars, Same
  <1>3. TypeOK' /\ Control' /\ OwnIds' /\ FreshTokens' /\ TargetsFit' /\ PublishedComplete'
    BY DEF IInv, vars, TypeOK, KeysHold, Live, Control, Locals, Reading, Posted, InTx, HasInserted,
       OwnIds, FreshTokens, TargetsFit, PublishedComplete, LinksOf, SensesOf
  <1>4. Exclusion'
    <2>1. ASSUME NEW x \in Calls, NEW y \in Calls, x # y PROVE Apart(x, y)'
      <3>1. Apart(x, y) /\ Same(x) /\ Same(y)
        BY <1>1, <1>2, <2>1 DEF Exclusion
      <3>2. work'[x] = work[x] /\ work'[y] = work[y]
        BY <3>1 DEF Same
      <3>3. QED
        BY <1>2, <3>1, <3>2, KeptNodes DEF Apart, Steady
    <2>2. QED
      BY <2>1 DEF Exclusion
  <1>5. Committable'
    <2>1. ASSUME NEW d \in Calls
          PROVE  /\ \A s \in New(d)' : sense'[s] = None
                 /\ \A r \in Written(d)' : Fits(d, r)'
                 /\ pc'[d] = "upsert" => Resolved(d, work[d].body.links[work[d].rel])'
      <3>1. /\ Gone(d)' = Gone(d) /\ New(d)' = New(d) /\ Written(d)' = Written(d)
            /\ \A r \in Rels : RowOf(d, r)' = RowOf(d, r)
            /\ \A s \in Senses : SeenIn(d, s)' = SeenIn(d, s)
        BY <1>2, KeptNodes DEF Steady
      <3>2. \A s \in New(d)' : sense'[s] = None
        BY <1>1, <1>2, <3>1 DEF Committable
      <3>3. ASSUME NEW r \in Written(d) PROVE Fits(d, r)'
        <4>1. r \in Rels /\ Fits(d, r) /\ Same(d)
          BY <1>1, <1>2, SetsOf DEF Committable
        <4>2. RowOf(d, r).target \in Senses \cup {None}
          BY <1>1, <4>1, RowTyped DEF Link
        <4>3. QED
          BY <1>2, <3>1, <4>1, <4>2 DEF Fits, Same, LinksOf, SensesOf, Live
      <3>4. pc'[d] = "upsert" => Resolved(d, work[d].body.links[work[d].rel])'
        <4>1. ASSUME pc[d] = "upsert" PROVE Resolved(d, work[d].body.links[work[d].rel])'
          <5>1. Resolved(d, work[d].body.links[work[d].rel])
            BY <1>1, <4>1 DEF Committable
          <5>2. work[d] \in Work /\ work[d].rel \in work[d].todo
            BY <1>1, <4>1 DEF TypeOK, IInv, Control, Locals
          <5>3. work[d].body \in Tree /\ work[d].rel \in Rels
            BY <5>2 DEF Work
          <5>4. work[d].body.links[work[d].rel].target \in Senses \cup {None}
            BY <5>3 DEF Tree, Link
          <5>5. QED
            BY <1>2, <3>1, <5>1, <5>4 DEF Resolved, Same
        <4>2. QED
          BY <1>2, <4>1 DEF Same
      <3>5. QED
        BY <3>1, <3>2, <3>3, <3>4
    <2>2. QED
      BY <2>1 DEF Committable
  <1>6. /\ \A d \in Calls : AsRead(d)' <=> AsRead(d)
        /\ \A w \in Words : TreeOf(w)' = TreeOf(w) /\ (Publishable(w)' <=> Publishable(w))
    BY DEF vars, AsRead, Live, TreeOf, Publishable, LinksOf, SensesOf
  <1>7. TokenPins'
    <2>1. TokenPins /\ Control
      BY DEF IInv
    <2>2. ASSUME NEW d \in Calls
          PROVE  /\ InTx(d)' => AsRead(d)'
                 /\ Reading(d)' /\ AsRead(d)' =>
                      /\ work'[d].seen \in Tree
                      /\ SameButCut(TreeOf(work[d].word), work[d].seen)'
                 /\ Posted(d)' /\ AsRead(d)' /\ word'[work'[d].word].status = "published"
                       => Complete(work'[d].body)
      <3>1. /\ work' = work /\ word' = word /\ (AsRead(d)' <=> AsRead(d))
            /\ (InTx(d)' <=> InTx(d)) /\ (Reading(d)' <=> Reading(d)) /\ (Posted(d)' <=> Posted(d))
        BY <1>6 DEF vars, InTx, Reading, Posted
      <3>2. TreeOf(work[d].word)' = TreeOf(work[d].word)
        BY DEF vars, TreeOf, LinksOf, SensesOf
      <3>3. QED
        BY <2>1, <3>1, <3>2 DEF TokenPins, SameButCut
    <2>3. QED
      BY <2>2 DEF TokenPins
  <1>8. CheckStands'
    <2>1. CheckStands
      BY DEF IInv
    <2>2. QED
      BY <2>1 DEF vars, CheckStands, AsRead, Live, Publishable, LinksOf, SensesOf
  <1>9. QED
    BY <1>3, <1>4, <1>5, <1>7, <1>8 DEF IInv

LEMMA NextKeepsInvariant ==
    ASSUME IInv, [Next]_vars
    PROVE  IInv'
  <1>1. ASSUME NEW c \in Calls, Going(c) \/ Insert(c) \/ SetStatus(c) \/ Commit(c) \/ Drop(c)
        PROVE  IInv'
    BY <1>1, GoingKeepsInvariant, StampKeepsInvariant, CommitKeepsInvariant, DropKeepsInvariant
  <1>2. QED
    BY <1>1, StepCases, UnchangedKeepsInvariant

\* Whatever calls overlap, locks keep transactions apart, what a transaction has written
\* can be committed, and a token stands for the tree that was read with it.
THEOREM Invariance == Spec => []IInv
  <1>1. QED
    BY InitHolds, NextKeepsInvariant, PTL DEF Spec

\* The tables hold rows of their types and the foreign keys of migration 000018, although
\* rows are checked when they are written and the save commits later.
THEOREM TypeCorrect == Spec => []TypeOK
  <1>1. IInv => TypeOK
    BY DEF IInv
  <1>2. QED
    BY <1>1, Invariance, PTL

\* A relation points to a sense of the entry it points to, although the sense is looked
\* up before the row is written (resolveTarget, repository.go:774-802).
THEOREM TargetsAlwaysFit == Spec => []TargetsFit
  <1>1. IInv => TargetsFit
    BY DEF IInv
  <1>2. QED
    BY <1>1, Invariance, PTL

\* A published entry is complete (D17) but for links that were cut by deletions, whatever
\* saves and publishes overlap.
THEOREM PublishedStaysComplete == Spec => []PublishedComplete
  <1>1. IInv => PublishedComplete
    BY DEF IInv
  <1>2. QED
    BY <1>1, Invariance, PTL

\* A sense stays in its entry until it is deleted (D15), whatever ids bodies carry.
THEOREM SensesStayPut == Spec => SensesStay
  <1>1. ASSUME IInv, [Next]_vars, NEW s \in Senses, sense[s] # None
        PROVE  sense'[s] \in {sense[s], None}
    <2>1. CASE UNCHANGED vars
      BY <2>1 DEF vars
    <2>2. ASSUME NEW c \in Calls, Going(c) PROVE sense'[s] = sense[s]
      BY <1>1, <2>2, GoingMoves DEF IInv, Reads
    <2>3. ASSUME NEW c \in Calls, Insert(c) \/ SetStatus(c) PROVE sense'[s] = sense[s]
      BY <2>3 DEF Insert, SetStatus
    <2>4. ASSUME NEW c \in Calls, Commit(c) PROVE sense'[s] \in {sense[s], None}
      BY <1>1, <2>4, CommitSenses DEF SenseSaved
    <2>5. ASSUME NEW c \in Calls, Drop(c) PROVE sense'[s] \in {sense[s], None}
      BY <2>5 DEF Drop
    <2>6. QED
      BY <1>1, <2>1, <2>2, <2>3, <2>4, <2>5, StepCases
  <1>2. IInv /\ [Next]_vars
            => [ \A s \in Senses : sense[s] # None => sense'[s] \in {sense[s], None} ]_vars
    BY <1>1
  <1>3. QED
    BY <1>2, Invariance, PTL DEF Spec, SensesStay

\* Nobody's work is lost (D16): a save replaces the tree its editor loaded, and a publish
\* blesses the one it checked, but for links that were cut by deletions.
THEOREM NothingLost == Spec => NothingOverwritten
  <1>1. ASSUME IInv, [Next]_vars, NEW c \in Calls, NEW w \in Words,
               word'[w].token = c, word[w].token # c, Live(w)
        PROVE  SameButCut(TreeOf(w), work[c].seen)
    <2>0. TypeOK /\ Control /\ TokenPins
      BY <1>1 DEF IInv
    <2>1. CASE UNCHANGED vars
      BY <1>1, <2>1 DEF vars
    <2>2. ASSUME NEW e \in Calls, Going(e) PROVE FALSE
      BY <1>1, <2>0, <2>2, GoingMoves DEF Reads
    <2>3. ASSUME NEW e \in Calls, Insert(e) PROVE FALSE
      BY <1>1, <2>0, <2>3 DEF Insert, Control, Locals, TypeOK, Live
    <2>4. ASSUME NEW e \in Calls, SetStatus(e) PROVE SameButCut(TreeOf(w), work[c].seen)
      <3>1. word' = [word EXCEPT ![work[e].word].status = "published", ![work[e].word].token = e]
            /\ Live(work[e].word) /\ word[work[e].word].token = work[e].base /\ pc[e] = "flip"
        BY <1>1, <2>4 DEF SetStatus
      <3>2. w = work[e].word /\ e = c
        BY <1>1, <2>0, <3>1 DEF TypeOK, Word, Live
      <3>3. QED
        BY <2>0, <3>1, <3>2 DEF TokenPins, Reading, AsRead
    <2>5. ASSUME NEW e \in Calls, Commit(e) PROVE SameButCut(TreeOf(w), work[c].seen)
      <3>1. word' = [word EXCEPT ![work[e].word].full = work[e].body.full,
                                 ![work[e].word].token = e]
            /\ InTx(e) /\ AsRead(e) /\ Live(work[e].word)
        BY <1>1, <2>5, CommitMoves DEF Commit
      <3>2. w = work[e].word /\ e = c
        BY <1>1, <2>0, <3>1 DEF TypeOK, Word, Live
      <3>3. QED
        BY <2>0, <3>1, <3>2 DEF TokenPins, Reading
    <2>6. ASSUME NEW e \in Calls, Drop(e) PROVE FALSE
      BY <1>1, <2>6, WordAssumption DEF Drop, NoWord
    <2>7. QED
      BY <1>1, <2>1, <2>2, <2>3, <2>4, <2>5, <2>6, StepCases
  <1>2. IInv /\ [Next]_vars
            => [ \A c \in Calls : \A w \in Words :
                   word'[w].token = c /\ word[w].token # c /\ Live(w)
                      => SameButCut(TreeOf(w), work[c].seen) ]_vars
    BY <1>1
  <1>3. QED
    BY <1>2, Invariance, PTL DEF Spec, NothingOverwritten

-----------------------------------------------------------------------------
(* Refinement: what more is known of the calls.                            *)

\* The orphans that a save carries were relations of its entry, and stay that.
Orphaned(d, r) == work[d].body.links[r].word = None
OrphansKnown(d) ==
    /\ \A r \in Written(d) : Orphaned(d, r) => r \in LinksOf(work[d].word)
    /\ pc[d] = "upsert" /\ Orphaned(d, work[d].rel) => work[d].rel \in LinksOf(work[d].word)

\* What is going to be published was complete.
Checked(d) == pc[d] = "flip" => Complete(work[d].seen)

RInv == IInv /\ \A d \in Calls : OrphansKnown(d) /\ Checked(d)

\* While a transaction has an entry, nobody else gives it relations or takes them away.
LEMMA LinksStay ==
    ASSUME IInv, NEW c \in Calls, NEW d \in Others(c), InTx(d),
           Going(c) \/ Insert(c) \/ SetStatus(c) \/ Commit(c) \/ Drop(c)
    PROVE  \A r \in Rels : r \in LinksOf(work[d].word)' <=> r \in LinksOf(work[d].word)
  <1>1. TypeOK /\ Control /\ FreshTokens /\ TokenPins
    BY DEF IInv
  <1>2. d \in Calls /\ Locals(d)
    BY <1>1 DEF Others, Control
  <1>3. PICK v \in Words : v = work[d].word
    BY <1>2 DEF Locals, Reading
  <1>4. CASE Going(c)
    <2>1. Reads /\ Same(d)
      BY <1>1, <1>4, GoingMoves DEF Onward
    <2>2. QED
      BY <2>1 DEF Reads, Same, LinksOf, SensesOf
  <1>5. CASE Insert(c) \/ SetStatus(c)
    <2>1. sense' = sense /\ rel' = rel /\ Return(c)
      BY <1>5 DEF Insert, SetStatus
    <2>2. Same(d)
      BY <1>1, <2>1, ReturnMoves DEF Onward
    <2>3. QED
      BY <2>1, <2>2 DEF Same, LinksOf, SensesOf
  <1>6. ASSUME Onward(c), Follows(v), Live(v)'
        PROVE  \A r \in Rels : r \in LinksOf(work[d].word)' <=> r \in LinksOf(work[d].word)
    <2>1. work'[d].word = v
      BY <1>3, <1>6 DEF Onward, Same
    <2>2. SensesOf(v)' = SensesOf(v)
          /\ \A r \in Rels : rel'[r].sense \in SensesOf(v) <=> rel[r].sense \in SensesOf(v)
      BY <1>6 DEF Follows
    <2>3. \A r \in Rels : r \in LinksOf(v)' <=> r \in LinksOf(v)
      BY <2>2 DEF LinksOf
    <2>4. LinksOf(work[d].word)' = LinksOf(v)'
      BY <2>1 DEF LinksOf, SensesOf
    <2>5. QED
      BY <1>3, <2>3, <2>4
  <1>7. CASE Commit(c)
    <2>1. Onward(c) /\ pc[c] # "done" /\ Same(d)
      BY <1>7, CommitMoves DEF Onward
    <2>2. AsRead(d)'
      BY <1>2, <1>7, CommitLeavesOthers
    <2>3. Live(v)' /\ word'[v].token = work[d].base
      BY <1>3, <2>1, <2>2 DEF AsRead, Same, Live
    <2>4. word'[v].token # c
      BY <1>1, <1>2, <2>1, <2>3 DEF FreshTokens
    <2>5. QED
      BY <1>6, <1>7, <2>1, <2>3, <2>4, CommitFollows
  <1>8. CASE Drop(c)
    <2>1. PICK words \in SUBSET Words : \E senses \in SUBSET Senses : Dropped(c, words, senses)
      BY <1>8, DropMoves
    <2>2. PICK senses \in SUBSET Senses : Dropped(c, words, senses)
      BY <2>1
    <2>3. Onward(c) /\ Same(d)
      BY <1>8, DropMoves DEF Onward
    <2>4. AsRead(d)'
      BY <1>2, <2>2, <2>3, DropLeavesOthers
    <2>5. Live(v)'
      BY <1>3, <2>3, <2>4 DEF AsRead, Same, Live
    <2>6. QED
      BY <1>6, <2>2, <2>3, <2>5, DropFollows
  <1>9. QED
    BY <1>4, <1>5, <1>7, <1>8

LEMMA OthersKnown ==
    ASSUME RInv, NEW c \in Calls, NEW d \in Others(c),
           Going(c) \/ Insert(c) \/ SetStatus(c) \/ Commit(c) \/ Drop(c)
    PROVE  OrphansKnown(d)' /\ Checked(d)'
  <1>1. TypeOK /\ Control /\ d \in Calls /\ OrphansKnown(d) /\ Checked(d)
    BY DEF RInv, IInv, Others
  <1>2. Same(d)
    <2>1. Onward(c)
      BY <1>1, GoingMoves, ReturnMoves DEF Insert, SetStatus, Commit, Drop
    <2>2. QED
      BY <2>1 DEF Onward
  <1>3. Checked(d)'
    BY <1>1, <1>2 DEF Checked, Same, Complete
  <1>4. CASE ~InTx(d)
    <2>1. ~InTx(d)' /\ pc'[d] # "upsert"
      BY <1>2, <1>4 DEF InTx, Same
    <2>2. Written(d)' = {}
      BY <1>1, <2>1, UnlockedAfter
    <2>3. QED
      BY <1>3, <2>1, <2>2 DEF OrphansKnown
  <1>5. CASE InTx(d)
    <2>1. \A r \in Rels : r \in LinksOf(work[d].word)' <=> r \in LinksOf(work[d].word)
      BY <1>5, LinksStay DEF RInv
    <2>2. Written(d)' = Written(d) /\ Written(d) \subseteq Rels
      BY <1>1, <1>2, SetsOf DEF Written, HasInserted, Same, Carried
    <2>3. \A r \in Rels : Orphaned(d, r)' <=> Orphaned(d, r)
      BY <1>2 DEF Orphaned, Same
    <2>4. \A r \in Written(d)' : Orphaned(d, r)' => r \in LinksOf(work[d].word)'
      BY <1>1, <2>1, <2>2, <2>3 DEF OrphansKnown
    <2>5. ASSUME pc'[d] = "upsert", Orphaned(d, work[d].rel)'
          PROVE  work'[d].rel \in LinksOf(work[d].word)'
      <3>1. pc[d] = "upsert" /\ work'[d].rel = work[d].rel /\ Orphaned(d, work[d].rel)
        BY <1>2, <2>5 DEF Same, Orphaned
      <3>2. work[d].rel \in LinksOf(work[d].word) /\ work[d].rel \in Rels
        BY <1>1, <3>1 DEF OrphansKnown, LinksOf
      <3>3. QED
        BY <2>1, <3>1, <3>2
    <2>6. QED
      BY <1>3, <2>4, <2>5 DEF OrphansKnown
  <1>6. QED
    BY <1>4, <1>5

LEMMA ReturnedKnown ==
    ASSUME NEW c \in Calls, Returned(c)
    PROVE  OrphansKnown(c)' /\ Checked(c)'
  <1>1. ~InTx(c)'
    BY DEF Returned, InTx
  <1>2. Written(c)' = {}
    BY <1>1, UnlockedAfter
  <1>3. QED
    BY <1>2 DEF OrphansKnown, Checked, Returned

LEMMA GoingKnown ==
    ASSUME RInv, NEW c \in Calls, Going(c)
    PROVE  OrphansKnown(c)' /\ Checked(c)'
  <1>1. TypeOK /\ Control /\ Reads /\ Went(c) /\ OrphansKnown(c) /\ work[c] \in Work
    BY GoingMoves DEF RInv, IInv, TypeOK
  <1>2. ASSUME Written(c)' = {}, pc'[c] # "upsert", pc'[c] # "flip"
        PROVE  OrphansKnown(c)' /\ Checked(c)'
    BY <1>2 DEF OrphansKnown, Checked
  <1>3. CASE ~InTx(c)'
    <2>1. Written(c)' = {} /\ pc'[c] # "upsert"
      BY <1>3, UnlockedAfter DEF InTx
    <2>2. ASSUME pc'[c] = "flip" PROVE Complete(work'[c].seen)
      <3>1. FoundComplete(c)
        BY <1>1, <2>2 DEF Went, Began, Submitted, Locked, Deleted, Inserted, Picked, Wrote, Returned
      <3>2. work'[c].seen = TreeOf(work[c].word) /\ Complete(TreeOf(work[c].word))
        BY <1>1, <3>1 DEF FoundComplete, Work
      <3>3. QED
        BY <3>2
    <2>3. QED
      BY <2>1, <2>2 DEF OrphansKnown, Checked
  <1>4. CASE Locked(c)
    BY <1>1, <1>2, <1>4, LockedSets DEF Locked
  <1>5. CASE Deleted(c)
    BY <1>1, <1>2, <1>5, DeletedSets DEF Deleted
  <1>6. CASE Inserted(c)
    BY <1>1, <1>2, <1>6, InsertedSets DEF Inserted
  <1>7. CASE Picked(c)
    <2>1. PICK r \in work[c].todo :
              /\ work'[c] = [work[c] EXCEPT !.rel = r]
              /\ IF work[c].body.links[r].word = None THEN r \in LinksOf(work[c].word)
                 ELSE Resolvable(c, work[c].body.links[r])
      BY <1>7 DEF Picked
    <2>2. /\ work'[c].word = work[c].word /\ work'[c].body = work[c].body /\ work'[c].rel = r
          /\ pc'[c] = "upsert"
      BY <1>1, <1>7, <2>1 DEF Work, Picked
    <2>3. LinksOf(work[c].word)' = LinksOf(work[c].word)
      BY <1>1, <2>2 DEF LinksOf, SensesOf, Reads
    <2>4. Written(c)' = Written(c)
      BY <1>1, <1>7, PickedSets
    <2>5. QED
      BY <1>1, <2>1, <2>2, <2>3, <2>4 DEF OrphansKnown, Orphaned, Checked
  <1>8. CASE Wrote(c)
    <2>1. /\ work'[c].word = work[c].word /\ work'[c].body = work[c].body
          /\ pc'[c] \in {"commit", "relations"} /\ pc[c] = "upsert"
      BY <1>1, <1>8 DEF Work, Wrote
    <2>2. LinksOf(work[c].word)' = LinksOf(work[c].word)
      BY <1>1, <2>1 DEF LinksOf, SensesOf, Reads
    <2>3. Written(c)' = Written(c) \cup {work[c].rel}
      BY <1>1, <1>8, WroteSets
    <2>4. QED
      BY <1>1, <2>1, <2>2, <2>3 DEF OrphansKnown, Orphaned, Checked
  <1>9. QED
    BY <1>1, <1>3, <1>4, <1>5, <1>6, <1>7, <1>8
       DEF Went, Began, Submitted, FoundComplete, Returned, InTx

LEMMA RInvariance == Spec => []RInv
  <1>1. Init => RInv
    <2> SUFFICES ASSUME Init PROVE RInv
      OBVIOUS
    <2>1. \A d \in Calls : pc[d] = "new"
      BY DEF Init
    <2>2. \A d \in Calls : Written(d) = {}
      BY <2>1, Unlocked DEF InTx
    <2>3. QED
      BY <2>1, <2>2, InitHolds DEF RInv, OrphansKnown, Checked
  <1>2. RInv /\ [Next]_vars => RInv'
    <2> SUFFICES ASSUME RInv, [Next]_vars PROVE RInv'
      OBVIOUS
    <2>1. IInv'
      BY NextKeepsInvariant DEF RInv
    <2>2. CASE UNCHANGED vars
      BY <2>1, <2>2 DEF RInv, vars, OrphansKnown, Orphaned, Checked, Complete, Written, HasInserted,
         Carried, LinksOf, SensesOf
    <2>3. ASSUME NEW c \in Calls,
                 Going(c) \/ Insert(c) \/ SetStatus(c) \/ Commit(c) \/ Drop(c)
          PROVE  RInv'
      <3>1. ASSUME NEW d \in Calls PROVE OrphansKnown(d)' /\ Checked(d)'
        <4>1. CASE d # c
          <5>1. d \in Others(c)
            BY <4>1 DEF Others
          <5>2. QED
            BY <2>3, <5>1, OthersKnown
        <4>2. CASE d = c /\ Going(c)
          BY <4>2, GoingKnown
        <4>3. CASE d = c /\ ~Going(c)
          <5>1. Returned(c)
            BY <2>3, <4>3, ReturnMoves DEF Insert, SetStatus, Commit, Drop, RInv, IInv
          <5>2. QED
            BY <4>3, <5>1, ReturnedKnown
        <4>4. QED
          BY <4>1, <4>2, <4>3
      <3>2. QED
        BY <2>1, <3>1 DEF RInv
    <2>4. QED
      BY <2>2, <2>3, StepCases
  <1>3. QED
    BY <1>1, <1>2, PTL DEF Spec

-----------------------------------------------------------------------------
(* Refinement: the tables as trees.                                        *)

LEMMA SameData ==
    /\ Trees!NoLink = NoLink /\ Trees!NoTree = NoTree /\ Trees!Tree = Tree
    /\ Trees!Nothing = [word |-> None, tree |-> NoTree]
    /\ \A t : Trees!Carried(t) = Carried(t)
    /\ \A t : Trees!Complete(t) <=> Complete(t)
    /\ \A t, u : Trees!SameButCut(t, u) <=> SameButCut(t, u)
  <1>1. Trees!NoLink = NoLink /\ Trees!Link = Link
    BY DEF Trees!NoLink, NoLink, Trees!Link, Link
  <1>2. Trees!NoTree = NoTree /\ Trees!Tree = Tree
    BY <1>1 DEF Trees!NoTree, NoTree, Trees!Tree, Tree
  <1>3. \A t : Trees!Carried(t) = Carried(t)
    BY <1>1 DEF Trees!Carried, Carried
  <1>4. QED
    BY <1>1, <1>2, <1>3 DEF Trees!Nothing, Trees!Complete, Complete,
       Trees!SameButCut, SameButCut

\* What the entry of a row is.
LEMMA EntriesAre ==
    ASSUME TypeOK, NEW w \in Words
    PROVE  /\ Trees!Exists(w) <=> Live(w)
           /\ Live(w) => Entries[w] = [status |-> word[w].status, tree |-> TreeOf(w)]
           /\ Live(w) => Entries[w].tree = TreeOf(w)
           /\ ~Live(w) => Entries[w] = [status |-> word[w].state, tree |-> NoTree]
           /\ Entries[w].tree \in Tree
           /\ Entries[w].tree.senses = SensesOf(w)
           /\ \A r \in Rels :
                 Entries[w].tree.links[r] = IF r \in LinksOf(w) THEN rel[r] ELSE NoLink
           /\ Carried(Entries[w].tree) = LinksOf(w)
  <1>1. Entries[w] = IF Live(w) THEN [status |-> word[w].status, tree |-> TreeOf(w)]
                     ELSE [status |-> word[w].state, tree |-> NoTree]
    BY DEF Entries
  <1>2. Trees!Exists(w) <=> Live(w)
    BY <1>1 DEF Trees!Exists, Live, TypeOK, Word
  <1>3. ~Live(w) => SensesOf(w) = {} /\ LinksOf(w) = {}
    BY WordAssumption DEF TypeOK, KeysHold, SensesOf, LinksOf
  <1>4. PICK t \in Tree : t = Entries[w].tree
    BY <1>1, TreesTyped, NoWorkTyped
  <1>5. t.senses = SensesOf(w)
    BY <1>1, <1>3, <1>4 DEF TreeOf, NoTree
  <1>6. \A r \in Rels : t.links[r] = IF r \in LinksOf(w) THEN rel[r] ELSE NoLink
    <2>1. CASE Live(w)
      BY <1>1, <1>4, <2>1 DEF TreeOf
    <2>2. CASE ~Live(w)
      BY <1>1, <1>3, <1>4, <2>2 DEF NoTree
    <2>3. QED
      BY <2>1, <2>2
  <1>7. \A r \in LinksOf(w) : rel[r] # NoLink
    BY WordAssumption DEF LinksOf, SensesOf, NoLink
  <1>8. Carried(t) = LinksOf(w)
    <2>1. LinksOf(w) \subseteq Rels
      BY DEF LinksOf
    <2>2. QED
      BY <1>6, <1>7, <2>1 DEF Carried
  <1>9. QED
    BY <1>1, <1>2, <1>4, <1>5, <1>6, <1>8

LEMMA WellFormedTables ==
    TypeOK /\ TargetsFit => Trees!WellFormed
  <1> SUFFICES ASSUME TypeOK, TargetsFit
               PROVE  Trees!WellFormed
    OBVIOUS
  <1>1. \A w \in Words : Trees!SensesOf(w) = SensesOf(w)
    BY EntriesAre DEF Trees!SensesOf
  <1>2. ASSUME NEW v \in Words, NEW w \in Words, v # w
        PROVE  /\ Trees!SensesOf(v) \cap Trees!SensesOf(w) = {}
               /\ Trees!Carried(Entries[v].tree) \cap Trees!Carried(Entries[w].tree) = {}
    <2>1. SensesOf(v) \cap SensesOf(w) = {}
      BY <1>2 DEF SensesOf
    <2>2. LinksOf(v) \cap LinksOf(w) = {}
      BY <2>1 DEF LinksOf
    <2>3. QED
      BY <1>1, <2>1, <2>2, EntriesAre, SameData
  <1>3. ASSUME NEW w \in Words, NEW r \in Trees!Carried(Entries[w].tree)
        PROVE  /\ Entries[w].tree.links[r].sense \in Trees!SensesOf(w)
               /\ Trees!Resolves(Entries[w].tree.links[r])
    <2>1. r \in Rels /\ r \in LinksOf(w) /\ Entries[w].tree.links[r] = rel[r]
      BY <1>3, EntriesAre, SameData DEF LinksOf
    <2>2. PICK l \in Link : l = rel[r]
      BY <2>1 DEF TypeOK
    <2>3. l.sense \in SensesOf(w) /\ l # NoLink
      BY <2>1, <2>2, WordAssumption DEF LinksOf, SensesOf, NoLink
    <2>4. ASSUME l.word # None PROVE Trees!Exists(l.word)
      BY <2>1, <2>2, <2>3, <2>4, EntriesAre DEF TypeOK, KeysHold, Link
    <2>5. ASSUME l.target # None
          PROVE  \E v \in Words : /\ Trees!Exists(v) /\ l.target \in Trees!SensesOf(v)
                                  /\ v = l.word \/ l.target \in spent
      <3>1. l.target \in Senses /\ sense[l.target] # None
        BY <2>1, <2>2, <2>3, <2>5 DEF TypeOK, KeysHold, Link
      <3>2. PICK v \in Words : v = sense[l.target]
        BY <3>1 DEF TypeOK
      <3>3. Live(v) /\ l.target \in SensesOf(v)
        BY <3>1, <3>2 DEF TypeOK, KeysHold, SensesOf
      <3>4. v = l.word \/ l.target \in spent
        BY <2>1, <2>2, <2>5, <3>2 DEF TargetsFit
      <3>5. QED
        BY <1>1, <3>3, <3>4, EntriesAre
    <2>6. QED
      BY <1>1, <2>1, <2>2, <2>3, <2>4, <2>5 DEF Trees!Resolves
  <1>4. ASSUME NEW w \in Words, ~Trees!Exists(w) PROVE Entries[w].tree = Trees!NoTree
    <2>1. Entries[w] = [status |-> word[w].state, tree |-> NoTree]
      BY <1>4, EntriesAre
    <2>2. QED
      BY <2>1, SameData
  <1>5. QED
    BY <1>2, <1>3, <1>4 DEF Trees!WellFormed

LEMMA TreesInit ==
    Init => Trees!Init
  <1> SUFFICES ASSUME Init
               PROVE  Trees!Init
    OBVIOUS
  <1>1. TypeOK /\ TargetsFit
    BY InitHolds DEF IInv
  <1>2. Trees!WellFormed
    BY <1>1, WellFormedTables
  <1>3. ASSUME NEW w \in Words
        PROVE  /\ Entries[w] \in Trees!Entry
               /\ Entries[w].status = "published" => Trees!Complete(Entries[w].tree)
    <2>1. word[w] \in Word /\ (Live(w) => TreeOf(w) \in Tree)
      BY <1>1, TreesTyped DEF TypeOK
    <2>2. word[w].state \in {"absent", "live", "gone"} /\ word[w].status \in {"draft", "published"}
      BY <2>1 DEF Word
    <2>3. word[w].status = "published" => Complete(TreeOf(w))
      BY DEF Init
    <2>4. CASE Live(w)
      <3>1. Entries[w] = [status |-> word[w].status, tree |-> TreeOf(w)]
        BY <1>1, <2>4, EntriesAre
      <3>2. QED
        BY <2>1, <2>2, <2>3, <2>4, <3>1, SameData DEF Trees!Entry
    <2>5. CASE ~Live(w)
      <3>1. Entries[w] = [status |-> word[w].state, tree |-> NoTree]
        BY <1>1, <2>5, EntriesAre
      <3>2. word[w].state \in {"absent", "gone"}
        BY <2>2, <2>5 DEF Live
      <3>3. QED
        BY <3>1, <3>2, NoWorkTyped, SameData DEF Trees!Entry
    <2>6. QED
      BY <2>4, <2>5
  <1>4. Entries \in [Words -> Trees!Entry]
    BY <1>3 DEF Entries
  <1>5. spent = {} /\ \A d \in Calls : ~Reading(d)
    BY DEF Init, Reading, InTx
  <1>6. Loaded = [c \in Calls |-> Trees!Nothing]
    BY <1>5, SameData DEF Loaded
  <1>7. QED
    BY <1>2, <1>3, <1>4, <1>5, <1>6 DEF Trees!Init

\* What a call has loaded, after a step of one call.
LEMMA LoadedMoves ==
    ASSUME NEW c \in Calls, Onward(c)
    PROVE  /\ Loaded' = [Loaded EXCEPT ![c] = Loaded'[c]]
           /\ Loaded[c] = IF Reading(c) THEN [word |-> work[c].word, tree |-> work[c].seen]
                          ELSE Trees!Nothing
           /\ Loaded'[c] = IF Reading(c)' THEN [word |-> work'[c].word, tree |-> work'[c].seen]
                           ELSE Trees!Nothing
  <1>1. \A d \in Others(c) : (Reading(d)' <=> Reading(d)) /\ work'[d] = work[d]
    BY DEF Onward, Same, Reading, InTx
  <1>2. ASSUME NEW d \in Calls, d # c PROVE Loaded'[d] = Loaded[d]
    BY <1>1, <1>2 DEF Loaded, Others
  <1>3. Loaded' = [Loaded EXCEPT ![c] = Loaded'[c]]
    BY <1>2 DEF Loaded
  <1>4. QED
    BY <1>3, SameData DEF Loaded

\* The tables stay: so do the trees.
LEMMA EntriesStay ==
    ASSUME Reads
    PROVE  Entries' = Entries /\ spent' = spent
  BY DEF Reads, Entries, Live, TreeOf, LinksOf, SensesOf

LEMMA ReturnedLoaded ==
    ASSUME NEW c \in Calls, Onward(c), Returned(c)
    PROVE  Loaded' = [Loaded EXCEPT ![c] = Trees!Nothing]
  <1>1. ~Reading(c)'
    BY DEF Returned, Reading, InTx
  <1>2. QED
    BY <1>1, LoadedMoves

-----------------------------------------------------------------------------
(* Refinement: the steps.                                                  *)

LEMMA WellFormedAfter ==
    RInv' => Trees!WellFormed'
  <1>1. RInv => TypeOK /\ TargetsFit
    BY DEF RInv, IInv
  <1>2. QED
    BY <1>1, WellFormedTables, PTL

\* What leaves the tables alone loads an entry, comes to nothing, or is not seen.
LEMMA GoingRefines ==
    ASSUME IInv, NEW c \in Calls, Going(c)
    PROVE  Trees!Next \/ UNCHANGED Trees!vars
  <1>1. TypeOK /\ Onward(c) /\ Reads /\ Went(c) /\ work[c] \in Work /\ Control
    BY GoingMoves DEF IInv, TypeOK
  <1>2. Entries' = Entries /\ spent' = spent
    BY <1>1, EntriesStay
  <1>3. ASSUME Loaded'[c] = Loaded[c] PROVE UNCHANGED Trees!vars
    <2>1. Loaded' = Loaded
      BY <1>1, <1>3, LoadedMoves DEF Loaded
    <2>2. QED
      BY <1>2, <2>1 DEF Trees!vars
  <1>4. CASE Returned(c)
    <2>1. Loaded' = [Loaded EXCEPT ![c] = Trees!Nothing]
      BY <1>1, <1>4, ReturnedLoaded
    <2>2. Trees!Return(c)
      BY <1>2, <2>1 DEF Trees!Return
    <2>3. QED
      BY <2>2 DEF Trees!Next
  <1>5. ASSUME NEW w \in Words, Live(w), ~Reading(c), Reading(c)',
               work'[c].word = w, work'[c].seen = TreeOf(w)
        PROVE  Trees!Next
    <2>1. Loaded[c] = Trees!Nothing
          /\ Loaded' = [Loaded EXCEPT ![c] = [word |-> w, tree |-> TreeOf(w)]]
      BY <1>1, <1>5, LoadedMoves
    <2>2. Trees!Exists(w) /\ Entries[w].tree = TreeOf(w)
      BY <1>1, <1>5, EntriesAre
    <2>3. Trees!Load(c, w)
      BY <1>2, <2>1, <2>2 DEF Trees!Load
    <2>4. QED
      BY <2>3 DEF Trees!Next
  <1>6. CASE pc[c] = "new" /\ Began(c)
    <2>1. ~Reading(c)
      BY <1>6 DEF Reading, InTx
    <2>2. CASE pc'[c] = "edit"
      <3>1. PICK w \in Words :
                /\ work'[c] = [NoWork EXCEPT !.word = w, !.base = word[w].token, !.seen = TreeOf(w)]
                /\ Live(w)
        BY <1>6, <2>2 DEF Began
      <3>2. work'[c].word = w /\ work'[c].seen = TreeOf(w)
        BY <3>1 DEF NoWork
      <3>3. Reading(c)'
        BY <2>2 DEF Reading
      <3>4. QED
        BY <1>5, <2>1, <3>1, <3>2, <3>3
    <2>3. CASE pc'[c] # "edit"
      <3>1. ~Reading(c)'
        BY <1>6, <2>3 DEF Began, Reading, InTx
      <3>2. QED
        BY <1>1, <1>3, <2>1, <3>1, LoadedMoves
    <2>4. QED
      BY <2>2, <2>3
  <1>7. CASE Submitted(c) \/ Locked(c) \/ Deleted(c) \/ Inserted(c) \/ Picked(c) \/ Wrote(c)
    <2>1. work'[c].word = work[c].word /\ work'[c].seen = work[c].seen
      BY <1>1, <1>7 DEF Work, Submitted, Locked, Deleted, Inserted, Picked, Wrote
    <2>2. Reading(c) /\ Reading(c)'
      BY <1>7 DEF Reading, InTx, Submitted, Locked, Deleted, Inserted, Picked, Wrote
    <2>3. QED
      BY <1>1, <1>3, <2>1, <2>2, LoadedMoves
  <1>8. CASE FoundComplete(c)
    <2>1. ~Reading(c) /\ Reading(c)' /\ Live(work[c].word) /\ work[c].word \in Words
      BY <1>8 DEF FoundComplete, Reading, InTx, Live
    <2>2. work'[c].word = work[c].word /\ work'[c].seen = TreeOf(work[c].word)
      BY <1>1, <1>8 DEF FoundComplete, Work
    <2>3. QED
      BY <1>5, <2>1, <2>2
  <1>9. QED
    BY <1>1, <1>4, <1>6, <1>7, <1>8 DEF Went

LEMMA InsertRefines ==
    ASSUME RInv, RInv', NEW c \in Calls, Insert(c)
    PROVE  Trees!Next
  <1>1. TypeOK /\ TypeOK' /\ Control
    BY DEF RInv, IInv
  <1>2. Onward(c) /\ Returned(c) /\ pc[c] = "insert"
    BY <1>1, ReturnMoves DEF Insert
  <1>3. PICK w \in Words : w = work[c].word /\ word[w].state = "absent"
    BY <1>1, <1>2 DEF Control, Locals
  <1>4. CASE UNCHANGED word
    <2>1. Going(c)
      BY <1>2, <1>4 DEF Insert, Going, Fail, Running, Reads
    <2>2. Entries' = Entries /\ spent' = spent
      BY <1>4, EntriesStay DEF Insert, Reads
    <2>3. Loaded' = [Loaded EXCEPT ![c] = Trees!Nothing]
      BY <1>2, ReturnedLoaded
    <2>4. QED
      BY <2>2, <2>3 DEF Trees!Next, Trees!Return
  <1>5. CASE word' = [word EXCEPT ![w] = [NoWord EXCEPT !.state = "live", !.token = c]]
    <2>1. sense' = sense /\ rel' = rel /\ spent' = spent
      BY DEF Insert
    <2>2. \A v \in Words : v # w => word'[v] = word[v]
      BY <1>1, <1>5 DEF TypeOK
    <2>3. /\ word'[w].state = "live" /\ word'[w].status = "draft" /\ word'[w].full = FALSE
          /\ ~Live(w) /\ Live(w)'
      BY <1>1, <1>3, <1>5 DEF TypeOK, NoWord, Live
    <2>4. SensesOf(w) = {} /\ LinksOf(w) = {}
      BY <1>1, <2>3, WordAssumption DEF TypeOK, KeysHold, SensesOf, LinksOf
    <2>5. TreeOf(w)' = NoTree
      BY <2>1, <2>3, <2>4 DEF TreeOf, NoTree, SensesOf, LinksOf
    <2>6. Entries[w].status = "absent"
      BY <1>3, <2>3 DEF Entries
    <2>7. Entries' = [Entries EXCEPT ![w] = [status |-> "draft", tree |-> Trees!NoTree]]
      <3>1. Entries'[w] = [status |-> "draft", tree |-> NoTree]
        BY <2>3, <2>5 DEF Entries
      <3>2. ASSUME NEW v \in Words, v # w PROVE Entries'[v] = Entries[v]
        <4>1. TreeOf(v)' = TreeOf(v) /\ (Live(v)' <=> Live(v))
          BY <2>1, <2>2, <3>2 DEF TreeOf, SensesOf, LinksOf, Live
        <4>2. QED
          BY <2>2, <3>2, <4>1 DEF Entries
      <3>3. QED
        BY <3>1, <3>2, SameData DEF Entries
    <2>8. Loaded' = Loaded
      <3>1. ~Reading(c) /\ ~Reading(c)'
        BY <1>2 DEF Reading, InTx, Returned
      <3>2. QED
        BY <1>2, <3>1, LoadedMoves DEF Loaded
    <2>9. Trees!Create(w)
      BY <2>1, <2>6, <2>7, <2>8 DEF Trees!Create
    <2>10. QED
      BY <2>9 DEF Trees!Next
  <1>6. QED
    BY <1>3, <1>4, <1>5 DEF Insert

LEMMA SetStatusRefines ==
    ASSUME RInv, NEW c \in Calls, SetStatus(c)
    PROVE  Trees!Next
  <1>1. TypeOK /\ Control /\ TokenPins /\ Checked(c)
    BY DEF RInv, IInv
  <1>2. Onward(c) /\ Returned(c) /\ pc[c] = "flip" /\ Reading(c)
    BY <1>1, ReturnMoves DEF SetStatus, Reading
  <1>3. PICK w \in Words : w = work[c].word
    BY <1>1, <1>2 DEF Control, Locals
  <1>4. Loaded' = [Loaded EXCEPT ![c] = Trees!Nothing]
    BY <1>2, ReturnedLoaded
  <1>5. sense' = sense /\ rel' = rel /\ cut' = cut /\ spent' = spent
    BY DEF SetStatus
  <1>6. CASE word' = word
    <2>1. Entries' = Entries
      BY <1>5, <1>6, EntriesStay DEF Reads
    <2>2. QED
      BY <1>4, <1>5, <2>1 DEF Trees!Next, Trees!Return
  <1>7. CASE word' # word
    <2>1. /\ AsRead(c) /\ Live(w)
          /\ word' = [word EXCEPT ![w].status = "published", ![w].token = c]
      BY <1>3, <1>7 DEF SetStatus, AsRead
    <2>2. /\ word'[w].state = "live" /\ word'[w].status = "published"
          /\ word'[w].full = word[w].full
          /\ \A v \in Words : v # w => word'[v] = word[v]
      BY <1>1, <2>1 DEF TypeOK, Word, Live
    <2>3. ASSUME NEW v \in Words PROVE TreeOf(v)' = TreeOf(v) /\ (Live(v)' <=> Live(v))
      BY <1>5, <2>1, <2>2 DEF TreeOf, SensesOf, LinksOf, Live
    <2>4. Entries' = [Entries EXCEPT ![w].status = "published"]
      <3>1. /\ Entries'[w] = [status |-> "published", tree |-> TreeOf(w)]
            /\ Entries[w] = [status |-> word[w].status, tree |-> TreeOf(w)]
        BY <2>1, <2>2, <2>3 DEF Entries
      <3>2. ASSUME NEW v \in Words, v # w PROVE Entries'[v] = Entries[v]
        BY <2>2, <2>3, <3>2 DEF Entries
      <3>3. QED
        BY <3>1, <3>2 DEF Entries
    <2>5. Loaded[c] = [word |-> w, tree |-> work[c].seen]
      BY <1>2, <1>3, LoadedMoves
    <2>6. SameButCut(TreeOf(w), work[c].seen) /\ Complete(work[c].seen)
      BY <1>1, <1>2, <1>3, <2>1 DEF TokenPins, Checked
    <2>7. Trees!AsLoaded(c)
      <3>1. Loaded[c].word = w /\ Loaded[c].tree = work[c].seen
        BY <2>5
      <3>2. Trees!Exists(w) /\ Entries[w].tree = TreeOf(w)
        BY <1>1, <2>1, EntriesAre
      <3>3. Trees!SameButCut(TreeOf(w), work[c].seen)
        BY <2>6, SameData
      <3>4. QED
        BY <3>1, <3>2, <3>3 DEF Trees!AsLoaded
    <2>8. Trees!Publish(c)
      BY <1>5, <2>4, <2>5, <2>6, <2>7, SameData DEF Trees!Publish
    <2>9. QED
      BY <1>4, <2>8 DEF Trees!Next, Trees!Return
  <1>8. QED
    BY <1>6, <1>7

\* A COMMIT files the body.
LEMMA CommitFiles ==
    ASSUME RInv, NEW c \in Calls, Commit(c),
           NEW w \in Words, w = work[c].word, NEW body \in Tree, body = work[c].body
    PROVE  TreeOf(w)' = Trees!Filed(body, Trees!Cut(Entries[w].tree, {}, Gone(c)))
  <1>1. IInv /\ TypeOK /\ OrphansKnown(c)
    BY DEF RInv, IInv
  <1>2. HasInserted(c) /\ Written(c) = Carried(body) /\ w # None
    BY <1>1, CommitMoves
  <1>3. word'[w].full = body.full
    BY <1>1, <1>1 DEF Commit, TypeOK, Word
  <1>4. SensesOf(w)' = body.senses
    <2>1. body.senses \subseteq Senses
      BY DEF Tree
    <2>2. \A s \in Senses : sense'[s] = w <=> s \in body.senses
      BY <1>1, <1>2, CommitSenses DEF SenseSaved
    <2>3. QED
      BY <2>1, <2>2 DEF SensesOf
  <1>5. PICK cutTree : cutTree = Trees!Cut(Entries[w].tree, {}, Gone(c))
    OBVIOUS
  <1>6. ASSUME NEW r \in Rels, Entries[w].tree.links[r] = rel[r]
        PROVE  /\ cutTree.links[r].word = rel[r].word
               /\ cutTree.links[r].target =
                     IF rel[r].target \in Gone(c) THEN None ELSE rel[r].target
    <2>1. cutTree.links[r] =
              [sense |-> rel[r].sense, word |-> IF rel[r].word \in {} THEN None ELSE rel[r].word,
               target |-> IF rel[r].target \in Gone(c) THEN None ELSE rel[r].target]
      BY <1>5, <1>6 DEF Trees!Cut
    <2>2. QED
      BY <2>1
  <1>7. ASSUME NEW r \in Rels
        PROVE  (IF r \in LinksOf(w)' THEN rel'[r] ELSE NoLink)
                   = IF body.links[r].word # None \/ r \notin Carried(body) THEN body.links[r]
                     ELSE [sense |-> body.links[r].sense, word |-> cutTree.links[r].word,
                           target |-> cutTree.links[r].target]
    <2>1. LinkSaved(c, r)
      BY <1>1, CommitLinks
    <2>2. r \in LinksOf(w)' <=> rel'[r].sense \in body.senses
      BY <1>4 DEF LinksOf
    <2>3. CASE r \in Carried(body)
      <3>1. /\ rel'[r] = RowOf(c, r) /\ RowOf(c, r) \in Link /\ Fits(c, r)
            /\ rel'[r].sense = body.links[r].sense /\ rel'[r].sense \in body.senses
        BY <2>1, <2>3 DEF LinkSaved
      <3>2. CASE body.links[r].word # None
        BY <2>2, <3>1, <3>2, OtherRow
      <3>3. CASE body.links[r].word = None
        <4>1. r \in LinksOf(w)
          BY <1>1, <1>2, <2>3, <3>3 DEF OrphansKnown, Orphaned
        <4>2. Entries[w].tree.links[r] = rel[r]
          BY <1>1, <4>1, EntriesAre
        <4>3. rel[r].sense \notin Gone(c)
          BY <3>1, NoneGone DEF Fits
        <4>4. PICK row \in Link : row = rel'[r]
          BY <3>1
        <4>5. /\ row.sense = body.links[r].sense /\ row.word = rel[r].word
              /\ row.target = IF rel[r].target \in Gone(c) THEN None ELSE rel[r].target
          BY <1>1, <3>1, <3>3, <4>3, <4>4, OrphanRow
        <4>6. row.word = cutTree.links[r].word /\ row.target = cutTree.links[r].target
          BY <1>6, <4>2, <4>5
        <4>7. row = [sense |-> row.sense, word |-> row.word, target |-> row.target]
          BY DEF Link
        <4>8. QED
          BY <2>2, <2>3, <3>1, <3>3, <4>4, <4>5, <4>6, <4>7
      <3>4. QED
        BY <3>2, <3>3
    <2>4. CASE r \notin Carried(body)
      <3>1. body.links[r] = NoLink
        BY <2>4 DEF Carried
      <3>2. r \in LinksOf(w)' => rel'[r] = NoLink
        <4>1. CASE r \in LinksOf(w)
          BY <2>1, <2>4, <4>1 DEF LinkSaved
        <4>2. CASE r \notin LinksOf(w)
          <5>1. rel'[r].sense = rel[r].sense /\ (rel[r] = NoLink => rel'[r] = NoLink)
            BY <2>1, <2>4, <4>2 DEF LinkSaved
          <5>2. ASSUME rel[r] # NoLink, rel[r].sense \in body.senses PROVE FALSE
            <6>1. PICK s \in Senses : s = rel[r].sense
              BY <1>1, <5>2 DEF TypeOK, KeysHold, Link
            <6>2. sense[s] # None /\ sense[s] # w
              BY <1>1, <4>2, <5>2, <6>1 DEF TypeOK, KeysHold, LinksOf, SensesOf
            <6>3. sense[s] \in {w, None}
              BY <1>1, <5>2, <6>1, CommitSenses DEF SenseSaved
            <6>4. QED
              BY <6>2, <6>3
          <5>3. QED
            BY <2>2, <5>1, <5>2
        <4>3. QED
          BY <4>1, <4>2
      <3>3. QED
        BY <2>4, <3>1, <3>2
    <2>5. QED
      BY <2>3, <2>4
  <1>8. TreeOf(w)' = [full |-> body.full, senses |-> body.senses,
                       links |-> [r \in Rels |-> IF r \in LinksOf(w)' THEN rel'[r] ELSE NoLink]]
    BY <1>3, <1>4 DEF TreeOf
  <1>9. Trees!Filed(body, cutTree)
             = [full |-> body.full, senses |-> body.senses,
                links |-> [r \in Rels |->
                    IF body.links[r].word # None \/ r \notin Carried(body) THEN body.links[r]
                    ELSE [sense |-> body.links[r].sense, word |-> cutTree.links[r].word,
                          target |-> cutTree.links[r].target]]]
    BY SameData DEF Trees!Filed
  <1>10. TreeOf(w)' = Trees!Filed(body, cutTree)
    BY <1>7, <1>8, <1>9
  <1>11. QED
    BY <1>5, <1>10

\* The tree of an entry whose relations are cut.
LEMMA CutTree ==
    ASSUME TypeOK, NEW v \in Words, NEW words \in SUBSET Words, NEW senses \in SUBSET Senses,
           Live(v), word'[v].full = word[v].full, SensesOf(v)' = SensesOf(v),
           \A r \in Rels : r \in LinksOf(v)' <=> r \in LinksOf(v),
           \A r \in LinksOf(v) :
               /\ rel'[r] \in Link /\ rel'[r].sense = rel[r].sense
               /\ rel'[r].word = IF rel[r].word \in words THEN None ELSE rel[r].word
               /\ rel'[r].target = IF rel[r].target \in senses THEN None ELSE rel[r].target
    PROVE  TreeOf(v)' = Trees!Cut(Entries[v].tree, words, senses)
  <1>1. Entries[v].tree = TreeOf(v)
    BY EntriesAre
  <1>2. TreeOf(v)' = [full |-> word[v].full, senses |-> SensesOf(v),
                      links |-> [r \in Rels |-> IF r \in LinksOf(v)' THEN rel'[r] ELSE NoLink]]
    BY DEF TreeOf
  <1>3. PICK t \in Tree : t = TreeOf(v)
    BY TreesTyped
  <1>4. /\ t.full = word[v].full /\ t.senses = SensesOf(v)
        /\ \A r \in Rels : t.links[r] = IF r \in LinksOf(v) THEN rel[r] ELSE NoLink
    BY <1>3 DEF TreeOf
  <1>5. Trees!Cut(t, words, senses) =
            [full |-> t.full, senses |-> t.senses,
             links |-> [r \in Rels |->
                [sense  |-> t.links[r].sense,
                 word   |-> IF t.links[r].word \in words THEN None ELSE t.links[r].word,
                 target |-> IF t.links[r].target \in senses THEN None ELSE t.links[r].target]]]
    BY DEF Trees!Cut
  <1>6. ASSUME NEW r \in Rels
        PROVE  (IF r \in LinksOf(v)' THEN rel'[r] ELSE NoLink) =
                   [sense  |-> t.links[r].sense,
                    word   |-> IF t.links[r].word \in words THEN None ELSE t.links[r].word,
                    target |-> IF t.links[r].target \in senses THEN None ELSE t.links[r].target]
    <2>1. CASE r \in LinksOf(v)
      <3>1. PICK row \in Link : row = rel'[r]
        BY <2>1
      <3>2. row = [sense |-> row.sense, word |-> row.word, target |-> row.target]
        BY DEF Link
      <3>3. QED
        BY <1>4, <2>1, <3>1, <3>2
    <2>2. CASE r \notin LinksOf(v)
      <3>1. None \notin words /\ None \notin senses
        BY WordAssumption
      <3>2. QED
        BY <1>4, <2>2, <3>1 DEF NoLink
    <2>3. QED
      BY <2>1, <2>2
  <1>7. [r \in Rels |-> IF r \in LinksOf(v)' THEN rel'[r] ELSE NoLink] =
            [r \in Rels |->
                [sense  |-> t.links[r].sense,
                 word   |-> IF t.links[r].word \in words THEN None ELSE t.links[r].word,
                 target |-> IF t.links[r].target \in senses THEN None ELSE t.links[r].target]]
    BY <1>6, Zenon
  <1>8. TreeOf(v)' = Trees!Cut(t, words, senses)
    BY <1>2, <1>4, <1>5, <1>7, Zenon
  <1>9. QED
    BY <1>1, <1>3, <1>8, Zenon

LEMMA CutNothing ==
    ASSUME NEW words \in SUBSET Words, NEW senses \in SUBSET Senses
    PROVE  Trees!Cut(NoTree, words, senses) = NoTree
  <1>1. None \notin words /\ None \notin senses
    BY WordAssumption
  <1>2. \A r \in Rels : NoTree.links[r] = NoLink
    BY DEF NoTree
  <1>3. QED
    BY <1>1, <1>2 DEF Trees!Cut, NoTree, NoLink

\* What becomes of an entry that a step of another one's save or deletion leaves.
LEMMA CutEntry ==
    ASSUME TypeOK, NEW v \in Words, NEW words \in SUBSET Words, NEW senses \in SUBSET Senses,
           word'[v] = word[v],
           Live(v) => TreeOf(v)' = Trees!Cut(Entries[v].tree, words, senses)
    PROVE  Entries'[v] = [status |-> Entries[v].status,
                          tree |-> Trees!Cut(Entries[v].tree, words, senses)]
  <1>1. CASE Live(v)
    <2>1. Entries[v].status = word[v].status
      BY <1>1 DEF Entries
    <2>2. Entries'[v] = [status |-> word[v].status, tree |-> TreeOf(v)']
      BY <1>1 DEF Entries, Live
    <2>3. QED
      BY <1>1, <2>1, <2>2
  <1>2. CASE ~Live(v)
    <2>1. Entries[v] = [status |-> word[v].state, tree |-> NoTree]
      BY <1>2 DEF Entries
    <2>2. Entries'[v] = [status |-> word[v].state, tree |-> NoTree]
      BY <1>2 DEF Entries, Live
    <2>3. QED
      BY <2>1, <2>2, CutNothing
  <1>3. QED
    BY <1>1, <1>2

\* A COMMIT is one save.
LEMMA CommitRefines ==
    ASSUME RInv, RInv', NEW c \in Calls, Commit(c)
    PROVE  Trees!Next
  <1>1. IInv /\ TypeOK /\ TokenPins /\ Committable /\ OrphansKnown(c)
    BY DEF RInv, IInv
  <1>2. PICK w \in Words : w = work[c].word
    BY <1>1, CommitMoves
  <1>3. PICK body \in Bodies : body = work[c].body
    BY <1>1, CommitMoves
  <1>4. /\ Onward(c) /\ Returned(c) /\ pc[c] = "commit" /\ InTx(c) /\ HasInserted(c)
        /\ AsRead(c) /\ Live(w) /\ Written(c) = Carried(body) /\ w # None
    BY <1>1, <1>2, <1>3, CommitMoves
  <1>5. body \in Tree /\ body.senses \subseteq Senses
    BY BodiesAreTrees DEF Tree
  <1> DEFINE old == Entries[w].tree
             gone == old.senses \ body.senses
  <1>6. gone = Gone(c) /\ gone \in SUBSET Senses
    <2>1. old.senses = SensesOf(w)
      BY <1>1, EntriesAre
    <2>2. QED
      BY <1>2, <1>3, <1>4, <2>1 DEF Gone, HasInserted, HasDeleted, SensesOf
  <1>7. word' = [word EXCEPT ![w].full = body.full, ![w].token = c]
        /\ spent' = spent \cup gone
    BY <1>2, <1>3, <1>6 DEF Commit
  <1>8. Entries'[w] = [status |-> Entries[w].status,
                       tree |-> Trees!Filed(body, Trees!Cut(old, {}, gone))]
    <2>1. word'[w].state = "live" /\ word'[w].status = word[w].status
      BY <1>1, <1>4, <1>7 DEF TypeOK, Word, Live
    <2>2. Entries[w].status = word[w].status
      BY <1>4 DEF Entries
    <2>3. TreeOf(w)' = Trees!Filed(body, Trees!Cut(old, {}, gone))
      BY <1>2, <1>3, <1>5, <1>6, CommitFiles
    <2>4. Entries'[w] = [status |-> word'[w].status, tree |-> TreeOf(w)']
      BY <2>1 DEF Entries, Live
    <2>5. QED
      BY <2>1, <2>2, <2>3, <2>4
  <1>9. ASSUME NEW v \in Words, v # w
        PROVE  Entries'[v] = [status |-> Entries[v].status,
                              tree |-> Trees!Cut(Entries[v].tree, {}, gone)]
    <2>1. word'[v] = word[v]
      BY <1>1, <1>7, <1>9 DEF TypeOK
    <2>2. /\ SensesOf(v)' = SensesOf(v)
          /\ \A r \in Rels :
                /\ rel'[r].sense \in SensesOf(v) <=> rel[r].sense \in SensesOf(v)
                /\ rel[r].sense \in SensesOf(v) =>
                      r \notin Carried(work[c].body) /\ r \notin LinksOf(work[c].word)
      BY <1>1, <1>2, <1>9, CommitElsewhere
    <2>3. \A r \in Rels : r \in LinksOf(v)' <=> r \in LinksOf(v)
      BY <2>2 DEF LinksOf
    <2>4. ASSUME NEW r \in LinksOf(v)
          PROVE  /\ rel'[r] \in Link /\ rel'[r].sense = rel[r].sense
                 /\ rel'[r].word = IF rel[r].word \in {} THEN None ELSE rel[r].word
                 /\ rel'[r].target = IF rel[r].target \in gone THEN None ELSE rel[r].target
      <3>1. r \in Rels /\ r \notin Carried(work[c].body) /\ r \notin LinksOf(work[c].word)
        BY <2>2, <2>4 DEF LinksOf
      <3>2. /\ rel'[r] \in Link /\ rel'[r].sense = rel[r].sense /\ rel'[r].word = rel[r].word
            /\ rel'[r].target = IF rel[r].target \in Gone(c) THEN None ELSE rel[r].target
        BY <1>1, <3>1, CommitLinks DEF LinkSaved
      <3>3. QED
        BY <1>6, <3>2
    <2>5. Live(v) => TreeOf(v)' = Trees!Cut(Entries[v].tree, {}, gone)
      <3>1. {} \in SUBSET Words
        OBVIOUS
      <3> HIDE DEF gone
      <3>2. QED
        BY <1>1, <1>6, <2>1, <2>2, <2>3, <2>4, <3>1, CutTree
    <2>6. QED
      <3> HIDE DEF gone
      <3>1. QED
        BY <1>1, <1>6, <2>1, <2>5, CutEntry
  <1>10. Entries' = [v \in Words |->
                        [status |-> Entries[v].status,
                         tree   |-> IF v = w THEN Trees!Filed(body, Trees!Cut(old, {}, gone))
                                    ELSE Trees!Cut(Entries[v].tree, {}, gone)]]
    <2> HIDE DEF old, gone
    <2>1. Entries' = [v \in Words |-> Entries'[v]]
      BY DEF Entries
    <2>2. QED
      BY <1>8, <1>9, <2>1
  <1>11. Entries[w].status = "published" => Trees!Complete(body)
    <2>1. Entries[w].status = word[w].status
      BY <1>4 DEF Entries
    <2>2. QED
      BY <1>1, <1>2, <1>3, <1>4, <2>1, SameData DEF TokenPins, Posted
  <1>12. ASSUME NEW r \in Trees!Carried(body)
         PROVE  /\ body.links[r].word = None => r \in Trees!Carried(old)
                /\ old.links[r].sense \notin gone
    <2>1. r \in Written(c) /\ r \in Rels
      BY <1>4, <1>12, SameData DEF Carried
    <2>2. body.links[r].word = None => r \in LinksOf(w)
      BY <1>1, <1>2, <1>3, <2>1 DEF OrphansKnown, Orphaned
    <2>3. Carried(old) = LinksOf(w) /\ old.links[r] \in {rel[r], NoLink}
      BY <1>1, <2>1, EntriesAre
    <2>4. rel[r].sense \notin Gone(c) /\ NoLink.sense \notin Gone(c)
      BY <1>1, <2>1, NoneGone DEF Committable, Fits
    <2>5. QED
      BY <1>6, <2>2, <2>3, <2>4, SameData
  <1>13. Trees!Put(w, body)
    BY <1>7, <1>10, <1>11, <1>12, WellFormedAfter DEF Trees!Put
  <1>14. Loaded[c].word = w /\ Loaded[c].tree = work[c].seen
    <2>1. Reading(c)
      BY <1>4 DEF Reading
    <2>2. Loaded[c] = [word |-> work[c].word, tree |-> work[c].seen]
      BY <1>4, <2>1, LoadedMoves
    <2>3. QED
      BY <1>2, <2>2
  <1>15. Trees!AsLoaded(c)
    <2>1. SameButCut(TreeOf(w), work[c].seen)
      BY <1>1, <1>2, <1>4 DEF TokenPins, Reading
    <2>2. Trees!Exists(w) /\ Entries[w].tree = TreeOf(w)
      BY <1>1, <1>4, EntriesAre
    <2>3. Trees!SameButCut(TreeOf(w), work[c].seen)
      BY <2>1, SameData
    <2>4. QED
      BY <1>14, <2>2, <2>3 DEF Trees!AsLoaded
  <1>16. Trees!Save(c)
    <2>1. body \in Trees!Tree
      BY <1>5, SameData
    <2>2. QED
      BY <1>13, <1>14, <1>15, <2>1 DEF Trees!Save
  <1>17. Loaded' = [Loaded EXCEPT ![c] = Trees!Nothing]
    BY <1>4, ReturnedLoaded
  <1>18. QED
    BY <1>16, <1>17 DEF Trees!Return, Trees!Next

\* DELETE FROM words is one deletion.
LEMMA DropRefines ==
    ASSUME RInv, NEW c \in Calls, Drop(c)
    PROVE  Trees!Next
  <1>1. IInv /\ TypeOK
    BY DEF RInv, IInv
  <1>2. Onward(c) /\ Returned(c) /\ pc[c] = "drop"
    BY <1>1, DropMoves DEF Drop
  <1>3. PICK words \in SUBSET Words : \E senses \in SUBSET Senses : Dropped(c, words, senses)
    BY <1>1, DropMoves
  <1>4. PICK senses \in SUBSET Senses : Dropped(c, words, senses)
    BY <1>3
  <1>5. \A w \in words : Trees!Exists(w)
    BY <1>1, <1>4, EntriesAre DEF Dropped
  <1>6. UNION {Trees!SensesOf(w) : w \in words} = senses
    <2>1. \A w \in words : Trees!SensesOf(w) = SensesOf(w)
      BY <1>1, EntriesAre DEF Trees!SensesOf
    <2>2. \A s \in Senses : s \in senses <=> sense[s] \in words
      BY <1>4 DEF Dropped
    <2>3. QED
      BY <2>1, <2>2 DEF SensesOf
  <1>7. ASSUME NEW v \in words
        PROVE  Entries'[v] = [status |-> "gone", tree |-> Trees!NoTree]
    <2>1. v \in Words /\ word'[v].state = "gone"
      BY <1>4, <1>7 DEF Dropped, NoWord
    <2>2. QED
      BY <2>1, SameData DEF Entries, Live
  <1>8. ASSUME NEW v \in Words, v \notin words
        PROVE  Entries'[v] = [status |-> Entries[v].status,
                              tree |-> Trees!Cut(Entries[v].tree, words, senses)]
    <2>1. word'[v] = word[v]
      BY <1>4, <1>8 DEF Dropped
    <2>2. ASSUME Live(v) PROVE TreeOf(v)' = Trees!Cut(Entries[v].tree, words, senses)
      <3>1. Live(v)' /\ Follows(v)
        BY <1>1, <1>4, <2>1, <2>2, DropFollows DEF Live
      <3>2. SensesOf(v)' = SensesOf(v)
            /\ \A r \in Rels : rel'[r].sense \in SensesOf(v) <=> rel[r].sense \in SensesOf(v)
        BY <3>1 DEF Follows
      <3>3. \A r \in Rels : r \in LinksOf(v)' <=> r \in LinksOf(v)
        BY <3>2 DEF LinksOf
      <3>4. ASSUME NEW r \in LinksOf(v)
            PROVE  /\ rel'[r] \in Link /\ rel'[r].sense = rel[r].sense
                   /\ rel'[r].word = IF rel[r].word \in words THEN None ELSE rel[r].word
                   /\ rel'[r].target = IF rel[r].target \in senses THEN None ELSE rel[r].target
        <4>1. r \in Rels /\ rel[r].sense \in SensesOf(v)
          BY <3>4 DEF LinksOf
        <4>2. rel[r].sense \notin senses
          BY <1>4, <1>8, <4>1 DEF Dropped, SensesOf
        <4>3. TypeOK /\ Dropped(c, words, senses)
          BY <1>1, <1>4
        <4>4. rel' = Remaining(words, senses)
          BY <4>3 DEF Dropped
        <4>5. QED
          BY <4>1, <4>2, <4>3, <4>4, LinkRemains
      <3>5. QED
        BY <1>1, <2>1, <2>2, <3>2, <3>3, <3>4, CutTree
    <2>3. QED
      BY <1>1, <2>1, <2>2, CutEntry
  <1>9. Entries' = [v \in Words |->
                       IF v \in words THEN [status |-> "gone", tree |-> Trees!NoTree]
                       ELSE [status |-> Entries[v].status,
                             tree |-> Trees!Cut(Entries[v].tree, words, senses)]]
    <2>1. Entries' = [v \in Words |-> Entries'[v]]
      BY DEF Entries
    <2>2. QED
      BY <1>7, <1>8, <2>1
  <1>10. Loaded' = Loaded
    <2>1. ~Reading(c) /\ ~Reading(c)'
      BY <1>2 DEF Reading, InTx, Returned
    <2>2. QED
      BY <1>2, <2>1, LoadedMoves DEF Loaded
  <1>11. spent' = spent \cup senses
    BY <1>4 DEF Dropped
  <1>12. Trees!Delete(words)
    BY <1>5, <1>6, <1>9, <1>10, <1>11 DEF Trees!Delete
  <1>13. QED
    BY <1>12 DEF Trees!Next

\* The statements implement operations on whole trees, each at once: a save or a publish
\* takes effect on the tree that was loaded or not at all, and other entries lose nothing
\* but their links to what is deleted.
THEOREM Refinement == Spec => ImplementsTrees
  <1>1. RInv /\ RInv' /\ [Next]_vars => [Trees!Next]_(Trees!vars)
    <2> SUFFICES ASSUME RInv, RInv', [Next]_vars
                 PROVE  Trees!Next \/ UNCHANGED Trees!vars
      OBVIOUS
    <2>1. CASE UNCHANGED vars
      BY <2>1 DEF vars, Trees!vars, Entries, Loaded, Live, TreeOf, SensesOf, LinksOf, Reading, InTx
    <2>2. ASSUME NEW c \in Calls,
                 Going(c) \/ Insert(c) \/ SetStatus(c) \/ Commit(c) \/ Drop(c)
          PROVE  Trees!Next \/ UNCHANGED Trees!vars
      BY <2>2, GoingRefines, InsertRefines, SetStatusRefines, CommitRefines, DropRefines DEF RInv
    <2>3. QED
      BY <2>1, <2>2, StepCases
  <1>2. QED
    BY <1>1, TreesInit, RInvariance, PTL DEF Spec, ImplementsTrees, Trees!Spec
=============================================================================
