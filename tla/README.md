# A verification project for tsz-go

TLA+ models of the server in this repository, the TLC runs that check them on small
instances, and theorems about all of them that TLAPS checks for every value of the constants.
The models are written from the code under `src/`; `PROJECT.json` names, for
every definition that models code, the lines it stands for.

## 1. The system

tsz-go is a stateless HTTP server (gin) on one Postgres database (pgx, READ COMMITTED
unless a transaction says otherwise). There are no workers, queues or caches in the
process: except for the per-IP rate limiter, all state is in tables, and all concurrency
is between requests that interleave **between SQL statements**. Most services open no
transaction, so a handler acts on rows it has read some time ago; those that do rely on
row locks, unique indexes, foreign keys and one advisory lock. Any statement may fail, any
request may be cancelled, the server may stop between two statements, and the
acknowledgement of a statement that has been executed may be lost.

| Component | State | Operations | Interacts with | Hard behaviours | Correct when |
|---|---|---|---|---|---|
| coin (`internal/coin`) | `coin_wallet`, `coin_ledger` | Post, Reverse, queries | callers that retry with idempotency keys | concurrent posts on a wallet, retries that overlap the original, waits on rows and on index entries, overflow, lost commits | balances are explained entry by entry by the ledger, a key and a reversal are booked once, rows never change, answers are true, nobody waits for ever |
| session (`internal/session`) | `refresh_tokens` (and `admin_refresh_tokens`) | Issue, Rotate, Revoke, RevokeAll | user, admin | four statements without a transaction; half-done rotations; expiry; deletion of the user | what has been ended stays ended; a line of rotations has one live token; one device |
| otp (`internal/otp`) | `verification_codes` | RequestCode, Verify | user; the sender | limits are counted before the code is saved; guesses at once; a code that is saved and cannot be sent | accepted codes are genuine, fresh and unspent; locks and limits hold |
| admin (`internal/admin`) | `admins` | login, refresh, create, enable, disable, list; seed | session, access tokens, `cmd/seed` | two disables at once; promotion and enabling next to them; a seed that is interrupted; a level kept in an access token | the back office is never without an active super_admin |
| user (`internal/user`) | `users`, `user_roles`, profiles | register, three logins, refresh, logout, logout everywhere, reset, bind, delete, switch and add role | session, otp, access tokens | every handler is several statements of three packages | changes of an account are proven by a code; resets, switches and deletions are final |
| word (`internal/word`) | `words`, `word_senses`, `word_sense_relations` and seven more | create, load, save, publish, delete, lists, search | admin accounts; the publish hook | optimistic lock, a diff of trees, foreign keys that change other entries, ids made up by clients | no work is lost, ids stay where they are, what is published is complete |
| access tokens (`internal/auth`) | none (JWT) | issue, parse | middleware | outlive the row they were made from | a token says what was true when it was made |
| HTTP handlers (`handler.go` of user and admin) | the refresh-token cookie, in the browser | set it, clear it | session; a browser with several tabs | answers that overtake each other or get lost, tabs that share a cookie | the cookie and the token behind it stay in step |
| rate limiter (`internal/platform/httpserver/ratelimit.go`) | token buckets by address, in memory | allow, sweep | the public routes of user and admin | the clock is read before the mutex is held; buckets are made and swept while requests wait; a restart forgets them | sweeping changes nobody's budget, and old buckets do not pile up |
| router, middleware (`internal/platform/httpserver`) | none | authenticate, authorise | every handler | a token that outlives what it says | only who may act acts |
| `cmd/server`, `cmd/seed`, `cmd/migrate`, config, log, tracing, metrics, apigen, docs | start-up only | | | | |

`PROJECT.json` lists each with its status, and under `hazards` the lines where these
behaviours bite, with the property that watches each.

## 2. The modules

| Module | Models | Notes |
|---|---|---|
| `CoinBook` | what the coin ledger promises | one atomic step per booking or reversal |
| `CoinLedger` | `Repository.Post`, `Repository.Reverse` | one action per SQL statement; `INSTANCE CoinBook` is the refinement |
| `Session` | `session.Service` and its table | one action per statement, each its own transaction |
| `Browser` | the auth handlers of `user/handler.go` and a browser's cookie jar | extends `Session`: each call of the service is made by the browser or elsewhere, for any user |
| `Otp` | `otp.Service` and its table | as above, with a clock |
| `AdminRoster` | what the back office promises of its accounts | |
| `AdminGuard` | `admin.Service`, `admin.Repository` | one action per statement; `INSTANCE AdminRoster` is the refinement |
| `Accounts` | `user.Service`, `user.Repository` | composes them with the statements of session and otp |
| `EntryTree` | what an entry consists of: its senses, their relations, and the rest of it as one bit | the data `WordTrees` and `WordList` share |
| `WordTrees` | what the word list promises its editors | whole trees are loaded, saved, published and deleted at once |
| `WordList` | `word.Service`, `word.Repository` | one action per statement (or group that nothing can come between); `INSTANCE WordTrees` is the refinement |
| `Throttle` | what the rate limiter promises: one budget for each address, which only time gives back | |
| `RateLimiter` | `IPRateLimiter.allow`, `sweep`, `Middleware` | one action for what is done under the mutex; `INSTANCE Throttle` is the refinement |
| `CoinLedger_proofs`, `AdminGuard_proofs`, `RateLimiter_proofs`, `Session_proofs`, `Browser_proofs`, `Otp_proofs`, `Accounts_proofs`, `WordList_proofs` | | theorems |
| `MC*` | | constants, symmetry and bounds for TLC |

All modules but `RateLimiter` have the same form. `Calls` is a set of requests, each made once; a retry is
another call. `pc[c]` is the statement that call `c` executes next; what a call was
asked (`op`, `req`) and what it has read (`work`, `seen`) are separate variables, `reply` is
what it returned. `Begin…` takes an input, one action per statement follows, `Return` ends
the call and with it the transaction it had open. `before[c]`, where it is there, is a
history variable: the calls that had returned when `c` began, so that properties can
tell "after" from "at the same time". `Fail` (`Abort`) lets any statement fail, and
`Executed(c, next)` lets the acknowledgement of one that has been executed be lost; a
crash of the server is the failure of all its calls. `AllDone` stutters when every call
has returned, so that TLC's deadlock check means: some call waits for ever.

**Uncommitted writes.** Where the code opens a transaction (coin, disabling an admin,
saving a word) the committed tables change at COMMIT; what the transaction has written
before shows only through its locks, and these are functions of `pc` (`HoldsWallet`,
`IndexBusy`, `HoldsGuard`, `LocksWord`, `SharesSense`, …), so they end when it does. An
action that has to wait for a lock is taken when it can complete, with a
snapshot of that moment, as READ COMMITTED re-reads the row after the wait.

**Names.** Rows whose ids or secrets are random are named by the call that makes them
(ledger entries, tokens, codes, passwords, the `updated_at` of an entry). Contacts, ids
and keys are model values.

### coin
`BeginPost`, `LookupHit/Miss` (the idempotency short-circuit), `EnsureWallet`,
`ApplyDelta/RefuseDelta/OverflowDelta` (the conditional UPDATE), `InsertRow/InsertConflict`,
`RereadKey`, `Commit`; and for a reversal `LoadOriginal/LoadMissing` (FOR UPDATE) and
`CheckReversed`. The two partial unique indexes make an insert wait for an uncommitted
entry (`IndexBusy`) and then fail or go on. `seq` is the wallet's `version` at the row, and is a
history of the order of the wallet's lock, not a column.

### session, otp
Each method is its statements. `Expire`, `DeleteUser` (which the foreign key turns into the
removal of the tokens) and `Tick` are the environment.

### browser
One browser, with as many tabs as it likes, and other clients ("elsewhere"), which make
any call of `Session` with any token that was ever handed out. Nothing ties the browser to one user: it may log in
as another one while it holds the first one's cookie. A call of the browser takes its
cookie from the jar when it is sent (`LogIn`, `Refresh`, `LogOut`, `LogOutUnknown`, `LogOutAll`),
is served by the actions of `Session`, and changes the jar when its answer arrives (`Arrive`,
`Cookies`), in any order; `Lose` is an answer that never does, or a 500 after the session service
has done its part. `Cookies` is the table of what each answer does to the cookie: a login or
refresh sets it, a logout clears it whether or not there was one, a refresh that is refused clears
it, and so does one whose account turns out to be disabled after the rotation; logout
everywhere, a refresh without a cookie, and every other error leave it alone. `raced` is history: the calls that were out together with
another one of this browser.

### limiter
`Arrive` is `time.Now()` before the lock, `Grant` and `Refuse` are everything `allow` does under it
(`Serve`): sweep if that is due, find or make the bucket, set `lastSeen` to the time read *before*,
take a token. Times are kept as ages, which `Tick` lets grow up to one at which no comparison changes any more, so
the state space is finite and is explored without a horizon. A request may wait `Patience` ticks for the mutex, and requests get it in any
order. The library's bucket is external: it earns one token in `Interval` ticks
up to `Burst`, on its own clock. `Restart` forgets everything, as the server does.

### admin
The table is arbitrary at first (accounts may be there before the first super_admin).
`claims` is what access tokens say: the routes behind `RequireSuperAdmin` are guarded
by it, not by the table. Disabling takes the advisory lock, checks, updates
and commits; everything else takes no part in that lock.

### accounts
The eleven operations of the router that touch contacts, passwords, roles, sessions or
existence, and the enabling and disabling of users, which `Repository.SetStatus` offers and no
route calls yet. Attempts, expiry and limits of codes are left to `Otp`; expiry of tokens
to `Session`. `codes` holds the rows of `verification_codes` in the order they were saved; a
code that has been used keeps its row and is flagged `consumed`, and the one to verify is the last that is not.

### word
An entry is its senses, the relations of its senses to (senses of) entries, and one bit
`full` for everything else that rules V1–V9 ask for. Saves carry any body `validateTree`
accepts that differs from the loaded tree by at most `MaxChanges`, including ids of other
entries and ids that have been deleted. Saving is: load (`BeginSave`), read again and check
(`Submit`), lock and compare the token (`Lock`), delete (`DeleteNodes`), insert senses
(`UpsertSenses`), and for each relation resolve and write (`Resolve`, `Upsert`), then
`Commit`. Deleting senses or entries cuts relations of other entries (ON DELETE SET NULL)
**without a new `updated_at`**, the source of what is hard here.

`WordTrees` has neither rows nor statements nor tokens. An entry is a status and a tree; a save files the tree
it was asked to, if the entry still is as its call loaded it but for links that deletions have cut; a publish flips an entry
whose tree it has found complete; a deletion, of an entry or by a save, cuts what pointed there in all other
trees. `Entries` and `Loaded` in `WordList` are the mapping: an entry's tree is read off the three tables, and what a call has
loaded is in its locals from its reading (`BeginSave`, or `CheckComplete` of a publish) until it has
committed or is over. So `ImplementsTrees` says that a transaction of many statements, some of which check what
others may change before it commits, amounts to one step at its commit.

## 3. The runs

| Run | Instance | Shows |
|---|---|---|
| `coin` | 3 calls, 2 wallets, 1 key, amounts +2 and -1, balance at most 3, fair | all safety properties of the ledger, the refinement of `CoinBook`, and that every call returns: no cycle of waits |
| `coinRetry` | 3 calls, 1 wallet, 1 key | **violation**: a retry overtaken by its original |
| `session` | 4 calls, 2 users, a browser and other clients | what is ended stays ended, two sessions need an overlap, and the cookie keeps in step with the token |
| `sessionDevice` | 3 calls, 1 user | **violation**: two devices after two overlapping logins |
| `otp` | 3 calls, 1 target, 2 values, 5 instants, limits 1 and 2 | accepted codes are genuine; locks and limits hold between calls that do not overlap |
| `otpSingleUse` | 3 calls | **violation**: one code accepted twice |
| `admin` | 4 calls, 3 accounts, any initial table | never locked out; the refinement of `AdminRoster` |
| `accounts` | 2 calls of register, reset, bind, delete, send; 2 users, 3 contacts | unique contacts, tables agree, changes are proven |
| `accountAccess` | 3 calls of eleven operations, 1 user | resets, switches, disabling and deletion are final |
| `word` | 3 calls, 2 entries, 2 senses, 1 relation | the refinement of `WordTrees` (with it, that senses stay in their entries); nothing is overwritten, targets fit, published entries are complete |
| `wordPublish` | 2 calls | **violation**: an incomplete entry is published |
| `limiter` | 3 requests at once, 2 addresses, 2 tokens of 2 ticks, idle after 5 ticks, waits of up to 2 | the refinement of `Throttle`; old buckets do not pile up |

### Bounds, and why they are enough
- **Calls.** What goes wrong between statements takes two actors, and a third to be harmed
  by it or to spend what they left; three or four calls hold every pair with a witness.
- **coin.** A maximum of 3 with +2 and -1 makes refusal, exact zero and overflow all happen
  within three posts; one key is enough for two uses of it, and calls without a key and
  reversals run next to them. Three calls are what a wait in a circle through a
  wallet, an entry and the index can involve, since a transaction takes locks on one wallet only;
  calls are not treated as interchangeable here, because liveness is checked. What holds of more calls than three is proved (4).
- **session, otp.** One owner or target and purpose: the statements of different
  ones touch different rows. `Horizon` 4 with a TTL and a cooldown of 1 and a day of 3 passes
  each window's end. The windows' ends are inclusive, as in the SQL. In `MCOtp` the clock of `otp` stands still before the first
  call and after the last one, when nothing can tell the difference.
- **session (browser).** `MCBrowser` begins in one of two worlds. In the first nobody uses the browser,
  and four calls of other clients, with failures, expiry and deletion, are `Session` by itself. In the second
  a user has logged in on the browser; of the three calls that follow at most `MaxOdd` = 1
  comes from other clients or is for the other user, and such calls, lost answers and failures are at most `MaxTrouble` = 2
  together. In both, tokens expire or the user is deleted only in behaviours that leave a call unmade and do not involve the other user.
  Three calls are two tabs and somebody else, or two tabs and a third call that meets what they left.
- **limiter.** `Burst` 2 and `Interval` 2 make a bucket that is full, partly filled and
  empty; `IdleTTL` 5 is the least that `LimiterAssumption` allows with a `Patience` of 2, so
  a bucket is swept at the first moment at which it must be full. With `IdleTTL` one less, and without that assumption,
  TLC finds `ImplementsThrottle` violated, and with a bound one less in
  `MemoryBounded`, that. A third slot lets a late request come between two others.
- **admin.** Three accounts: two that are disabled, one that is left. At first one of them at most is disabled.
- **accounts.** `Kinds` bounds what a run calls. `accounts` has the operations that
  write contacts, passwords and existence, `accountAccess` those that hand out access.
  `Sent` are codes that have been sent before, so that three calls are enough to use them. At first whoever has an account acts in
  the role of it (`accounts`), or there is one account, with a session (`accountAccess`); the theorems are about any beginning.
- **word.** `MaxChanges` = 1: one sense (with its relations), one relation or the
  content is changed by a save; the delete of a sense that another entry points to, or a
  relation that is retargeted, is one change. `MCInit` begins with one published
  entry and one that is absent or a draft; drafts that get published and entries that get
  deleted come from the calls. A relation that is there at first is the published entry's, and points to the other one,
  or is an orphan if that one is absent; relations of the draft, or of an entry to itself, come from saves. `wordPublish` begins
  with complete drafts.
- Between them the passing runs fire every action, and for each of their properties there is a plausible bug (`…_NotAsked`, `…_AnyToken`, and so on, each just
  before the definition it replaces) with which TLC finds that property violated.

### Fairness
Only `CallsReturn`, in `coin`, needs any: weak fairness of `Advance(c)` for each call that has begun.
Postgres runs a statement that waits for no lock, and grants a lock when its
holder's transaction ends; a client's going away or a crash is `Abort`, which is allowed and
not required. Nothing is assumed of `Begin`: no request has to be made.

## 4. What is proved

TLAPS checks the following for every set of calls, owners, keys, amounts, accounts, users, contacts, targets, slots and
addresses, every maximal balance, every horizon and every configuration its module's assumption admits; `PROJECT.json` lists the theorems.

**`CoinLedger_proofs`**, from `CoinAssumption` (amounts within the column, `None` is
nothing else). The books are right because of what is true while a transaction is under way: `ControlOf` says what a call's locals
mean at each `pc` (in particular that the balance it is about to commit is still the
wallet's plus its amount, and that its key and its original are still free), and
`Exclusion` that no two calls hold the same wallet, or wait to commit the same key or
reversal. `LockDiscipline` is the two together, and inductive with `TypeOK`: a step of one call
keeps what another has read, because it would need the other's lock. With it, `Commit`
is the only step that matters for `BalanceChain`, `BookedOncePerKey`
and `ReversalsNetToZero`; `RepliesAreTrue` and `AppendOnly` follow, and each step is
a `Book`, a `Reverse` or a stutter of `CoinBook` (`Refinement`).

**`AdminGuard_proofs`**, from `AdminAssumption`. The inductive invariant is
`TypeOK /\ GuardDiscipline /\ CheckStaysTrue /\ SomeoneIsInCharge`. The difficult
part is that creating and seeding ignore the advisory lock: `CheckStaysTrue`
survives them since they only add active super_admins or promote, and survives
another disable since the guard excludes it. `InChargeFor` carries the right to act from
the token or row on which a call relies. From these, `NotLockedOut` and the refinement of
`AdminRoster` are one step each.

**`RateLimiter_proofs`**, from `LimiterAssumption`: a token and a burst are positive, and an idle
bucket has been refilled (`Full + Patience <= IdleTTL + 1`). With the server's defaults (a burst of 10 at 30 a
minute, an idle time of 600 s) a bucket is full after 20 s, so the assumption
holds as long as no request waits ten minutes for the mutex; neither the burst nor the rate is
validated (`config.go:96-97`), and a burst above 300 at 30 a minute, or one of 0, would break it. The inductive invariant is `TypeOK`, `Earned`
(a bucket is full, or holds at least what was earned since it was last seen, less the longest wait) and
`Aged` (no bucket is older than the last sweep by more than the idle time). `Earned` says that
a bucket that `sweep` removes is full even for a request that read its clock late, hence
that removing it and making a full one later changes no budget: each step is
one of `Throttle` (`Refinement`). `Aged` gives `MemoryIsBounded`.

**`Session_proofs`**, from `SessionAssumption` (`None` is nothing else). The properties speak of calls that have
returned; the code works statement by statement and without a transaction. `Control` says what a call knows at
each statement (`Asked`, `Placed`) and that a row is of the call that saved it (`Minted`). `Ended` is `SignedOut` moved
to the moment at which it becomes true: from its `save` on, or its answer, a call has ended what it was to
end (`Past`). `Refused` says that a rotation that has found its token live began before anybody was past that.
`TokensMeet` and `RotationsMeet` follow live tokens, and rotations half-done, to an overlap in their
lines: a save adds a token, and whoever could have revoked the others before it must have run beside it. Together they
are inductive, and `SignedOut`, `DeadTokensAreRefused`, `LineIsSpent` and `TwoDevicesNeedOverlap` follow.
The lemmas are about `Step`, which is a step of `Session` or a browser's logout without a cookie, so that they serve `Browser` as well.

**`Browser_proofs`**, from the same assumption. A step of `Browser` is one of the service, of the jar, or of
both, hence the invariant of `Session` with three additions (`SInv`: who revoked a token, what a rejection means), and
six parts for the browser: calls that are out together are marked (`Marked`), a call that was out alone comes
after all answers before it (`InTurn`), what is in the jar while it is out (`JarSent`) and after it was answered (`JarAfter`), and that
a cookie sent after a logout descends from a later login (`LoggedInAgain`). `DeadCookiesExplained`, `LogoutLasts` and `CookiesKept` follow.
`WorkingCookieKept` as it was first stated, for one user, could not be proved for two, and TLC
then found why: a login as somebody else replaces a working cookie. Hence its proviso, and the second user of the run.

**`Otp_proofs`**, from `OtpAssumption` (the configuration's numbers, and finitely many calls, since misses are counted).
`MissesCounted` and the limits are inductive with what a call has read: the code a `Verify` has read was
unspent and below its limit of misses as far as earlier calls go (`Fresh`), and a request that is past a check has found no
earlier code too young (`Cooled`), and few enough (`Counted`). `AcceptedInGoodFaith` and `LockedOut` follow; the
cardinality of a growing set of calls is the only arithmetic that is not the clock's.

**`Accounts_proofs`**, from `AccountsAssumption` and `SentAssumption`. `Control` puts each of the operations on its route
of statements, with what it has found and verified there. The rest is, for each promise, the same thing
twice: what an operation that has *returned* has made of the tables (`StatusKept`, `Ended`, `ActiveKept`, `PasswordFresh`,
`RolesHeld`), and what one that is *under way* can have read, given who had returned before it began (`Admitted`,
`Alive`, `LastSeen`, `OldRefused`, `SessionsEnd`). The first is kept because whoever undoes it has the right to, and the second because a
read is no older than its call. `ChangesProven` is a step property and follows from `Control`. The model was changed
for this: a code that has been used used to be taken out of the sequence of codes, with a filter that is defined by
recursion and could not be reasoned about; as in the table, it now stays and is marked.

**`WordList_proofs`**, from `WordAssumption`. What a transaction has written shows only in its locks, which are
functions of its locals, so the invariant is about them: `Apart` says what two calls' locks exclude (the
root row, the rows of relations, new sense ids, FOR KEY SHARE against deletion), `Committable` that the rows a save is about to
commit keep the foreign keys and replace rows of its own entry or none, although what they point to was checked some
statements ago: whoever would delete it needs a lock that `Apart` denies. `TokenPins` says what an optimistic token is
worth: as long as the entry still has it, its tree is the one that was read, but for
links that deletions have cut, and a body that was checked as complete still must be. `CheckStands` says that of the publish between its check and its flip. A
lemma for each kind of step shows that the writes and locks of all others are `Steady` under it. `TypeCorrect` (the foreign keys),
`TargetsAlwaysFit` and `PublishedStaysComplete` are parts of the invariant, `SensesStayPut` and `NothingLost` follow
from it in one step.
`Refinement`, that `WordList` implements `WordTrees`, needs two things more (`RInv`): a relation that a save
keeps as an orphan was one of its entry's when it was loaded and is still (`OrphansKnown`), and the tree a publish goes on
with was complete when it was read (`Checked`). `WellFormedTables` turns `TablesFit` into what `WordTrees` says of whole trees.
Then the steps of the code are sorted: a commit of a save files a tree and cuts the links to what it has
deleted (`CommitFiles`, `CutTree`, `CommitRefines`), which needs `TokenPins` for the tree it replaces and
`Committable` for the one it writes; `Insert`, `SetStatus` and the deletion are one step each; what only reads loads, or
gives up what was loaded, and all the rest are stutters. Saves may change any number of things here: `MaxChanges` bounds the run only.

The theorems without a property in `PROJECT.json` (`LocksHold`, `LedgerAppendOnly`, `CheckHolds`, `SensesStayPut`, `Invariance` of four modules, and
`TypeCorrect` of `Session`, whose part in the run is played by `BrowserTypeOK`) state what the other proofs rest on, or what follows from the
refinement; no run checks these on its own.

**Only model-checked:** `CallsReturn`, since liveness under fairness is out of the prover's reach. Every invariant and
action property of the passing runs is a theorem. That a balance is the *sum* of its
entries would need induction over data; `BalanceChain`, which is proved, says the same entry by entry.

## 5. Where the code and its documents differ

Each of these is a run that TLC finds violated, and a finding in `PROJECT.json`:
- `coinRetry`: a retry that overlaps the original may be told *insufficient balance*
  although the original is booked, because the conditional UPDATE refuses before the unique
  index can object. It may simply be retried once more.
- `sessionDevice`: two overlapping logins leave two live refresh tokens.
- `otpSingleUse`: two overlapping verifications both accept one code.
- `wordPublish`: a target's sense is deleted between the check and the flip; the publish's token
  still matches.

Noted while modelling, without a run of their own. Where a property is said here to be stated with a
proviso, the code allows the behaviour and the property does *not* catch it: it shows that nothing less than
the proviso brings it about. Such a hazard names no property in `PROJECT.json`, or only those for the part
of it that is caught.

- The cooldown is per target *and purpose* (`otp/repository.go:79-89`), the README speaks of a
  single phone or email (README.md:105-107).
- A guess that was let in before the last allowed miss was counted may still be accepted: the
  cap on attempts is exceeded by as many guesses as overlap (`otp/service.go:29`). `LockedOut`
  is stated for guesses that begin afterwards.
- The limits are counted before the code is saved (`otp/service.go:111`, `:97`), so requests made at the same
  time all pass them: `CooldownKept` and `DailyLimitKept` are stated for requests one after the other. A code
  that is saved and then cannot be sent counts as well, so the user waits out a cooldown for nothing.
- Only the latest *unconsumed* code counts (`otp/repository.go:36-42`): consuming it makes the one before
  it valid again until that expires. `AcceptedInGoodFaith` asks only that an accepted code is unspent and fresh.
- A refresh that has found its token live goes on to save a new one, although a logout has ended the old
  one in between (`session/service.go:92-103`); `SignedOut` is about the token that was ended.
- A password reset is five statements without a transaction: one that fails after it has set the password
  returns an error and leaves the sessions live (`user/service.go:276-284`). A rotation that fails half-way
  leaves no session at all (`session/service.go:96-102`).
- A login or refresh that overlaps a password reset or a logout everywhere survives it
  (`user/service.go:280`); `ResetIsFinal` and `SignedOut` are stated with that proviso. Likewise two
  refreshes with one token at once both succeed (README.md:142).
- `SwitchRole` and `AddRole` make an access token without looking at the status, so a disabled
  user may renew access without a session (`user/model.go:26-28`). No route disables users yet.
- Two seeds at once: one may be told that the phone is taken (`admin/service.go:177`).
- A key that is used again by another owner is answered with the first owner's entry.
- A published entry also loses completeness when a target is saved later without the sense
  (D17): `PublishedComplete` exempts links that were cut.
- A sense id that has been deleted may be used again by another entry while a third one's
  relation to it is being written (design document 6.2, rule 4): `TargetsFit` exempts ids in `spent`.
- A relation that loads as an orphan in the editor and is meanwhile live again keeps the live target,
  and the gloss of an old sense stays when a relation moves to another entry without a sense
  (`word/repository.go:612-637`, D6).
- Two tabs that refresh with the same cookie: the second is refused, since the first has spent the
  token, and its 401 clears the cookie; if it arrives last, it clears the *fresh* cookie, and the live
  session behind it is lost to the browser. `docs/api.md` (377) and `user/handler.go:359` speak of a stale
  cookie that is cleared. `WorkingCookieKept` shows that it takes two calls at once, or a login as another user.
- A login as another user on the same browser overwrites the cookie, and the first user's session stays live
  behind it, with no cookie left to end it (`user/handler.go`, `setRefreshCookie`); the proviso `OtherUser` of
  `WorkingCookieKept` stands for it. It was met when the property was to be proved.
- A logout that overlaps a refresh revokes the old token and not the one the refresh goes on to save; if the
  refresh's answer arrives last, the browser is signed in again (`LoggedOutMeansOut` has that proviso).
- When the answer to a refresh is lost, or is a 500 because the account could not be read after the rotation
  (`user/service.go:363-369`), the browser keeps a spent token and has to log in again
  (`DeadCookieHasACause`). Logout everywhere leaves the cookie; the next refresh clears it.
- A restart of the server gives every address its full burst (`Throttle` says so), and each
  process of several has budgets of its own.
- Saves of two entries that point at each other can deadlock (root FOR UPDATE against the
  foreign key's KEY SHARE); Postgres fails one of them, which is `Fail`.

## 6. What is not modelled, and why
What HTTP handlers do besides cookies (binding, error mapping), the word handler, lists, searches and counts (they read only and
nothing uses the result later), display names and learning settings (last writer wins),
headword and gloss snapshots, headword uniqueness (an outcome of `Insert`), audio columns, signing and parsing of
tokens (the JWT library), hashing, migrations (applied before the server runs),
configuration, logs, metrics, traces, and generated code. The graceful shutdown of `cmd/server` is the library's; that the
process stops at any moment is in every module. `ListByOwner` orders by
`created_at`, the time a transaction began, which is not the order of the wallet's lock: the model has no clock for
it, and states the chain by `seq`. The publish hook is nil today. In
`WordList` two saves that wait for each other's entries simply wait, or `Fail`, as the database's deadlock detector
makes one of them do; no two transactions on one entry begin in the same microsecond: `updated_at` is a
name. Admin refresh tokens are `Session` on another table.

## 7. Plan
Done, in this order: coin (abstract and detailed, checked and proved), session, otp, admin
(abstract and detailed, checked and proved), accounts, word, the rate limiter (abstract and detailed,
checked and proved), the browser's cookie on top of session; then the proofs of session, browser, otp, accounts and word,
and the abstract word list, checked and proved.

To do:
1. An abstract session service (one token per user, ended and handed out at once, where calls do not overlap).
2. In `WordList`: snapshots of headword and gloss, and the hook as a message that may be lost.

## 8. Running it
`tlc -workers 2 -config MCCoinLedger.cfg MCCoinLedger.tla`, and so on for the pairs that
`PROJECT.json` lists; `tlapm CoinLedger_proofs.tla`, and likewise for the other modules of proofs. Each run takes
a few minutes at most on two cores, and so does each module of proofs. No community module is used.
