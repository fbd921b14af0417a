# LegacyStore in TLA+

LegacyStore is a software catalog for old Mac OS X releases: a Go backend over
PostgreSQL, a static web client, a native Objective-C client and a few shell
scripts. This directory holds TLA+ models of the parts of the backend in which
several requests or processes meet, the TLC runs that check them on small
instances, and TLAPS proofs of the main results for instances of any size.

Source paths below are relative to `src/`; `account/`, `api/`, `catalog/` and
`db/` stand for `backend/internal/account/` and so on.

## 1. Inventory

Everything that is shared lives in PostgreSQL, in READ COMMITTED transactions.
The backend has no worker threads: every HTTP request is a goroutine that runs
statements, and all concurrency is between requests (of one or several
processes) through rows, row locks, unique keys, triggers and the connection
pool. A request reads the session and the roles first (`requireAuth`,
`requireWebAuth`, `requireAdmin`) and goes on with what it read.

| Component | State | Operations | What must be right | Module |
|---|---|---|---|---|
| Accounts, web sessions, second factor, recovery (`account/store_auth.go`, `store_security.go`, `api/security_handlers.go`) | `users`, `sessions`, `password_recovery_tokens`, `two_factor_recovery_codes` | register, login, logout, revoke, set up / confirm / disable 2FA, regenerate codes, change password / e-mail, begin / complete recovery | a security change ends the other sessions; codes and tokens work once; a change needs the password in force; no request waits for ever | `AccountSecurity` |
| Legacy passwords and devices (`account/store_legacy.go`) | `legacy_passwords`, `legacy_devices`, legacy `sessions` | create, reset, delete password; login; revoke device | sessions end with their password and with their device | `LegacyAccess` |
| Publication (`account/store_admin.go`, `store_catalog_admin.go`, `store_contribution.go`, `store_upload.go`) | `apps`, `app_versions`, `artifacts`, `staged_uploads`, `moderation_queue` | create, upload, stage, commit, moderate, edit, delete | only staff publishes; a staged file becomes one artifact; nothing outlives its parent | `Moderation` |
| Administrator and roles (`cmd/legacystore-backend/main.go`, `EnsureAdmin`, `HasAdmin`, `AddRole`, `RemoveRole`, migration 000001's trigger) | `users`, `user_roles`, advisory lock, processes | process start and stop, role changes | one administrator, always, once a process serves | `AdminProvisioning`, `Deployment` |
| Connection pool (`db/db.go` and the handlers that query inside a loop over rows) | ten connections | query, nested query, end, client gone | no leak; no lock-up while fewer nested handlers are in flight than connections | `ConnPool`, `RequestPath` |
| Rate limiter (`api/security_middleware.go`) | buckets in memory, a mutex | `Allow` | less than twice the limit of 20 in about five minutes without a restart; nobody refused who is within it | `RateLimiter`, `RequestPath` |
| Images (`account/store_media.go`, `media/`) | `image_assets`, `users.avatar_image_id`, `review_images`, `screenshots` | set / delete avatar, add / delete review images, add / move / delete screenshots | limits hold; no asset is lost, shared or left behind | `ImageRows` |
| Local storage and upload inspection (`storage/local.go`, `api/upload_handlers.go`, `macmeta/`) | files, rows that name them | quarantine, save, remove, insert, serve; crash | what was acknowledged can be fetched; no file is left without a row | `UploadStorage` (inspection is parsing) |
| Reviews (`account/store_reviews.go`) | `reviews`, likes, replies | create, update, delete, like, reply | a deleted review stays as it was | `Engagement` (reviews) |
| Statistics (`catalog/telemetry.go`, `api/telemetry.go`) | `download_events`, views, counters | record download / view | one count for each visitor and version | `Engagement` (downloads) |
| Compatibility and artifact choice (`compatibility/`, `architecture/`, `catalog/store.go`, `account/store_catalog_admin.go`) | `app_versions.is_recommended`, published artifacts | evaluate, choose; recommend, publish, delete | limits leave no gaps; a family of systems is judged as its releases are; the page offers the best build that runs | `Compatibility`, `VersionChoice`, `CatalogPage` |
| Migrations (`scripts/migrate.sh`, `scripts/dev_up.sh`) | `schema_migrations`, the schema | check, apply, record; bring the backend up | in order, once, complete before the backend starts; what a stop costs | `Migrations`, `Deployment` |
| Web client, native client, recovery mail, catalog signature, hashing, image and bundle parsing, configuration | – | – | – | not modelled (section 8) |

How they meet:

* Every protected handler calls `UserBySession` (accounts) before its own
  component. The roles it reads there are what `Moderation` calls
  `req[r].staff` and `AdminProvisioning` checks in `Authenticate`.
* Accounts and legacy access share the `sessions` table: a password change ends
  web and legacy sessions alike (`EndSession` of `LegacyAccess` is that end, as
  seen from the legacy side).
* `AdminProvisioning` creates or promotes an account; role changes are
  `ChangeRoles` for `Moderation`.
* The staged uploads and artifacts of `Moderation` and the image assets of
  `ImageRows` name the files of `UploadStorage`, which knows of rows only what
  they say of their file.
* Every request to a credential endpoint is decided by `RateLimiter` before its
  handler asks `ConnPool` for connections; `RequestPath` is the two together.
* `Deployment` is `AdminProvisioning` on the schema that `Migrations` leaves: a
  process finds its tables or goes down again.
* `CatalogPage` puts the editors of versions (`VersionChoice`) beside the
  visitors (`Engagement`): a deleted version takes its downloads with it.
* Web sessions and legacy sessions make one promise, `SessionRevocation`, which
  `AccountSecurity` and `LegacyAccess` implement.
* Every component takes its connections from `ConnPool`; the other modules
  assume a statement is answered in the end and model the case in which it is
  not by `Fail`.

The behaviours that are hard to test here: a value read before a transaction
and used in it (`LoginWithSecondFactor`, `LegacyLogin`, `requireAdmin`,
`Moderate`), a check made by a statement whose snapshot is older than the rows
it waits for (`DELETE` of tokens, the trigger, `INSERT ... ON CONFLICT ... UNION
ALL SELECT`), locks taken in different orders (`ChangePassword`,
`CompletePasswordRecovery`, `BeginPasswordRecovery`, a login with a recovery code), an
`UPDATE` that does not keep a foreign key out (`CompletePasswordRecovery`), cascades under a commit, processes that start
together, nested queries on a bounded pool, files and rows that are written one
after the other without a common transaction, uploads of the same bytes to one
path, limits that are counted before the insert, a flag that is cleared by a
statement that cannot see the next row, a window around whose end attempts pile
up, a script that stops between applying and recording. `PROJECT.json` lists them one by
one, at their lines, under `hazards`.

## 2. Plan

Done, in the order of importance: accounts, legacy access, publication, the
administrator, the pool, files and image rows, each with its proofs; the abstract
specification of sessions and its two refinements, and that of the catalog; the limiter and its
composition with the pool; migrations and their composition with provisioning;
compatibility, the choice of a build, and the page of an application.

| Layer | Modules |
|---|---|
| abstract | `SessionRevocation`, `PublicCatalog` |
| components | `AccountSecurity`, `LegacyAccess`, `Moderation`, `AdminProvisioning`, `ConnPool`, `UploadStorage`, `ImageRows`, `RateLimiter`, `Migrations`, `Compatibility` (operators), `VersionChoice`, `Engagement` |
| compositions | `RequestPath` (limiter, pool), `Deployment` (migrations, provisioning), `CatalogPage` (versions, visitors) |
| instances | `MC*` |
| proofs | `*Proofs` |

What could come next: an abstract specification of the files that were acknowledged,
for `UploadStorage` to implement; the scopes of legacy sessions; mirrors and icons.

No module that is proved about uses `RECURSIVE`; bounds are constants with
named assumptions, one action stands for one statement or transaction, and
invariants are conjunctions of named parts. A definition whose comment begins
with "Mutant of" is a plausible bug in the definition that follows it; no
specification uses it. `PROJECT.json` says which property it breaks.

## 3. How the code is modelled

A request is a record `req[r]` with the operation it runs, how far it has come,
and what it has read so far. An action is one statement, or one transaction from
the point where it holds every lock it needs to its `COMMIT`. A transaction is
cut in two or three wherever another request's commit in between could change
what it sees: before `BeginTx`, between a plain `SELECT` and the write that uses
it, between a statement's snapshot and the moment its row locks are granted.
`SELECT ... FOR UPDATE`, `UPDATE`, `DELETE` and foreign-key checks wait while
another request has the row: that is a guard (`NoWait(r)` of `AccountSecurity`,
`~Locked(v)`, `~Held(...)`, `lock[u] = None` elsewhere). `Fail` is every way of ending with nothing done: wrong
input, a constraint, a cancelled context, a crash, a deadlock victim; the
deferred `Rollback` gives the locks back.

Passwords and secrets are version numbers, codes, tokens, sessions, devices and
files are model values. A request presents the credential that was right when it
was sent, since any other fails. Fields marked *history* in the modules exist
for the properties only; no guard reads them.

### AccountSecurity

One account. `user` is its row, `userLock` the request that holds it, by
`FOR UPDATE` or, in a reset, by the plain `UPDATE`; `sessions`, `tokens` and `codes`
are the rows that refer to it, each token with the lock on it.

| Action | Code |
|---|---|
| `Register` | `Register`, `store_auth.go:22` |
| `LoginRead` | `LoginWithSecondFactor` before `BeginTx`, `store_security.go:24` |
| `VerifySecondFactor`, `LoginCommit` | its transaction: the recovery code is spent and its row held; the `INSERT` of the session and `COMMIT` |
| `Authenticate` | `UserBySession` in `requireWebAuth` |
| `VerifyCurrentPassword`, `Setup2FA` | the two calls of `setup2FAV2` |
| `LockUser` and then `Confirm2FA`, `Disable2FAWithSecondFactor`, `Regenerate2FARecoveryCodes`, `ChangePassword`, `ChangeEmail` | the locking `SELECT` and the rest of each transaction |
| `BeginPasswordRecovery`, `DeleteUnusedTokens`, `LockTokens`, `InsertToken` | lookup, snapshot of the `DELETE`, the rows it then holds, and `INSERT` + `COMMIT` |
| `SelectToken`, `ResetPassword`, `CompletePasswordRecovery` | the locking `SELECT` of the token, the three `UPDATE`s, and `COMMIT` |
| `RevokeSession`, `Logout`, `AdminUpdateUser` | single statements; `Logout` is also the expiry of a session |

`WaitsFor(r)` are the requests whose row locks the next statement of `r` needs: the
users row as an `UPDATE` needs it (`LocksUser`) or as a foreign key does
(`RefersToUser`), rows of tokens (`TokensLocked`) and of recovery codes
(`CodesLocked`). A foreign key waits for `FOR UPDATE` of the users row but not for
the `UPDATE` of a reset, which changes no key column: a login may therefore commit
between the `UPDATE sessions` of a reset, which notes what it has `swept`, and the
`COMMIT` that ends just those sessions.

`epoch` counts the `UPDATE sessions` statements of changes of password or address, of
resets and of the end of the second factor; `lastSweep` is the latest of them whose
transaction committed, and `lastChange` the password version set by the latest
`ChangePassword`.

### SessionRevocation

The abstract specification of both kinds of session, mainly over five sets: `standing`
and `racing` are the live sessions of the credential in force and of one that was
replaced, `spent` the ended ones, `pending` and `overtaken` the clients that have
proved a credential and are about to open a session, split in the same way. Its
promises are in its shape: only `OpenLate` makes a racing session, only an
overtaken client takes it, `Replace` ends all sessions but one, and nothing leaves
`spent`. A replacement in two steps (`BeginReplace`, then `FinishReplace` or
`AbandonReplace`; `replacing`, `doomed`) ends the sessions there were at the first and
leaves those opened since as racing ones: that is all a password reset promises.

`AccountSecurity` implements it with the password as credential
(`Standing`, ..., `Overtaken` at the end of the module): a step of any request is
a step of `SessionRevocation` or a stutter. `LegacyAccess` implements it once for
each legacy password, where a login of another password is a stutter. In both the
property is called `KeepsRevocationPromise`.

### LegacyAccess

Legacy passwords, devices and sessions of one account. `ReadPasswords` is the part of
`LegacyLogin` before its transaction, `LegacyLogin` the transaction (upsert of
the device, session, `last_used_at`). A device row is `dropped` when it was
revoked with its password and `revoked` when the user revoked it: the code
writes the same column, and the two differ in which sessions were ended.

### Moderation

Applications and artifacts share `entity` (status and, as history, who set it),
with the status of each one's `moderation_queue` row in `queue`. `LockStage`,
`FindVersion` and `CommitStagedUpload` are the locking `SELECT`, the snapshot of
`INSERT ... ON CONFLICT ... UNION ALL SELECT`, and the rest of
`CommitStagedUpload`; `SelectPending` and `Moderate` are the two halves of
`Moderate`. Moderator and administrator are one role here.

### PublicCatalog

The abstract specification of the catalog: entries that are `kept`, those that are
`shown`, those that are `gone`, the `home` of each artifact, and the clients that were
let in with a moderator's roles and have not made their change (`trusted`). Its promises
are in its shape: only a trusted client shows, hides or removes, and every change
uses its trust up; roles may go meanwhile and are not asked for again; an artifact is
entered under an application that is there, and `Remove` of an application takes all
its artifacts in one step; nothing that is gone is entered again. It knows no queue, no
versions, no staged uploads and no requests in several steps. `Moderation` implements
it (`Kept`, ..., `Trusted` at the end of the module); the property is called
`KeepsCatalogPromise`.

### AdminProvisioning

Processes (`Start`, `LockAndLook`, `InsertAdmin`, `CommitAdmin`, `HasAdmin`,
`Exit`) and role requests (`Authenticate`, `AddRole`, `AddRoleCommit`,
`RemoveRole`, `AdminUpdateUser`). Inserting the role is two steps because the
trigger `enforce_single_admin_role` sees committed rows only. `Init` is any
database with at most one administrator: a fresh one, or one left by earlier
processes.

### ConnPool

`owner[c]` is the request that holds a connection. A nested handler holds one
connection (`query`) and waits for a second (`waitInner`) for each row of its
outer result. `Apps`, `Manifest`, `ListUsers` and `LegacyLogin` do this. The rows are
counted when the outer query returns. `LockedUp` is the state in which every connection
is held by a handler that waits for its second.

### RateLimiter and RequestPath

`buckets` is the map of the limiter. Time is relative: `Tick` ages the clock
readings of the `attempts` that wait for the mutex and takes a unit from what every
bucket has `left`. So an attempt may be decided after one that read a later time,
and after a `Tick` that ended the window. `StartWindow`, `CountAttempt` and
`Refuse` are the ways through `Allow`; `Purged` is its loop over expired buckets,
which runs only in `CountAttempt`. `grants` is history: how long ago the latest
attempts with one key were let through, the latest first, three times the limit of
them and no older than anything can depend on (`LongAgo`). A restart empties the
buckets and leaves `grants`; `restarts` is how long ago the last two were. So that `n` grants fell
in a period is said of one age, `grants[n]`, and not of a sum over ages. `MaxDelay`
bounds the wait for the mutex.

In `RequestPath` a request to a credential endpoint is first an attempt (`Ask`),
and only if it is let through (`Admit`) does it ask the pool. `Crash` forgets the
buckets and closes the connections.

### Migrations and Deployment

`applied` are the files whose transaction has committed, `recorded` the rows of
`schema_migrations`: the script changes them by two statements. `script[s]` is a
run with the file it is at. `Break` is `set -e` after a statement that fails
because the file was applied before and cannot be applied twice, or because its
row is there; `Stop` is every other end (Ctrl-C, Docker, the database).
`Repeatable` are the files whose statements are written so that they can be
applied again. In `Deployment` a process is started by `dev_up.sh` after a run
that ended well (`DevUp`), or by `docker compose up` at any time (`ComposeUp`);
without the tables of migration 000001 `EnsureAdmin` fails and the process goes
down.

### Compatibility, VersionChoice, Engagement and CatalogPage

`Compatibility` has `Evaluate` and `chooseArtifact` as operators. A version is a
triple, a family such as 10.6.x a target whose patch level is not looked at
(`CompareTargetOS`). Reasons are reduced to whether one of them blocks. The code
sorts the rows and takes the first that is not blocked; `ChooseArtifact` takes the
first of those under the same order.

`VersionChoice` is the staff's side: a request that recommends a version clears
the flag of the versions its `UPDATE` saw (`BeginEdit`, `ClearFlags`, which waits
for rows another transaction has updated) and writes its own (`WriteVersion`).
`CommitStagedUpload` inserts a version with the flag and clears nothing. Which versions
a request has `seen` decides what it clears; `late` and `unseen` are history: the versions
inserted while the request was under way, and the pairs of flagged versions of which one
was late for the other's request or was flagged by an upload.

`Engagement` is the visitors' side: a review is found (`FindReview`) and changed by
a later statement; a file is opened, sent, and then counted. `received` is
history: what the count should be. `CatalogPage` is both, with one handler for a
request, and the cascades of deleted artifacts and versions.

### UploadStorage

The local disk and the rows that name its files, as two things that no
transaction ties together. `files` is the length at each path: an image's path
is its bytes (SHA-256), a package's path a name drawn at random. One request saves
one file.

| Action | Code |
|---|---|
| `OpenImage`, `StatImage` | `SaveImage`: `O_EXCL`, or `Stat` of the file that is there |
| `OpenQuarantine` | `SaveQuarantine` up to `OpenFile` |
| `Write`, `Sync`, `SaveFails` | the copy, the end of both savers, their deferred `Remove` |
| `BodyBreaks` | an unreadable rest of the body, before the handler's deferred `Remove` is set up |
| `Refuse` | every later error, where packages are removed and images are kept; the end of an inspection |
| `Insert`, `InsertUnknown` | the insert with its answer, or committed while the handler is given an error |
| `CommitStaged`, `DropRow`, `Crash` | rows that change hands, rows deleted, the process gone |

`Status` is what `imageAsset` and `localArtifactFile` answer. `acked`, `body` and
`stray` are history. An artifact's row may have length 0, and then its length is not
compared when the file is served.

### ImageRows

Avatars, review images and screenshots of one application, with their
`image_assets`. An upload is a transaction: `SetAvatarLock` and
`SetAvatarCommit`; `AddReviewImages` (the slots it sees), one `InsertImage` for each
image and `AddCommit`; `CountScreenshots` and `InsertScreenshots`. An
`InsertImage` whose slot another open transaction has inserted waits for it
(`Held`), and fails when it is taken. `cascaded` is history:
assets whose screenshot went with its version, which `DeleteAdminVersion` leaves
behind.

## 4. Runs

| Run | Question | Instance | Result |
|---|---|---|---|
| `account_sessions` | Which sessions survive a security change? Does a change replace the password its caller proved? Is `SessionRevocation` implemented? | 3 sessions, 2 requests, 2 security changes, 1 secret | holds |
| `account_credentials` | Can two recovery tokens work, or one older than a password change? Do recovery codes belong to the secret in force, and work once? | 2 sessions, 2 tokens, 2 codes, 2 secrets, 2 requests, 1 change | holds |
| `account_liveness` | Is every request answered, although locks of the user, the tokens and the codes are taken in different orders? | 1 session, token and code, 2 requests | holds |
| `account_reset` | Does a password reset end every session that is open when it commits? | 2 sessions, 2 requests | **violated**, see section 7 |
| `legacy_access` | Is the list of devices true? Is `SessionRevocation` implemented for each password? | 2 passwords, 2 devices, 3 sessions, 2 logins, 1 reset each | holds |
| `moderation` | Who publishes, do queue and catalog agree, is a staged upload committed once, does anything outlive its parent? Is `PublicCatalog` implemented? | 1 application, 2 artifacts, 1 stage, 1 user, 2 requests, roles that change | holds |
| `deployment` | Is there one administrator, always? What do stopped and overlapping runs of the script leave, and what does the backend find? | 2 accounts, 2 addresses, 2 processes, 2 requests, 2 migrations, one of them repeatable, 2 runs of the script | holds |
| `request_path` | Does the pool lock up or leak, is every request answered, how much does the limiter let through and whom does it refuse? | 2 connections, 2 requests, both possibly nested, with up to 2 rows, 2 keys, limit 2, window 2, delay 1, room for 1 bucket | holds |
| `upload_storage` | Can an acknowledged upload be lost, or a file stay behind? | 1 image of 2 blocks, 2 names, packages of up to 3 blocks at a limit of 1, 2 requests, 1 crash | holds |
| `upload_content` | Are the bytes of an image the ones its address stands for? | 1 image, 1 name, 2 requests, 1 crash | **violated**, section 7 |
| `image_rows` | Is any image lost, shared or left behind, and is the limit of a review kept? | 2 users, one of them staff, 2 versions, 3 assets, a limit of 2, 1 link, 2 requests | holds |
| `catalog_page` | Which build does the page offer while versions are recommended, published and deleted? Do reviews and counts survive races? | 2 versions, 3 artifacts, 2 of them stored here, 2 requests, 2 accounts, 1 visitor, 2 reviews; every target of 6 systems, their families and all architectures | holds |

What the runs show beyond "holds":

* `SessionsEndAtSecurityChange` and `KeepsRevocationPromise` together say
  exactly how much the code promises: a change ends every session its `UPDATE
  sessions` finds, and the only session of an older password is one whose login had
  read the row before. After `ChangePassword` it was also inserted after the change,
  since the users row is locked; after a reset it may have been inserted before the
  `COMMIT`, which `account_reset` shows. For legacy passwords the theorem
  `CredentialSafety` (`SessionsEndWithCredential`) says the same.
* `EveryRequestEnds` needs the deadlock detector: a change of password against a
  reset, a new token or a login with a recovery code can wait in a circle, all of
  which the run reaches.
* `NewTokenReplacesOlder` is relative to what a request's `DELETE` could see.
  Two overlapping recovery requests do leave two tokens that both work.
* `PasswordChangeCancelsTokens` holds although a token may be inserted while the
  change is under way, because the foreign key of the `INSERT` waits for the row
  the change has locked.
* `QueueAgrees` holds although `Moderate` takes no lock: the two updates of one
  decision lock the queue row first, so decisions are applied whole, and the later one
  stands. The status may be edited past the queue; then the two may differ.
* `KeepsCatalogPromise` is what is left of publication when queue, versions, staged
  uploads and the steps of requests are forgotten. Roles that are taken away do not stop
  a request that has been let in; it can still make the one change it was let in for.
* `AdminStays` and `SingleAdmin` hold although the trigger does not serialise
  its check, because only the administrator changes roles, cannot remove its own,
  and processes provision under an advisory lock.
* `AcknowledgedFilesStay` is for uploads that wrote their file. One that was
  answered from a file somebody else was writing has no such promise: the writer
  may fail and take the file away, and the row then names nothing.
* `NoOtherOrphans` lists every way a quarantine file is left without a row: a
  crash, a body that breaks off after the file (`upload_handlers.go:49-56`,
  `195-202`, `346-353` return before the deferred `Remove`), and a deleted row,
  since rows are deleted and files never. Nothing removes such files later.
* `ReviewImageLimit` holds because of `UNIQUE (review_id, sort_order)` with a check
  on the range. Screenshots have no such key, and no limit that the code keeps (section 7).
* `AvatarsCurrent` rests on the `FOR UPDATE` of `SetAvatarImage`.
* `NotStuck` needs fewer nested requests in flight than connections. Nothing in the
  code enforces that: the pool of ten locks up (`LockedUp`) under ten requests for the
  list of applications that each wait for a second connection, until a client goes away.
  The run contains this case, with two nested requests on a pool of two;
  `EveryRequestAnswered` says that a request stays without an answer only where the pool
  locks up for good.
* `BelowTwiceTheLimit` is for a period shorter than the window by `MaxDelay`, since an
  attempt that waited for the mutex is counted in the window of its clock reading.
  It holds through purges, which drop expired buckets only. A restart forgets the
  window that was running, so a period with a restart may hold twice the limit and
  more; it holds less than three times the limit.
  `RefusedOnlyAfterLimit` is the other side: a refusal means the limit was used.
* `LockedOutOnlyByStop`: a file that was applied, is not recorded and cannot be
  applied twice makes every later run fail until somebody repairs the table by
  hand. It takes a stop between two statements; runs that overlap fail, but leave
  somebody about to record. `QuietRunsSucceed` is the promise for the normal case.
* `UpgradedFindAllTables` rests on `set -eu` in both scripts.
* `PageOffersBest` evaluates the page for every target whenever a version was
  flagged, published or deleted. The recommended flag decides between
  equal versions only, so two flagged versions do no harm there;
  `RecommendedTogetherUnseen` says how two come about: a new version is late for a
  request under way, or comes with an upload. Two requests for versions that are there
  never do it, because `UPDATE ... WHERE app_id = $1` locks all of them, flagged or not.
* `SeriesCoversItsReleases` and `RunsOnAnInterval` compare `Evaluate` with a
  reference definition over 288 builds: for every combination of limits an editor
  may enter, unreadable ones included, a family is compatible just when one of its
  releases is, and there is no gap between two systems a build runs on. The one exception
  is a build whose minimum is above its maximum in one family: no release runs it, the
  family shows it. `validVersionRange` looks at the limits of one request, and
  `UpdateAdminArtifact` keeps those a request leaves out, so two edits can make one.
* `CountedOnce` counts by version, as the unique indexes do, though a row names
  its artifact: when the artifact that was counted is deleted, the download goes
  with it, and another artifact of the version counts anew.

### Bounds, and why they are enough

Two concurrent requests are the smallest number at which every race above
happens, and each race is between two: one that read something and one that
changed it. The three sessions of `account_sessions` are the caller's, another
one's and a late login's; its two changes are needed for a request that presents
a password replaced twice. Two tokens are an older and a newer one, and two codes
with `CodeCount = 1` an issue and a reissue under the next secret. In `legacy_access` two
passwords on one device are needed to drop a device under a session of the other
password. Two artifacts let a stage be committed twice. `request_path` has
as many nested requests as connections, so its pool can lock up, and any smaller number
in other states; two keys in a map with room for
one make the purge happen, a window of two units with a delay of one lets an attempt
be decided before, at and after the end of its window, and a limit of two is the
smallest at which a bucket has been counted and is not full. Two migrations, one repeatable,
are a file before and a file after the one a run stops at. In `catalog_page` two artifacts
of one version meet in the count, and the third is the older version the page falls back to. In `upload_storage` an image
of two blocks can be seen empty, half-written and complete, and a limit of one
block lies between packages that fit, exceed it by one and by more. `image_rows`
has one asset more than the limit of a review, which is 3 in the code and 2 in
this run (`Limit`); nothing depends on its value. Rows that run out
(`Sessions`, `Tokens`, `Codes`, `Reviews`) disable the insert, never change its
effect. `MaxEpoch`, `MaxSecret`, `MaxVersion`, `MaxInner` and `MaxTimes` bound counters. The
proofs drop all of these bounds but one: the guards with `Max...` stay, for any value.

`CHECK_DEADLOCK` is never switched off. Symmetry sets are used in the runs that
check safety only (`account_liveness` and `request_path` use none).

## 5. Fairness

* `AccountSecurity.FairSpec`: `SF(Advance(r))` for every request. A statement that
  does not wait returns, with success or an error (`Fail`); one that waits for a
  lock gets it if the lock is free again and again (PostgreSQL queues waiters);
  one in a deadlock is aborted by the deadlock detector. Nothing is assumed about
  clients, about `Fail` for a request that can go on, or about expiry.
* `RequestPath.FairPathSpec`: `SF(Step(r))` and `WF(Decide(r))`. A query returns,
  and `database/sql` hands a connection that is freed again and again to a given
  waiter at some point. An attempt is decided once it has the limiter's mutex, which
  is held for a loop over a map at most. That a client gives up or a process
  restarts is never assumed, so it cannot be what resolves a wait; nor does the
  clock have to advance.

The safety properties assume no fairness.

## 6. Proofs

Every safety invariant and every action property of the passing runs is a theorem,
for every value of the constants under the named assumptions (`ConstantsAssumption`,
`LegacyAssumption`, `ModerationAssumption`, `ProvisioningAssumption`,
`MigrationsAssumption`, `PoolAssumption`, `LimiterAssumption`, `PathAssumption`,
`StorageAssumption`, `ImageAssumption`, `CompatibilityAssumption`, `ChoiceAssumption`,
`EngagementAssumption`, `PageAssumption`). They ask that `None` and the like are not
members of the sets, that bounds are naturals, that the pool, the artifacts of an
application and the sets of images are finite, that an image is not a random name, that
the limit is at least one and the delay shorter than the window, and, where modules are
composed, that they speak of the same requests and artifacts.

* **AccountSecurityProofs.** `IInv` is `TypeOK` with five parts. `LockInv`: while a
  request is past its locking `SELECT`, the row is as it read it; this is what
  makes `read` usable in the rest of the transaction. A reset past its `UPDATE` holds
  the row too, so there is one of them. `TokenLockInv`: a reset
  under way has its token locked, and the token has not been redeemed, which
  is why it is redeemed once; the tokens that a `DELETE` found are locked until its
  `COMMIT`, so it deletes all that still work.
  `TokenInv`: live tokens know only issued tokens,
  are younger than the last change, and pairwise satisfy the property; the set a
  request has seen consists of issued tokens, so the token it inserts is in
  nobody's set. `SessionInv`: besides the property, a live session that the reset
  under way has not `swept` was inserted after its `UPDATE sessions`. `CodeInv`: a login
  that holds the row of a code holds it alone and finds it unused at its `COMMIT`. Theorems: `TypeCorrect`, `SessionSafety`, `TokenSafety`,
  `TokensCancelled`, `FactorSafety`, `OneUse`, `ProvenPassword` (an
  action property, from `LockInv`) and `KeepsPromise`: under the refinement mapping
  every action is a step of `SessionRevocation` or leaves its variables alone. What
  it needs beyond `TypeOK` is `ProofInv`: a login carries the password in force or an
  older one, so one that was overtaken stays so, and `LockInv`: while a reset is between
  its two steps no other replacement can happen.
* **LegacyAccessProofs.** The properties are inductive together with a statement
  about logins in flight, if each is stated per session (`SessionOK`) together with the state
  of the session's device. The refinement needs `TokenOK` as well: a token that was
  replaced cannot come back, so a login is overtaken once and for all. Theorems:
  `TypeCorrect`, `CredentialSafety`, `DeviceSafety`, `KeepsPromise`.
* **ModerationProofs.** `IInv` has a part for each kind of row. `RequestOK`: whoever
  commits a staged upload has its row locked and finds it still staged, which is why
  `MadeOnce` is kept; whoever is to change a status was staff when let in.
  `EntityOK`: what is public was let out by staff, and the queue says what the row
  says unless it was edited past it. Effects shared by several actions (a row
  submitted, decided, removed) are lemmas of their own. Theorems: `TypeCorrect`,
  `PublicationSafety`, `QueueSafety`, `StageSafety`, `CascadeSafety` and `KeepsPromise`:
  every step is one of `PublicCatalog` or a stutter. A row that is submitted, decided or
  removed is `Enter`, `Judge` or `Remove` by one lemma each (`SubmitEnters`,
  `DecideJudges`, `RemoveRemoves`); what the steps need of `IInv` is that an application
  whose staged upload is locked is still there (`StageOK`), and that every artifact's
  version is one of an application (`EntityOK`), so that the cascade through versions
  removes just what has its `home` there.
* **DeploymentProofs.** First the accounts alone. `SingleAdmin` is not inductive: the
  trigger's check and the commit are two steps. The strengthening says that a role row
  that passed the trigger is for the one administrator (`RequestInv`), that a
  process that found none holds the advisory lock and there still is none
  (`ServerInv`), and that whoever asks for a role change is the administrator.
  Theorems: `TypeCorrect`, `OnlyOneAdmin`, `NeverWithoutAdmin`, `AdminForever`.
  Then the whole installation. `SchemaInv` says of a run that everything before the file it
  is at is recorded, which is all that order and completeness need; while it is
  `quiet`, no other run is under way (`Alone`) and the statement at hand can succeed.
  `DeploymentProvisions` (`DeploymentSpec => Spec`) shows that an installation, seen
  from the accounts, does nothing that `AdminProvisioning` does not, so its theorems
  carry over: `InstallationHasOneAdmin` and `InstallationKeepsAdmin` are corollaries.
  Theorems: `SchemaInOrder`, `OnlyStopsLockOut`, `QuietRuns`, `RunsComplete`,
  `UpgradedComplete`.
* **RequestPathProofs.** `PoolInv` says which connections a request can hold in each
  phase. `PoolNeverStuck` follows by the pigeonhole principle: if all
  connections were held by waiting requests, each by a different nested one, there would
  be as many nested requests as connections. `LimiterInv` ties the history to the bucket
  of the watched key. `CurrentWindow`: the latest grants are those a bucket has counted, the
  first of them fell into the delay after the window began and after the process was
  started, and of the grants before it, fewer than `Limit` are of this process and its
  period, and fewer than `2 * Limit` of the last two processes. `BetweenWindows`: the same
  with no bucket. `OfThisProcess`: an attempt read its clock after the process was
  started. From these the ages of grants `2 * Limit` and `3 * Limit` follow by
  arithmetic, and no induction over a sum is needed. `Undecided` (a request still at the limiter is new to
  the pool) makes the two components independent. Theorems: `PoolTypeCorrect`,
  `PoolNeverStuck`, `NoConnectionLeaks` for the pool alone, `PathTypeCorrect`,
  `PathNeverStuck`, `LimitHolds`, `RefusalsDeserved`, `UndecidedHoldNothing` for the path.
* **CatalogPageProofs.** `CompareIsOrder` identifies `Compare` with the order of
  triples by component, from which `BlockedBy` reads off what a build is blocked by on
  a system and in a family. `FamiliesAreTheirReleases` then gives a release for every
  family that is not blocked (the limit itself, where one lies in the family; none where
  the limits contradict each other), and
  `BuildsRunOnIntervals` is convexity of each conjunct. That `ChooseArtifact` finds a
  row (`FirstRow`) is the existence of a minimum of a finite set under an order that is
  total on it; it comes from the well-foundedness of the strict subset order on finite
  sets, since the induction theorem for finite sets cannot be used here. `EngagementInv`
  says of a change to a review under way that whoever makes it may still do so
  (`CallOK`), which is why a check made one statement earlier is enough. Theorems: `PageTypeCorrect`, `OffersBest`,
  `CatalogOfFamily`, `PageHasNoGap`, `SecondRecommendationUnseen`, `DownloadsCountOnce`,
  `ReviewsAreTheirAuthors`, `DeletedReviewsStay`.
* **ImageRowsProofs.** A transaction that sets an avatar holds the row of its user,
  hence what it has read is true when it writes (`RequestOK`); the slots two open
  uploads have filled are disjoint, since an `INSERT` waits for the other's row;
  `ImagesOK` and `ShotsOK` tie rows and assets together both ways. The limit of a review
  follows by counting: its rows have different slots. Theorems: `TypeCorrect`,
  `AvatarSafety`, `ReviewLimitSafety`, `AssetSafety`.
* **UploadStorageProofs.** Both properties need to know who may still remove a
  file. `Core` says that a file in the making has one owner (`OneOwner`), that
  whoever may remove a file owns it and knows its length (`RequestOK`), and that
  the file of an acknowledged row is complete and has no owner left (`RowOK`).
  `O_EXCL` is what makes a creator the only owner. Theorems: `TypeCorrect`,
  `AcknowledgedStay`, `OrphansKnown`.

Model-checked only: the liveness properties `EveryRequestEnds` and
`EveryRequestAnswered`. TLAPS does neither `ENABLED` nor liveness under strong
fairness. The two runs that expect a violation refute what they check, so there is
nothing to prove of it.

## 7. Where code and documents disagree

* `account_reset`: a login with the old password commits its session between the
  `UPDATE sessions` of a reset (`store_security.go:372`) and its `COMMIT`, and the session
  is live afterwards. `scripts/api_tests/security_v2.sh:84` expects the
  old session to be rejected after a reset. Apart from this gap, a login that compared the
  old password before a change or a reset opens its session after it
  (`store_security.go:58`); that is `OpenLate` of `SessionRevocation`.
  A legacy login does the same with a legacy password that is reset or deleted
  meanwhile (`scripts/api_tests/auth.sh:229` and `248` expect the sessions to go):
  that is the exception in `SessionsEndWithCredential`.
* `upload_content`: an upload that finds its image half-written records the
  length it sees, and the image endpoint then serves that much of it, as immutable
  and under the SHA-256 of the whole. `README.md:192` calls the storage
  content-addressed by SHA-256. After a crash the half-written file stays for good.
* `README.md:188` allows three screenshots of a version, as for reviews. Two uploads
  at once both pass the count, and `CreateAdminScreenshot` and
  `UpdateAdminScreenshot` count nothing. `ImageRows` has all three; no property claims
  the limit.
* `admin-web/static/app.js:1722` says of "Recommended build" "Prefer this release when
  it matches the selected Mac.", but `chooseArtifact` compares versions first and looks
  at the flag only between equal ones, as `docs/PROJECT_SPEC.md` 11.7 asks (the
  highest version that runs). `PageOffersBest` states what the code does. Nothing
  keeps two versions from being recommended together (`RecommendedTogetherUnseen`).
* A stopped run of `migrate.sh` may lock out every later one (`LockedOutOnlyByStop`);
  `README.md:104` says that `make dev-up` applies the pending migrations; after such a
  stop it fails until the table is repaired by hand.

## 8. Not modelled

* Cryptography and encoding (password hashes, one-time passwords, the catalog
  signature), image decoding, property-list, disk-image and Mach-O parsing:
  functions of bytes without shared state.
* The native client: a user interface over synchronous requests. The web client: a
  user interface in the browser; nothing the backend keeps depends on the order in
  which it paints answers.
* Recovery mail: pure output. That a mail is lost or read late is covered, since a
  token may never be redeemed or expire first.
* Within the modelled components: profile fields, the scopes of legacy sessions,
  mirrors, icons, screenshots of no version, images of deleted reviews, the audit log;
  artifacts whose storage path or length an administrator rewrites by hand; likes
  and replies of reviews, counted views (single statements on a unique key that no
  decision reads); the names an architecture may be given by and the wording of
  compatibility reasons; security headers; the down migrations, which no script runs.
* Queries that only read: search, ordering, the shape of the manifest and of the
  home page.

## 9. Running

    tlc -config MCAccountSessions.cfg MCAccountSecurity.tla
    tlapm AccountSecurityProofs.tla

Every `MC*.tla` extends one specification and defines its symmetry; the
`.cfg` files give the constants. `PROJECT.json` lists the runs with their
properties, the source lines of every definition, a mutant of the code that
breaks each property, the hazards, the findings and the theorems.
