# A verification project for VF Mail desktop

VF Mail is a Tauri application: a Rust core (`src/src-tauri/src`) that owns an encrypted vault and
talks to a few services, and a JavaScript front end (`src/dist`) that runs in the web view, speaks
JMAP to the mail server and calls the core's commands. These modules specify the parts of it whose
correctness depends on the order of steps: several commands in flight over one vault, crashes
between a change of the disk and the row that describes it, messages delivered twice, answers that
arrive late. TLC checks them on small instances; TLAPS proves what is listed under "Proofs" for every
value of the constants.

## Inventory

All commands are `async fn`s, run in parallel by tokio. The mutexes of `AppState` (lib.rs:27) are
held only to copy the vault or the identity out of it; no command holds one while it works. The front
end is single threaded: what lies between two `await`s is atomic, nothing else is.

| component | state | operations | interacts with |
|---|---|---|---|
| vault file store (`fsops.rs`, tables of `meta.rs`) | tables `folders`, `files`; `files/`, `bin/`, `blobs/` | create, rename, delete folder; ingest, move, rename, copy, delete, restore file; empty bin | the file system and SQLite, without a transaction over both |
| file labels, statistics (`meta.rs`) | columns of `files` | star, colour, notes, stats | single statements |
| vault lifecycle (`vault.rs`, `lib.rs`) | `vault.json`, `AppState.vault` | create, unlock, lock, close | every command starts by reading it |
| identity (`identity.rs`) | `identity.enc`, `identity.pub.json`, `AppState.identity` | ensure, export | mail sealing, sealed channel |
| sealed channel (`channel.rs`, `dm.js`) | server queues, `D.threads`, localStorage | send, poll, acknowledge, restore, refresh | identity, key directory, mail refresh |
| mail sealing (`mail_crypto.rs`) | none | seal, open | identity, key directory |
| key directory (`keydir.rs`, `vf-crypto.js`) | disk cache of 24 h, session cache | lookup | compose, direct messages |
| vault sync (`sync.rs`, `vf-sync.js`) | where the vault is, backups, conflict copies | move, snapshot, rotate, scan | vault lifecycle, file store |
| outbound firewall (`firewall.rs`) | allow list | load, save, is_allowed | nothing calls `is_allowed` |
| mail list and views (`app.js`) | `S.view`, `S.list`, query | load, search, refresh | JMAP server |
| compose and outbox (`app.js`) | compose form, `S.draftId`, `S.pendingSend` | autosave, send, undo, resume, discard | JMAP server, direct messages (which cancel a pending send) |
| snooze, scheduled send (`app.js`) | mails in two mailboxes with a due keyword | snooze, wake, schedule, dispatch | other running clients |
| undo engine (`app.js`) | last action and its inverse | act, undo | mail list |
| filters (`app.js`) | rows of the dialog, Sieve script | parse, generate, save | mail server |
| web file explorer (`app.js`) | attachments as files | browse, move, delete | mail server |
| vault shell, updater, interface glue, scripts | little or none of their own | | |

What is hard, by component, and the property that makes it correct:

- **File store**: the disk and the tables change in separate steps, so a crash or an error between
  them, or another command, sees one without the other; hard links share inodes between a blob and
  every file with its bytes; a stored folder path is rewritten by text substitution. Correct means:
  the tree mirrors the rows, the bin holds what the rows say it holds, blobs hold the bytes of their
  hash, a failure costs one row and one file, and what was removed stays removed.
- **Sealed channel**: delivery is at least once; polls overlap; acknowledging deletes on the server;
  histories are cleared while work is in flight. Correct means: an accepted message is in the queue
  until the recipient's disk has it and gets there in the end, what shows as sent was accepted for the
  peer, and what is kept is shown.
- **Vault lifecycle and identity**: check-then-create without a lock, files written one after the other,
  commands that outlive a lock or a move of the vault. Correct means: the keys in memory
  are those the next start finds on disk, and a move takes along all there is.
- **Outbox**: a pending send is a timer in memory and a global slot; a draft save may answer for a form
  that is gone; two clients see the same due mail. Correct means: a mail the user sent is sent once,
  or is still a draft.
- **Sync, key directory, list**: copies of changing directories, answers kept too long, answers out of
  order.

## Modules and plan

| module | what | state |
|---|---|---|
| `DiskTree` | directories, hard links, `rename(2)`, `create_dir_all` as operators on trees (external code) | done |
| `FileStore` | `fsops.rs` over `meta.rs` | done |
| `FileStoreProofs` | theorems about `FileStore` with commands in flight together | types, rows and blobs, listed folders |
| `FileStoreTreeProofs` | prefixes, the effect of `DiskTree`'s operators, and the folder tree | done |
| `FileStoreMirrorProofs` | every row against the file of its path: the mirror, the bin, and what faults cost | done |
| `SealedChannel` | `dm.js` over `channel.rs` | done but for unread counters |
| `Delivery` | the at-least-once log that `SealedChannel` implements | done |
| `SealedChannelProofs` | theorems about `SealedChannel` | every safety property of its runs, and the refinement of `Delivery` |
| `ScheduledSend` | scheduling, cancelling and dispatch of `app.js` by several clients | done but for snoozing |
| `ScheduledSendProofs` | theorems about `ScheduledSend` | every safety property of its run |
| `VaultSession` | create, unlock and lock, the identity, moving a vault in use, snapshots | done |
| `VaultSessionProofs` | theorems about the keys, the identity, moves and backups | every safety property of its runs that holds, and one more |
| `KeyDirectory`, `KeyDirectoryProofs` | looking up a correspondent's key through two caches | done, safety proved |
| `Compose`, `ComposeProofs` | drafts, autosave, the undoable and the scheduled send | done but for versions of a text, safety proved |
| `MC...` | an instance of each, with its `.cfg` files | done |

How they compose: `VaultSession` has the commands of `FileStore` as one kind of command that commits a
row, since that is all that moving and locking a vault see of them; `SealedChannel` is shown to
implement `Delivery`; a mail `Compose` schedules begins its life in `ScheduledSend`. `KeyDirectory`
stands alone: what it finds changes the text of a mail and no other state.

## FileStore

One action per step of a command of `fsops.rs`. A command in flight is a record `cmd[p]`: its
program counter and the locals it read at its start (paths, ids, names), which later steps use however
much the tables have changed since. Every SQL statement autocommits and is one step; so is every change
of the disk. Reads with nothing between them and the step before are part of that step. Ids are
counters where the code draws uuids; paths are sequences of components; the hash of a content is the
content; an inode number names what hard links share. `Crash` ends every command where it is (the
release profile aborts on panic, and the machine may lose power), `StepFails` ends one (its error is
returned, nothing is rolled back).

| variable | code |
|---|---|
| `folders`, `files` | the tables of `meta.rs`; `binned` is `deleted_at IS NOT NULL`, `from` is `deleted_from` |
| `tree`, `bin`, `blobs`, `data` | `<root>/files`, `<root>/bin`, `<root>/blobs`, and the bytes behind each inode |
| `cmd` | locals of the commands in flight |
| `now` | `now_ts()` in seconds, which names bin entries |

Three runs hold:

- `fs_single`: every command, one at a time, on names that are free (`Careful`; see below), one fault
  in a command on a file. Checks the type invariant, `Mirror`, `BinHolds`, `FolderTreeCoherent`,
  `LiveFilesListed` and `DriftBounded`. Two folders, two files, and paths up to the given number are
  enough for a folder inside a folder with a file in each, renamed, moved, binned and restored. It does
  not check for deadlock: the clock and the counters of ids are bounded, and an instance that has
  used them up stops.
- `fs_concurrent`: two file commands at once with a fault. Checks `BlobIntegrity`, which two ingests
  of the same bytes, a copy, and a crash try to break. It has no folder commands: a folder renamed
  while an ingest is running moves the target under it, and a name that was free is free no longer, so
  the precondition "names are free" cannot be kept up by the user.
- `fs_late`: two commands on any names, of every kind but `copy_file`, which for rows and blobs is an
  ingest of bytes that are there already. Checks `RowsHaveBlobs` and `RemovedStaysRemoved`: a purge or a
  folder deletion overtakes a restore, a move, a rename or an ingest.

Two runs show where the code does not do what its comments say:

- `fs_v_overwrite`: adding the same bytes again under the same name. `hard_link` fails since the name
  is taken, and `fs::copy` opens the existing file for writing, which truncates it. That file is a link
  of the blob the copy is about to read: the blob is torn, and with it every file of those bytes.
- `fs_v_siblings`: deleting `a` beside `ab` bins the files of `ab`, since the `LIKE` has no separator.

A file binned with its folder cannot be restored at all, although vault.rs:22 calls the bin restorable:
`delete_folder_to_bin` drops the folder's row and `restore_from_bin` looks it up. `BinHolds` is
therefore about files whose folder is still there.

**Careful.** The passing runs on the mirror and the bin assume the user's side of what those runs show:
a target name no file, live row or command in flight has, and a binned name neither the bin nor a binned
row has. `Polite` and `PoliteBin` say so and are the only conditions the instances add to the code's.
Without them the code overwrites, as `fs_v_overwrite` shows; restoring takes the newest entry of a name,
whichever file it belonged to; and a row whose file drifted away can take over another's.

**Fault points.** `Crash` and `StepFails` strike at the program counters in `FaultPoints`. The passing
runs use those of commands on a file. Left out are the write of a blob (a torn blob is found by its name
and linked by every later file of the same bytes), `empty_bin`'s `DELETE` (without it every binned row
is left without its entry) and the folder commands, whose failure costs a subtree. These are known gaps
of the code and are listed as hazards. The theorems allow faults anywhere, except where their
hypothesis says otherwise (see "Proofs").

**Left out.** A name that sanitises to nothing or to `..`; names that end in `files`, on which the
prefix substitution acts twice; `_` as a wildcard of `LIKE`; case folding of `LIKE` in the components
before the last; the Windows rules for renaming. `StartsLike` models the missing separator. Coarser
than the code are `EmptyBin`, whose loop over the entries of the bin is one step, so that nothing falls
between two removals, and `Link`, which creates the directory and links in one step and falls back to
`fs::copy` only where the name is taken, not on a file system without hard links.

## SealedChannel

A sender drops one blob in the peer's queue and one in its own. Every client polls its queue every
12 s with requests that may take 15 s, keeps what it opened in localStorage, and acknowledges.

| variable | code |
|---|---|
| `log`, `queue` | what the server accepted (the index is `msg_id`), and what it has not deleted |
| `boot`, `self`, `todo` | how far `boot()` is, whether `VfCrypto.self` is set, what the restore has still to read |
| `threads` | `D.threads`, in memory |
| `store` | the `vfmail-dm-` keys of localStorage, which survive |
| `task` | the polls and the submit in flight, each between two of its `await`s |
| `saved`, `unsaved` | history: ids that were ever written to localStorage, and ids whose save threw, which the code logs and then acknowledges |

The loop over a batch has no `await`; it is a chain of steps during which no other callback of the
client runs (`Free`) and which only a crash interrupts. Requests fail, answers are lost, blobs arrive
damaged, localStorage is full: each costs one of `MaxFaults`. The minute within which an own message
replaces an optimistic bubble is a choice of how many of the last bubbles are recent. A refresh rebuilds
`D.threads` from mail with `$vfdm`, of which there is none: only `sendDMLegacy` wrote such mail, and
nothing calls it.

- `sc_delivery` (holds): `TypeOK`, `NoLoss`, `OwnMeansDelivered`, the refinement `LogImplemented`, and
  under `FairSpec` the liveness property `Arrives`. One sender, one recipient whose two polls overlap, three accepted blobs (a send
  whose answer was lost and its repetition, or one send and its mirror), one fault, one crash. The cap of
  a conversation is three, so that redelivery reaches it.
- `sc_v_history` (violated): `HistoryShown`. `refresh()` clears what was restored, polled or sent; boot
  itself calls it right after the restore.

**What it implements.** `Delivery` is the channel without its clients: a log, the messages that would
be delivered again, those the recipient has, and those he could not read or keep. He settles them in the
order of the log, perhaps a second time what he had given up, and the log forgets only what is settled.
`LogImplemented` maps `queue` to what waits, `saved` to what is taken, and `unsaved` with the blobs
that do not open to what is given up; polls, overlapping batches, restores, refreshes and closes are
stuttering. Its mutant ends the loop over a batch with the first message and acknowledges them all.

**Fairness.** Weak fairness of the steps of `boot()` and of each poll and submit: the event loop runs
what is due, the interval timer fires again, and requests end since `channel.rs` gives them 15 s.
`Booting` includes opening the application again after it was closed, an assumption on the user without
which no message could arrive. Faults are finite in number, so a request succeeds in the end. Nobody is
assumed to write, to open a new conversation, or to log in within the ten seconds `waitForUser` waits:
`Arrives` therefore excepts a client that polls without an identity, which is what a late login leads
to, and the hazard list names it.

**Left out.** Unread counters, rendering, the composer's text, several devices of one user, blobs that
are not base64 (which are never acknowledged; see "Not modelled"), and bodies that are JSON of another
version. `Restore` reads a conversation in one step; the code awaits the opening of each entry.

## ScheduledSend

The server does not schedule anything. A scheduled mail is a draft in the folder Scheduled with a
keyword `sendat_<time>`; each open client looks for due ones every 30 s and submits them with a request
of two calls, Email/set (to Outbox) and EmailSubmission/set, which on success files the mail under Sent.

| variable | code |
|---|---|
| `account`, `box`, `kw`, `submitted` | the account on the server: its folders, mails and devices, and of each mail the folders, the keywords `$draft` and `sendat_`, and how often it was accepted for delivery |
| `due` | the mails whose `sendat_` time has passed |
| `open`, `loads` | whether a device's client runs, and how often it was loaded |
| `counted`, `dispatching` | `S.byName.Scheduled.totalEmails!==0` as cached, and the flag of `dispatchDue` |
| `round` | the calls of `wakeDue` in flight: the next `await`, the mails still to send, the one being moved back |
| `orphans` | requests whose page went away before the server got to them, each with its page load |
| `listed`, `cut` | history: the page loads whose query returned a mail; refused mails whose way back was interrupted |

A request and its reply are one step: the code does nothing between them, and other steps may come
before and after. Its outcome is a choice: done and answered, done and the answer lost, or lost; every
refusal and loss costs one of `MaxFaults`. The reload of a page drops its rounds and its flag but not a
request on its way. Since lists in the interface may be old, a user may cancel any mail that exists.
Some accounts lack Outbox (creating it may fail, and the failure is swallowed) or Sent; `account`, one of
the constant `Accounts`, says which, and how many mails and devices there are. An account without either
folder is excluded: there `onOk` would take the mail out of its last folder. The account has an identity to send with (`dispatchDue` returns without one).

- `ss_dispatch`: accounts of two sizes. One mail and two devices that load twice each, with two calls
  of `wakeDue` that overlap on one of them; or two mails and one device, for the loop over a list whose
  mails fail, are cancelled, or come due one after the other. `OncePerLoad` is what the code achieves against double sending: within one page
  never, whatever is lost or refused, and across pages at most once for each that had listed the mail
  (two devices at the same time do send it twice, which is a hazard listed). `NotBeforeTime`,
  `UnsentStaysDraft` (a mail not sent is a draft in a folder the user can open it from),
  `OutboxIsTransient` (a mail is stranded in Outbox only by an interrupted way back) and the liveness
  property `ScheduledGoesOut`.

**Fairness.** Weak fairness of the interval timer and of each request (`RoundStep`), of the passing of
time, of a request under way, of opening a client again, and of `Refresh`. The last one is the
assumption that the user does not keep a mail or the composer open for ever: `refreshSoft` does nothing
then, and the early return on the cached folder count leaves alone what another device scheduled. The
number of faults is finite, so a mail that is refused again and again is out of the property's scope.

**Left out.** Snoozing, whose half of `wakeDue` runs before the dispatch and is taken to end (if it
throws, the next timer tries again); the limit of 50 mails in a query.

## VaultSession

`AppState` holds at most one vault (its root and master key) and one identity. A command copies the
vault and then works on its copy for as long as it takes, whatever is locked, unlocked or moved
meanwhile. Two commands may be in flight; a file is written in two steps, since `fs::write` empties it
first, and `index.db`, which is long and may be written meanwhile, is also copied in two. `Fails` ends a
command where it is and leaves what it wrote, a half-copied file included; `Crash` ends all of them.

| variable | code |
|---|---|
| `disk` | per place: `vault.json` (as the key it yields), `index.db` with its tables, committed rows, rows only in `index.db-wal`, whether some of these are half folded into `index.db` (`folding`), `identity.enc` and the key that wraps it, `identity.pub.json`, the names in `backups/` |
| `vault`, `identity` | `AppState`; the identity with the place it came from |
| `cmd` | the commands in flight with their copies; of a copy of `index.db` under way, what was there when it began (`half`) |
| `now`, `fresh` | seconds at the last snapshot, which name backups; random keys and ids, and rows, as a counter |
| `acked`, `begun`, `taken`, `moved`, `raced`, `partial` | history: rows whose command answered; snapshots begun, and written to their end; what each successful move owed; places where two creations of an identity ran together; places whose copy was cut short or overtaken by a write, and copies of such places or of raced ones |

- `vs_session` (holds): `KeyMatches` (what is sealed with the key in memory can be opened after a
  restart), `IdentityReloads` (no step, crash or move leaves the user with an identity that exists in
  memory only), `PublicIsOurs` (the public file belongs to the identity beside it), `MoveComplete` (a
  move that answered with success took the manifest, the identity and the rows of `index.db`) and
  `BackupsKept` (a backup written to its end goes only once `Keep` newer ones were begun, however
  snapshots and rotations overlap and wherever they break off); with the exceptions below. Two places
  and two commands in flight, five commands in all, one fault: enough for create, identity, a row, a
  move and what overtakes it, and for each of the exceptions to be found when it is taken away. One
  backup is kept where the code keeps ten. The run does not check for deadlock, as its counters run out.
- `vs_v_move` (violated): `MoveTakesRows`. The comment on `move_vault` says that the log of SQLite is
  rebuilt on reopen. It holds committed rows as long as some connection is open, and after a crash; the
  move leaves them behind.

**What the code does not prevent.** Three things go wrong in the code and in the model, and the
properties step around exactly these. The lengths are those of TLC's counterexamples without the
exception.

- *Two creations of an identity* (`raced`). `identity_ensure` looks and creates without a lock, and the
  New DM dialog calls it at every Start or Enter for as long as it has no answer (dm.js:728, 738-739).
  Both calls find nothing and write; the one kept in memory need not be the one on disk
  (`IdentityReloads`, 14 states), the public file may be the other's (`PublicIsOurs`, 15), and a move
  begun between the two takes what the second then replaces (`MoveComplete`, 22).
- *A database that changes under its copy* (`owed.steady`). The last connection to close folds the log
  into `index.db` page by page, while `fs::copy` of a move reads it. The copy may have the rows from
  before, or those from after, or be no database, and the log that could repair it is removed
  (sync.rs:170). `MoveComplete` asks for the rows only if `index.db` was the same, and not being folded
  into, at the beginning and the end of its copy (19 states).
- *A snapshot that breaks off* (`begun`). The torn `index-<time>.db` stays, and the next rotation counts
  it and removes a good backup in its place. With `taken` in place of `begun`, `BackupsKept` fails (14
  states); as it stands it bounds the loss to one place for each copy that was begun.

The hazard list has each of them.

**Patient.** Both runs assume that the user waits for the answer of create and unlock, and that nobody
opens the target of a move before it ends. The interface invites this (the button is disabled) and does
not enforce it: the Enter key stays live (vault-shell.js:186). With `Patient` FALSE two creates of one
place leave a key in memory that is not on disk and `KeyMatches` fails; no property covers that hazard.
Nothing of the kind is assumed of `identity_ensure`, snapshots or file commands.

**Left out.** The password (it is right), the credentials file, which is beside the open vault or in
`~/VFMail` when none is open, the conflict scan, folders and blobs (those of `FileStore`), a clock that
goes back. SQLite's own checkpoint when the log has grown to a thousand pages: the log is folded when
the last connection closes. Of snapshots: the return without a copy when there is no `index.db`, and
what the copy holds. `BackupsKept` is about files, not their bytes: a snapshot does not see the log, one
made while the log is folded may be torn, and two within one second share one file.

## KeyDirectory

One correspondent, whose key is looked for at several places in order (five URLs in the code; its
header names three), a cache file with a life of 24 hours, and above it the `Map` of the page, which
keeps every answer until the page is loaded again.

- `kd_lookup` (holds): `StaleBound` (no answer is out of date by more than the life of an entry and the
  time of a request, although a slow response may put an older key over a newer one and date it with its
  arrival) and, under `FairSpec`, `Converges`. Two lookups that overlap, two places that change at
  different times, two keys, two faults (a failing request or write, an outage).

**Fairness.** Requests end after five seconds; time passes; an outage ends; and the user restarts the
application now and then. Without the last, `Converges` fails: the page keeps a "not found", made
offline or before the correspondent signed up, for as long as it lives.

## Compose

One page and one form. What matters of a text is the mail it belongs to, so a mail is a number. A
request is answered in one step, later; its answer is heard by the page that made it, if that is still
there.

| variable | code |
|---|---|
| `drafts` | the folder Drafts on the server: of each message the mail it holds |
| `form`, `shown`, `armed`, `dirty`, `draftId` | the composer, `S.autosaveTimer`, `S.cpDirty`, `S.draftId` |
| `pending`, `undo`, `sends` | `S.pendingSend`, the one toast with its Undo, and every press of Send |
| `reqs` | requests in flight; message `MaxSaves + p` is that of press `p` |
| `submitted` | how often the server accepted a press |
| `loose` | history: drafts whose id was left in `S.draftId` for another mail |

- `cp_compose` (holds): `SendOnce` (a press of Send submits at most once, and not when it was undone in
  time or given up), `DraftsKept` (a saved draft goes only with its own mail, but for the drafts in
  `loose`) and, under `FairSpec`, `Settles` (every press comes to an end, also when a later one takes
  `S.pendingSend`). Two mails, two presses, two saves, one request of the form in flight beside the
  sends, and one upset: a refusal, a lost request or answer, a visit to the direct messages, a reload.

`loose` names what the code really does. An answer to a draft save sets `S.draftId` after the composer
was closed or reused (app.js:1097), and `openCompose` keeps `S.draftId` when a mail is begun over an open
or a discarded one (app.js:980); the next save or send then destroys the other mail's draft. Without
either clause TLC finds the loss in eight steps.

**Fairness.** The timer of a send fires unless it is cleared, and its request is answered or fails.

**Left out.** Versions of a text: the answer to a save clears `S.cpDirty` whatever was typed since, and
a refused send or schedule has already destroyed the draft it replaces; the hazard list names both, and
no property covers them.
Uploads, signatures and templates. The hook of `vf-crypto.js` around `sendNowRequest` is never installed:
it waits for `window.S`, and a `const` at the top of a script is no property of the window.

## Proofs

Each component has its theorems in a module of its own, laid out alike: the invariant in named parts,
lemmas about the operators, one lemma per action, the theorems. They hold for every value of the
constants that the named ASSUME of the component's module allows: any number of users, places, devices,
mails, commands in flight and faults. Some theorems about `FileStore` and `VaultSession` need one
hypothesis more and state it. Their properties are not those of the code with any users and any timing,
as the runs that are expected to fail and the findings show, and the hypothesis is never more than the
run of the property assumes.

**`FileStoreProofs`**, for any set of concurrent commands, any names, any sanitiser, any contents, and
faults at any step, with or without careful users.

- `TypeCorrect`: `Spec => []TypeOK`.
- `RowsKeepBlobs`: `Spec => []RowsHaveBlobs`. Not inductive alone: a command about to insert a row must
  have its blob already. The invariant is `StoreInv == TypeOK /\ BlobsHeld /\ RowsHaveBlobs`, where
  `BlobsHeld` says that of every command past the opening of its blob, and the blobs only ever grow.
- `RemovedRowsStay`: `Spec => RemovedStaysRemoved`, from the same invariant: ids are minted upwards and
  every `UPDATE` is restricted to the rows that exist.
- `LiveFilesStayListed` (`LiveFilesListed`) under `FoldersStay`: one command runs at a time, or no folder
  is deleted; names and faults are free. The invariant is `ListInv`: a command that will write a row's
  folder has that folder listed, and before the rows of the deleted folders go no live file is in them.
  Without `FoldersStay` a file can be moved into a folder between the two statements of its deletion.
- `BlobsHoldTheirBytes` (`BlobIntegrity`) under `FreeFileNames`: users pick free names, no write of a blob
  is cut short, no folder commands; any number of commands is in flight and anything else may fail. The
  invariant is `BlobInv`: no two hashes share an inode, nobody writes but into the blob of its hash, and
  the paths that the commands in flight will fill are free and differ from each other, so that
  `hard_link` never finds its name taken. `fs_v_overwrite` is what happens otherwise.

**`FileStoreTreeProofs`**: `FolderPathsCohere` (`FolderTreeCoherent`) under `FoldersWhole`: one command
at a time, free names, no fault between the rename on disk and the rows of a folder. The property says
nothing while a command runs, so the invariant `TreeInv` looks at the tables as they will be when the
command in flight is done (`Settled`): those are coherent, with paths that are distinct and are on disk
as directories, closed under parents, and apart from the paths of the live files. The heart of it are
three lemmas, for trees of any depth and for *any* relation `StartsLike` that holds of equal names.
`FolderRenamed`: swapping the prefix of the renamed folder's path gives the new tables, since the new
path is a free sibling of the old and nothing lies below it. `FoldersDropped`: what LIKE matches may be
more than the folder, but with a folder it always takes what is inside. `FolderDirsMoved`: `rename(2)`
takes the directories along.

The module also proves what `Subtree`, `Graft`, `Move`, `RenamedTo` and `MkdirAll` of
`DiskTree` do to a tree of any size (`SubtreeEffect`, `MoveEffect`, `MkdirAllEffect` and their like), and
the laws of prefixes the library of sequences does not have.

**`FileStoreMirrorProofs`**: `TreeMirrorsRows` (`Mirror`), `BinCanRestore` (`BinHolds`) and
`DriftStaysBounded` (`DriftBounded`) under `MirrorWorld`: one command at a time, free names, and no name
on disk that starts another. The last is needed because `delete_folder_to_bin` also bins the files of a
sibling whose name its own starts, whose directory stays (`fs_v_siblings`). For the first two, faults may
happen at any point, as the properties speak of runs without one so far. `DriftStaysBounded` counts what
any number of faults leaves behind, and adds `CutSafely`: no fault at a program counter in `Unfinished`.
These are fewer than "Fault points" above leaves out of the runs: the statements of a folder command
that follow its change of the disk, the write of a blob, and `empty_bin`'s `DELETE`. There one fault can
cost the files of a whole folder, of every later use of a blob, or of the bin. The invariant of all three
is `MirrorInv == faults = 0 \/ CutSafely => TreeInv /\ MirrorNow`.

- `MirrorNow` says that the mirror holds but for the rows in a set `X` and the paths in a set `Y`, neither
  with more elements than there were faults (`Astray`). A row of `X` has no file at its path, nor one in the
  bin that a restore would take for its own; a path of `Y` lies in a folder and may hold a file without a
  row. No later command adds to either, as names are free: it finds no file where a row of `X` points,
  and puts nothing over a file without a row. `CutShort` says, of a command between the disk
  and the row of a file, that one row more in `X` and one path more in `Y` is all it takes to have the
  mirror should it stop here; a fault anywhere else needs neither.
- It again looks at the tables as they will be when the command in flight is done (`FoldersDue`,
  `FilesDue`): the tree as it is now mirrors those, the bin as it is now holds them. So a command may
  change the disk and then the rows, or the rows and then the disk, in the order the code has. Besides,
  a blob has the bytes of its hash unless it is being written (`BlobsGood`), no two bin entries answer
  one search (`EntriesApart`), no row names a folder id yet to be minted (`Minted`), and a command that will
  still touch the disk finds there what its first look found (`Ready`).
- What a change of the tables and the tree does to the mirror is said once, without commands:
  `FolderComes`, `FolderMoves`, `FolderGoes` for a folder with all it holds, `FileComes`, `FileGoes`,
  `FileLeaves` for a file, `EntryComes`, `EntryGoes`, `RowIsKept` for the bin. `FolderMoves` is where
  the stored paths of all descendants and the subtree on disk are shown to change alike.
- One lemma per step then applies these. `NoCopyOver` shows that in this world `copy_file` and
  `ingest_bytes` never take the branch that copies over an existing file. `FaultMirror` is the step of
  a crash or an error.

**`SealedChannelProofs`**: `TypeCorrect`, `NothingIsLost` (`NoLoss`), `OwnTextsWereDelivered`
(`OwnMeansDelivered`) and `ImplementsLog` (`Spec => LogImplemented`, the refinement of `Delivery`), all
from `Inductive == Spec => []ChannelInv`. Its parts:

- `QueueOK`: a message is in the queue or its recipient is done with it, that is, has saved it, failed
  to save it, or cannot open it; `SavedOK`: what was ever saved is kept, or the conversation is at its cap.
- `TasksOK`: a poll has handled the messages it will acknowledge, in the order of the log, and of every
  message in its batch it knows that all earlier ones of that user are in the batch or done with. This is
  what lets polls overlap, and what makes every save of a message a step of `Delivery`. A submit goes
  beyond its first send only if the peer's server accepted the text (`Reached`).
- `ThreadsOK`, `StoreOK`: the server ids in memory are those of messages done with. It is the reason why
  skipping a message that "was seen before" loses nothing, and it needs the history variable `unsaved`:
  after a failed write the bubble is in memory and nowhere on disk. Own entries were accepted for the peer.
- `LogOwn`: what a user's own queue holds was accepted for the peer first.

**`ScheduledSendProofs`**: `TypeCorrect`, `SentOncePerLoad` (`OncePerLoad`), `SentAfterItsTime`
(`NotBeforeTime`), `UnsentIsReachable` (`UnsentStaysDraft`), `OutboxHoldsInterrupted`
(`OutboxIsTransient`), from `Inductive == Spec => []SchedulerInv`. The step from one to many rounds is in
`RoundsOK` and `AttemptsOK`: of the rounds of a page at most one has passed the flag `dispatching`, so a
page load has at most one attempt at a mail, and an attempt not yet made is a listing not yet used.
`CountOK` counts submissions by the listings used up; a mail that was sent has lost its `sendat_` and is
not listed again. That the listings are finite in number is part of the invariant, not an assumption.

**`VaultSessionProofs`**. `TypeCorrect` needs nothing. The others have the hypothesis
`Patient` (see VaultSession): without it `KeyMatches` is false.

- `KeyStaysRight` (`KeyMatches`), by `KeyInv`: a command that holds a key holds the one of the manifest
  where it works, a create writes where there is no manifest and no other create writes, and nobody is
  busy in the target of a move.
- `IdentityStaysLoadable` (`IdentityReloads`), by `IdentityInv` on top of it. Calls of `identity_ensure`
  overlap freely. Where no two were creating together, who is about to write an identity is the only one
  to, found none, and once it wrote the secret file the secret there is its own.
- `PublicStaysOurs` (`PublicIsOurs`), by `PubInv`, for the places that are neither `raced` nor `partial`.
- `MoveBringsAll` (`MoveComplete`), by `MoveInv`: `MoverOK` says of a move under way what it has brought
  so far, that its source still has what it owes, and that what it noted when the copy of `index.db`
  began has it too; `MovedOK` says it of the moves that ended.
- `NewestBackupsStay` (`BackupsKept`), by `BackInv`: of every backup that was begun `KeptOK` says what
  the property says of those that were written, and whatever a folder or an old listing names beyond
  those begun there (a move may have brought it) is older than all of them.
- `SecretsAreFinal`: `[][SecretsKept]_vars`, a property the runs have no line for. No command, however
  many run and wherever they fail, replaces the key of a place by another, nor its identity, unless two
  creations ran together there.

**`KeyDirectoryProofs`**: `TypeCorrect` and `AnswersAreRecent` (`StaleBound`), by `AgeInv`, which dates the
entry of the cache and the key of every lookup in flight by when that key was last served.

**`ComposeProofs`**: `TypeCorrect`, `PressSubmitsOnce` (`SendOnce`) by `ComposeInv` (a press waits, is
posted or has ended, with one request at most, and submissions are counted against its end), and
`DraftsAreKept` (`DraftsKept`) by `OwnInv`: every id the form, the toast, a press or a request will
destroy is of a draft of the same mail, or is `loose`.

**What the proofs changed in the models.** Three places could not be proved because they were wrong or
too coarse in the model, and follow the code more closely now. `partial` in VaultSession also passes to
the target of a move whose source is in it: with three places, one more than the run has, a place could
get a mixed public file from a copy of a copy. `orphans` in ScheduledSend keeps two requests of two page
loads for one mail apart. `Restore` in SealedChannel says which entries it takes by their positions,
where it had a filter over a sequence that no prover can unfold.

**Only model-checked.** Liveness (`Arrives`, `ScheduledGoesOut`, `Converges`, `Settles`), since TLAPS
does not reason about ENABLED. Every other property of a passing run has its theorem.

## Not modelled

- File labels: single statements on columns nothing else reads. Cryptographic primitives and the sealing
  of mail: functions without state.
- The outbound firewall: a pure function nothing calls. The updater: a plugin's state.
- The mail list, the undo engine and the filters: their state is a view of the server's, replaced by the
  next refresh. In between a late answer shows the wrong list (app.js:357).
- Unread counters of the direct messages (`markThreadRead` zeroes a counter after an `await`), the order
  of optimistic bubbles, and a queue headed by blobs that are not base64, which are never acknowledged
  (channel.rs:145).
- Rendering, the web file explorer (the desktop build does not use it), and the build scripts.
