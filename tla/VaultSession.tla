---------------------------- MODULE VaultSession ----------------------------
(***************************************************************************)
(* The life of a vault: src-tauri/src/vault.rs, identity.rs and sync.rs    *)
(* under the commands of lib.rs.  AppState holds at most one vault and one *)
(* identity; a command copies what it needs out of it and then works, for  *)
(* as long as it takes, on that copy.  Commands run in parallel.  A file   *)
(* is written in two steps, since fs::write empties it first; a failing    *)
(* command or a crash leaves what was written by then.                     *)
(***************************************************************************)
EXTENDS Naturals, FiniteSets

CONSTANTS
  Roots,        \* places a vault may be in
  Slots,        \* commands that may be in flight together
  Nil, Torn,    \* no such file; a file that does not parse
  Keep,         \* backups kept by rotate_backups (10 in the code)
  Patient,      \* the user waits for the answer of a lifecycle command (see Waits)
  Commands,     \* the kinds of command the instance calls
  MaxStarts,    \* bound on the commands called
  MaxFaults,    \* bound on failing commands and crashes
  MaxTime       \* bound on the clock that names backups

ASSUME SessionAssumption ==
  /\ Keep \in Nat \ {0} /\ Patient \in BOOLEAN
  /\ MaxStarts \in Nat /\ MaxFaults \in Nat /\ MaxTime \in Nat \ {0}
  /\ Nil # Torn
  /\ \A none \in {Nil, Torn} : none \notin Nat /\ none \notin [id : Nat, key : Nat]

VARIABLES
  disk,         \* what is at each root
  vault,        \* AppState.vault: root and master key, or Nil
  identity,     \* AppState.identity: the id and the root it came from, or Nil
  cmd,          \* the commands in flight, with their copies
  now,          \* the time a snapshot read last, in seconds
  fresh,        \* the last random key or id drawn, the last row inserted
  acked,        \* history: rows of a root whose command has answered
  begun, taken, \* history: backups of a root that a snapshot has begun, has written
  moved,        \* history: successful moves, and what was at the source when they began
  raced,        \* history: roots where two commands were creating an identity together
  partial,      \* history: roots whose copy was cut short, overtaken by a write, or made of such
                \* a copy or of a raced root
  starts, faults

memory == <<vault, identity>>
backupsMade == <<begun, taken>>
history == <<acked, begun, taken, moved, raced, partial>>
vars == <<disk, vault, identity, cmd, now, fresh, history, starts, faults>>

\* vault.json; index.db with its tables and rows; the rows only in index.db-wal, and whether some
\* pages of theirs are already in index.db; identity.enc and the key that wraps it;
\* identity.pub.json; the names of backups/.  "made": not empty.
Empty == [made |-> FALSE, manifest |-> Nil, tables |-> FALSE, db |-> {}, wal |-> {},
          folding |-> FALSE, enc |-> Nil, pub |-> Nil, backups |-> {}]
Idle == [pc |-> "idle", root |-> Nil, key |-> Nil, id |-> Nil, row |-> Nil, ts |-> Nil,
         to |-> Nil, todo |-> {}, half |-> Nil, old |-> {}, owed |-> Nil]

Init ==
  /\ disk = [r \in Roots |-> Empty]
  /\ vault = Nil /\ identity = Nil
  /\ cmd = [s \in Slots |-> Idle]
  /\ now = 1 /\ fresh = 0
  /\ acked = [r \in Roots |-> {}]
  /\ begun = [r \in Roots |-> {}] /\ taken = [r \in Roots |-> {}]
  /\ moved = {} /\ raced = {} /\ partial = {}
  /\ starts = 0 /\ faults = 0

Whole(f) == f \notin {Nil, Torn}

-----------------------------------------------------------------------------
(* Commands in flight.                                                      *)

Call(s, kind, c) ==
  /\ kind \in Commands /\ cmd[s].pc = "idle" /\ starts < MaxStarts
  /\ starts' = starts + 1
  /\ cmd' = [cmd EXCEPT ![s] = c]
At(s, pc) == cmd[s].pc = pc
Goto(s, pc) == cmd' = [cmd EXCEPT ![s].pc = pc]
Return(s) == cmd' = [cmd EXCEPT ![s] = Idle]
Running(pcs, r) == \E s \in Slots : cmd[s].pc \in pcs /\ r \in {cmd[s].root, cmd[s].to}

Creating == {"manifest", "manifest2", "tables", "open"}
Making == {"enc", "enc2", "pub", "pub2"}
Ensuring == Making \cup {"keep"}
Moving == {"copy", "pages", "strip", "clear"}
\* vault-shell.js disables the button, not the Enter key, while it waits for create or unlock: a
\* patient user does not press Enter again, reload, or turn to the target of a move meanwhile.
\* Nobody waits for identity_ensure: dm.js asks at the start, and again at every Start or Enter
\* of the New DM dialog for as long as it has no answer.
Waits(r, pcs) == Patient => ~Running(pcs, r)

-----------------------------------------------------------------------------
(* vault_create, vault_unlock, vault_lock.                                  *)

\* Mutant: no look for a manifest.
Create_Anyway(s, r) ==
  /\ Waits(r, Creating \cup Moving)
  /\ Call(s, "create", [Idle EXCEPT !.pc = "manifest", !.root = r, !.key = fresh + 1])
  /\ disk' = [disk EXCEPT ![r].made = TRUE]
  /\ fresh' = fresh + 1
  /\ UNCHANGED <<memory, now, history, faults>>
\* Vault::create up to the derivation of the key.
Create(s, r) ==
  /\ Waits(r, Creating \cup Moving)
  /\ disk[r].manifest = Nil
  /\ Call(s, "create", [Idle EXCEPT !.pc = "manifest", !.root = r, !.key = fresh + 1])
  /\ disk' = [disk EXCEPT ![r].made = TRUE]
  /\ fresh' = fresh + 1
  /\ UNCHANGED <<memory, now, history, faults>>

\* fs::write of one file, in two steps: it is emptied, then filled.
Written == UNCHANGED <<memory, now, fresh, history, starts, faults>>

WriteManifest(s) ==
  /\ \/ /\ At(s, "manifest") /\ Goto(s, "manifest2")
        /\ disk' = [disk EXCEPT ![cmd[s].root].manifest = Torn]
     \/ /\ At(s, "manifest2") /\ Goto(s, "tables")
        /\ disk' = [disk EXCEPT ![cmd[s].root].manifest = cmd[s].key]
  /\ Written

\* meta::init_db.
MakeTables(s) ==
  /\ At(s, "tables") /\ Goto(s, "open")
  /\ disk' = [disk EXCEPT ![cmd[s].root].tables = TRUE]
  /\ Written

\* Mutant: an unreadable manifest is taken as it is.
Unlock_Torn(s, r) ==
  /\ Waits(r, Creating \cup Moving)
  /\ disk[r].manifest # Nil
  /\ Call(s, "unlock", [Idle EXCEPT !.pc = "open", !.root = r, !.key = disk[r].manifest])
  /\ UNCHANGED <<disk, memory, now, fresh, history, faults>>
\* Vault::unlock; the password is right, and the derivation of the key takes its time.
Unlock(s, r) ==
  /\ Waits(r, Creating \cup Moving)
  /\ Whole(disk[r].manifest)
  /\ Call(s, "unlock", [Idle EXCEPT !.pc = "open", !.root = r, !.key = disk[r].manifest])
  /\ UNCHANGED <<disk, memory, now, fresh, history, faults>>

\* The last line of vault_create and vault_unlock.
Open(s) ==
  /\ At(s, "open")
  /\ vault' = [root |-> cmd[s].root, key |-> cmd[s].key]
  /\ Return(s)
  /\ UNCHANGED <<disk, identity, now, fresh, history, starts, faults>>

\* vault_lock does not touch the identity.
Lock ==
  /\ "lock" \in Commands /\ vault # Nil /\ starts < MaxStarts
  /\ vault' = Nil /\ starts' = starts + 1
  /\ UNCHANGED <<disk, identity, cmd, now, fresh, history, faults>>

-----------------------------------------------------------------------------
(* identity_ensure.                                                         *)

\* Identity::create begins; another one may be under way in the same vault.
MakeIdentity(s) ==
  /\ Call(s, "ensure", [Idle EXCEPT !.pc = "enc", !.root = vault.root, !.key = vault.key,
                                    !.id = fresh + 1])
  /\ fresh' = fresh + 1
  /\ raced' = raced \cup {r \in {vault.root} : Running(Making, r)}
KeepOld(s, id) ==
  /\ Call(s, "ensure", [Idle EXCEPT !.pc = "keep", !.root = vault.root, !.key = vault.key,
                                    !.id = id])
  /\ UNCHANGED <<fresh, raced>>

\* Mutant: whatever is there, an identity is created.
Ensure_Create(s) ==
  /\ vault # Nil /\ MakeIdentity(s)
  /\ UNCHANGED <<disk, memory, now, acked, backupsMade, moved, partial, faults>>
\* Mutant: the wrapping of the secret is not opened.
Ensure_AnyKey(s) ==
  /\ vault # Nil
  /\ LET enc == disk[vault.root].enc
     IN \/ enc = Nil /\ MakeIdentity(s)
        \/ Whole(enc) /\ KeepOld(s, enc.id)
  /\ UNCHANGED <<disk, memory, now, acked, backupsMade, moved, partial, faults>>
\* Identity::load, and the decision to create one.  A torn file and a secret wrapped with
\* another key are errors.
Ensure(s) ==
  /\ vault # Nil
  /\ LET enc == disk[vault.root].enc
     IN \/ enc = Nil /\ MakeIdentity(s)
        \/ Whole(enc) /\ enc.key = vault.key /\ KeepOld(s, enc.id)
  /\ UNCHANGED <<disk, memory, now, acked, backupsMade, moved, partial, faults>>

\* Identity::create: the secrets, wrapped with the vault's key, then the public half.
WriteIdentity(s) ==
  /\ \/ /\ At(s, "enc") /\ Goto(s, "enc2")
        /\ disk' = [disk EXCEPT ![cmd[s].root].enc = Torn]
     \/ /\ At(s, "enc2") /\ Goto(s, "pub")
        /\ disk' = [disk EXCEPT ![cmd[s].root].enc = [id |-> cmd[s].id, key |-> cmd[s].key]]
  /\ Written
WritePublic(s) ==
  /\ \/ /\ At(s, "pub") /\ Goto(s, "pub2")
        /\ disk' = [disk EXCEPT ![cmd[s].root].pub = Torn]
     \/ /\ At(s, "pub2") /\ Goto(s, "keep")
        /\ disk' = [disk EXCEPT ![cmd[s].root].pub = cmd[s].id]
  /\ Written

\* The identity is kept, even if the vault was locked or moved meanwhile.
KeepIdentity(s) ==
  /\ At(s, "keep")
  /\ identity' = [root |-> cmd[s].root, id |-> cmd[s].id]
  /\ Return(s)
  /\ UNCHANGED <<disk, vault, now, fresh, history, starts, faults>>

-----------------------------------------------------------------------------
(* A file command, as far as index.db is concerned: meta::conn opens the    *)
(* database in WAL mode; a statement commits to the log; the last           *)
(* connection to close folds the log into index.db, page by page, and lets  *)
(* no other connection in meanwhile.                                        *)

FileCommand(s) ==
  /\ vault # Nil /\ disk[vault.root].tables
  /\ Call(s, "file", [Idle EXCEPT !.pc = "row", !.root = vault.root])
  /\ UNCHANGED <<disk, memory, now, fresh, history, faults>>

Insert(s) ==
  /\ At(s, "row") /\ ~Running({"fold"}, cmd[s].root)
  /\ fresh' = fresh + 1
  /\ disk' = [disk EXCEPT ![cmd[s].root].wal = @ \cup {fresh + 1}]
  /\ cmd' = [cmd EXCEPT ![s].pc = "close", ![s].row = fresh + 1]
  /\ UNCHANGED <<memory, now, history, starts, faults>>

Connected == {s \in Slots : cmd[s].pc \in {"row", "close"}}
Answers(s) == acked' = [acked EXCEPT ![cmd[s].root] = @ \cup {cmd[s].row}] /\ Return(s)

\* The connection is closed; the last one folds the log.
Close(s) ==
  /\ At(s, "close")
  /\ LET r == cmd[s].root IN
     \/ /\ \E p \in Connected \ {s} : cmd[p].root = r
        /\ Answers(s) /\ UNCHANGED disk
     \/ /\ \A p \in Connected \ {s} : cmd[p].root # r
        /\ Goto(s, "fold") /\ UNCHANGED acked
        /\ disk' = [disk EXCEPT ![r].folding = TRUE]
  /\ UNCHANGED <<memory, now, fresh, backupsMade, moved, raced, partial, starts, faults>>

Folded(d) == [d EXCEPT !.db = @ \cup d.wal, !.wal = {}, !.folding = FALSE]
Fold(s) ==
  /\ At(s, "fold")
  /\ disk' = [disk EXCEPT ![cmd[s].root] = Folded(@)]
  /\ Answers(s)
  /\ UNCHANGED <<memory, now, fresh, backupsMade, moved, raced, partial, starts, faults>>

-----------------------------------------------------------------------------
(* sync_move_vault.                                                         *)

Parts == {"manifest", "db", "wal", "enc", "pub", "backups"}
\* fs::copy of one file, or of the files of backups/; a file that is not there is not listed.
Copied(f, d, src) ==
  CASE f = "manifest" -> IF src.manifest = Nil THEN d ELSE [d EXCEPT !.manifest = src.manifest]
    [] f = "wal" -> [d EXCEPT !.wal = src.wal]
    [] f = "enc" -> IF src.enc = Nil THEN d ELSE [d EXCEPT !.enc = src.enc]
    [] f = "pub" -> IF src.pub = Nil THEN d ELSE [d EXCEPT !.pub = src.pub]
    [] f = "backups" -> [d EXCEPT !.backups = @ \cup src.backups]
\* The copy of f breaks off.
CutOff(f, d) ==
  CASE f = "manifest" -> [d EXCEPT !.manifest = Torn]
    [] f = "db" -> [d EXCEPT !.db = {}, !.tables = FALSE]
    [] f = "enc" -> [d EXCEPT !.enc = Torn]
    [] f = "pub" -> [d EXCEPT !.pub = Torn]
    [] OTHER -> d

\* What a move is to bring.
Contents(d) == [manifest |-> d.manifest, enc |-> d.enc, tables |-> d.tables, db |-> d.db]
\* move_vault: the target is empty or does not exist.
Move(s, t) ==
  /\ vault # Nil /\ ~disk[t].made /\ Waits(t, Creating \cup Moving)
  /\ LET r == vault.root IN
       Call(s, "move", [Idle EXCEPT !.pc = "copy", !.root = r, !.to = t, !.todo = Parts,
                                    !.owed = [from |-> r, was |-> Contents(disk[r]),
                                              acked |-> acked[r], steady |-> TRUE]])
  /\ UNCHANGED <<disk, memory, now, fresh, history, faults>>

\* copy_dir_recursive, in the order in which read_dir lists the files.
After(s, f) == IF cmd[s].todo = {f} THEN "strip" ELSE "copy"
Copy(s) ==
  /\ At(s, "copy")
  /\ \E f \in cmd[s].todo \ {"db"} :
       /\ disk' = [disk EXCEPT ![cmd[s].to] =
                     [Copied(f, @, disk[cmd[s].root]) EXCEPT !.made = TRUE]]
       /\ cmd' = [cmd EXCEPT ![s].todo = @ \ {f}, ![s].pc = After(s, f)]
  /\ UNCHANGED <<memory, now, fresh, history, starts, faults>>

\* index.db is longer: what is in it when its copy begins and ends need not be the same.
Pages(d) == [db |-> d.db, tables |-> d.tables, folding |-> d.folding]
CopyIndex(s) ==
  /\ At(s, "copy") /\ "db" \in cmd[s].todo
  /\ disk' = [disk EXCEPT ![cmd[s].to] = [CutOff("db", @) EXCEPT !.made = TRUE]]
  /\ cmd' = [cmd EXCEPT ![s].pc = "pages", ![s].half = Pages(disk[cmd[s].root])]
  /\ UNCHANGED <<memory, now, fresh, history, starts, faults>>

\* The copy ends.  One of pages from before and after a change may be what was there before,
\* what is there now, or no database.
Steady(s) == cmd[s].half = Pages(disk[cmd[s].root]) /\ ~cmd[s].half.folding
IndexCopied(s) ==
  /\ At(s, "pages")
  /\ \E p \in {cmd[s].half, Pages(disk[cmd[s].root]), Pages(Empty)} :
       /\ Steady(s) => p = cmd[s].half
       /\ disk' = [disk EXCEPT ![cmd[s].to].db = p.db, ![cmd[s].to].tables = p.tables]
  /\ cmd' = [cmd EXCEPT ![s].todo = @ \ {"db"}, ![s].pc = After(s, "db"), ![s].half = Nil,
                        ![s].owed.steady = Steady(s)]
  /\ UNCHANGED <<memory, now, fresh, history, starts, faults>>

\* "strip WAL/SHM leftovers at target"
Strip(s) ==
  /\ At(s, "strip")
  /\ disk' = [disk EXCEPT ![cmd[s].to].wal = {}]
  /\ Goto(s, "clear")
  /\ UNCHANGED <<memory, now, fresh, history, starts, faults>>

\* sync_move_vault clears whatever vault and identity are in memory by now.
ClearMemory(s) ==
  /\ At(s, "clear")
  /\ vault' = Nil /\ identity' = Nil
  /\ LET from == disk[cmd[s].root]
         to == disk[cmd[s].to]
     IN /\ moved' = moved \cup {[to |-> cmd[s].to, owed |-> cmd[s].owed]}
        /\ partial' = IF /\ from.enc = to.enc /\ from.pub = to.pub
                         /\ cmd[s].root \notin partial \cup raced
                        THEN partial ELSE partial \cup {cmd[s].to}
  /\ Return(s)
  /\ UNCHANGED <<disk, now, fresh, acked, backupsMade, raced, starts, faults>>

-----------------------------------------------------------------------------
(* sync_snapshot_db.                                                        *)

\* index.db is to be copied to backups/index-<now>.db.  It exists: of a vault without tables,
\* the first command to open it makes an empty one.
Snapshot(s) ==
  /\ vault # Nil
  /\ now' \in now .. MaxTime
  /\ Call(s, "snapshot", [Idle EXCEPT !.pc = "backup", !.root = vault.root, !.ts = now'])
  /\ UNCHANGED <<disk, memory, fresh, history, faults>>

\* The copy begins: its file has its name, and from now on rotations count it.
Backup(s) ==
  /\ At(s, "backup")
  /\ disk' = [disk EXCEPT ![cmd[s].root].backups = @ \cup {cmd[s].ts}]
  /\ begun' = [begun EXCEPT ![cmd[s].root] = @ \cup {cmd[s].ts}]
  /\ Goto(s, "fill")
  /\ UNCHANGED <<memory, now, fresh, acked, taken, moved, raced, partial, starts, faults>>
Fill(s) ==
  /\ At(s, "fill")
  /\ taken' = [taken EXCEPT ![cmd[s].root] = @ \cup {cmd[s].ts}]
  /\ Goto(s, "list")
  /\ UNCHANGED <<disk, memory, now, fresh, acked, begun, moved, raced, partial, starts, faults>>

\* Mutant: the newest are removed.
Excess_Newest(B) == {b \in B : Cardinality({x \in B : x < b}) >= Keep}
\* What rotate_backups removes of the listing: names sort by time.
Excess(B) == {b \in B : Cardinality({x \in B : x > b}) >= Keep}

List(s) ==
  /\ At(s, "list")
  /\ cmd' = [cmd EXCEPT ![s].pc = "rotate", ![s].old = disk[cmd[s].root].backups]
  /\ UNCHANGED <<disk, memory, now, fresh, history, starts, faults>>

Rotate(s) ==
  /\ At(s, "rotate")
  /\ disk' = [disk EXCEPT ![cmd[s].root].backups = @ \ Excess(cmd[s].old)]
  /\ Return(s)
  /\ UNCHANGED <<memory, now, fresh, history, starts, faults>>

-----------------------------------------------------------------------------
(* Errors, crashes.                                                         *)

Targets(S) == {cmd[s].to : s \in {p \in S : cmd[p].pc \in Moving}}
\* What the commands of S leave behind when they end where they are: a move, perhaps a file
\* cut off at the target.
Abandon(S) ==
  /\ cmd' = [s \in Slots |-> IF s \in S THEN Idle ELSE cmd[s]]
  /\ partial' = partial \cup Targets(S)
  /\ \/ UNCHANGED disk
     \/ \E s \in {p \in S : At(p, "copy")} : \E f \in cmd[s].todo :
          disk' = [disk EXCEPT ![cmd[s].to] = [CutOff(f, @) EXCEPT !.made = TRUE]]
  /\ faults < MaxFaults /\ faults' = faults + 1

\* Mutant: a file that cannot be copied is passed over.
Fails_Skipped(s) ==
  /\ \/ /\ cmd[s].pc \in Creating \cup Ensuring /\ Abandon({s})
     \/ /\ At(s, "copy") /\ faults < MaxFaults /\ faults' = faults + 1
        /\ \E f \in cmd[s].todo :
             cmd' = [cmd EXCEPT ![s].todo = @ \ {f}, ![s].pc = After(s, f)]
        /\ UNCHANGED <<disk, partial>>
  /\ UNCHANGED <<memory, now, fresh, acked, backupsMade, moved, raced, starts>>
\* A step of a command fails: the disk is full, a file is in use, a listed file is gone.
Fails(s) ==
  /\ cmd[s].pc \in {"manifest", "manifest2", "tables", "copy", "pages", "backup", "fill"} \cup Making
  /\ Abandon({s})
  /\ UNCHANGED <<memory, now, fresh, acked, backupsMade, moved, raced, starts>>

\* The application ends, by itself or with the machine.
Crash ==
  /\ Abandon(Slots)
  /\ vault' = Nil /\ identity' = Nil
  /\ UNCHANGED <<now, fresh, acked, backupsMade, moved, raced, starts>>

Next ==
  \/ Lock \/ Crash
  \/ \E s \in Slots, r \in Roots : Create(s, r) \/ Unlock(s, r) \/ Move(s, r)
  \/ \E s \in Slots :
       \/ WriteManifest(s) \/ MakeTables(s) \/ Open(s)
       \/ Ensure(s) \/ WriteIdentity(s) \/ WritePublic(s) \/ KeepIdentity(s)
       \/ FileCommand(s) \/ Insert(s) \/ Close(s) \/ Fold(s)
       \/ Copy(s) \/ CopyIndex(s) \/ IndexCopied(s) \/ Strip(s) \/ ClearMemory(s)
       \/ Snapshot(s) \/ Backup(s) \/ Fill(s) \/ List(s) \/ Rotate(s)
       \/ Fails(s)

Spec == Init /\ [][Next]_vars

-----------------------------------------------------------------------------
Ids == 1 .. 2 * MaxStarts
File(V) == V \cup {Nil, Torn}
Dir == [made : BOOLEAN, manifest : File(Ids), tables : BOOLEAN, db : SUBSET Ids,
        wal : SUBSET Ids, folding : BOOLEAN, enc : File([id : Ids, key : Ids]), pub : File(Ids),
        backups : SUBSET (1 .. MaxTime)]
TypeOK ==
  /\ disk \in [Roots -> Dir]
  /\ vault \in [root : Roots, key : Ids] \cup {Nil}
  /\ identity \in [root : Roots, id : Ids] \cup {Nil}
  /\ \A s \in Slots :
       /\ cmd[s].pc \in {"idle", "row", "close", "fold", "backup", "fill", "list", "rotate"}
                        \cup Creating \cup Ensuring \cup Moving
       /\ cmd[s].root \in Roots \cup {Nil} /\ cmd[s].to \in Roots \cup {Nil}
       /\ {cmd[s].key, cmd[s].id, cmd[s].row} \subseteq Ids \cup {Nil}
       /\ cmd[s].pc \in Moving => cmd[s].root # cmd[s].to
  /\ fresh \in Ids \cup {0} /\ now \in 1 .. MaxTime
  /\ partial \cup raced \subseteq Roots
  /\ starts \in 0 .. MaxStarts /\ faults \in 0 .. MaxFaults

\* The master key in memory is the one the manifest on disk yields: what is sealed with it
\* now can be opened after a restart.
KeyMatches == vault # Nil => disk[vault.root].manifest = vault.key

\* The identity in memory is the one the next start will load: identity.enc holds it, wrapped
\* with the key of the vault it lies in.  A crash, a failed write, a lock or a move between
\* any two steps never leaves the user with keys that exist in memory only.  Two creations
\* under way together do (the one that writes last need not be the one that is kept last):
\* those places are exempted, and nothing else is.
IdentityReloads ==
  identity # Nil /\ identity.root \notin raced =>
    LET d == disk[identity.root]
    IN Whole(d.manifest) /\ d.enc = [id |-> identity.id, key |-> d.manifest]

\* The key offered for publication is that of the identity beside it, except where two
\* creations were under way together, in a folder whose copy was cut short or overtaken by a
\* write, and in copies of those.
PublicIsOurs ==
  \A r \in Roots \ (partial \cup raced) : LET d == disk[r] IN
    ~Running(Moving, r) /\ Whole(d.enc) /\ Whole(d.pub) => d.pub = d.enc.id

\* After a move that answered with success the target unlocks with the same key, and has the
\* same identity, unless two were being created.  It has the rows index.db had when the move
\* began, unless a command of the source folded its log while index.db was copied.
MoveComplete ==
  \A m \in moved : LET was == m.owed.was
                        d == disk[m.to]
    IN /\ Whole(was.manifest) => d.manifest = was.manifest
       /\ Whole(was.enc) /\ m.owed.from \notin raced => d.enc = was.enc
       /\ m.owed.steady => (was.tables => d.tables) /\ was.db \subseteq d.db

\* A backup that was written to its end is removed only once Keep newer ones were at least
\* begun, however snapshots and their rotations overlap and wherever they break off.
BackupsKept ==
  \A r \in Roots : \A b \in taken[r] :
    Cardinality({x \in begun[r] : x > b}) < Keep => b \in disk[r].backups

\* Every row whose command had answered when a move began is at the target: sync.rs:159
\* "skips the WAL / SHM sidecars because those are rebuilt on reopen".
MoveTakesRows ==
  \A m \in moved : m.owed.acked \subseteq disk[m.to].db \cup disk[m.to].wal
=============================================================================
