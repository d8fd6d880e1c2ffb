------------------------- MODULE VaultSessionProofs -------------------------
(***************************************************************************)
(* Theorems about VaultSession, for every number of vaults and of commands *)
(* in flight, whatever commands are called, and faults at any step.        *)
(***************************************************************************)
EXTENDS VaultSession, FiniteSetTheorems, TLAPS

-----------------------------------------------------------------------------
(* What a command in flight knows.                                          *)

Times == 1 .. MaxTime
PCs == {"idle", "row", "close", "fold", "backup", "fill", "list", "rotate"}
         \cup Creating \cup Ensuring \cup Moving
Index == [db : SUBSET Ids, tables : BOOLEAN, folding : BOOLEAN]
Inside == [manifest : File(Ids), enc : File([id : Ids, key : Ids]), tables : BOOLEAN,
           db : SUBSET Ids]
Owed == [from : Roots, was : Inside, acked : SUBSET Ids, steady : BOOLEAN]
Command == [pc : PCs, root : Roots \cup {Nil}, key : Ids \cup {Nil}, id : Ids \cup {Nil},
            row : Ids \cup {Nil}, ts : Times \cup {Nil}, to : Roots \cup {Nil},
            todo : SUBSET Parts, half : Index \cup {Nil}, old : SUBSET Times, owed : Owed \cup {Nil}]
Busy == PCs \ {"idle"}

CommandOK(c) ==
  /\ c \in Command
  /\ c.pc \in Busy => c.root \in Roots
  /\ c.pc \in Creating \cup Ensuring => c.key \in Ids
  /\ c.pc \in Ensuring => c.id \in Ids
  /\ c.pc \in {"close", "fold"} => c.row \in Ids
  /\ c.pc \in {"backup", "fill"} => c.ts \in Times
  /\ c.pc \in Moving => c.to \in Roots /\ c.owed \in Owed /\ c.root # c.to
  /\ c.pc \notin {"copy", "pages"} => c.todo = {}
  /\ c.pc = "pages" => c.half \in Index /\ "db" \in c.todo
CommandsOK == DOMAIN cmd = Slots /\ \A s \in Slots : CommandOK(cmd[s])

DiskOK == disk \in [Roots -> Dir]
MemoryOK ==
  /\ vault \in [root : Roots, key : Ids] \cup {Nil}
  /\ identity \in [root : Roots, id : Ids] \cup {Nil}
HistoryOK ==
  /\ acked \in [Roots -> SUBSET Ids]
  /\ begun \in [Roots -> SUBSET Times] /\ taken \in [Roots -> SUBSET Times]
  /\ moved \subseteq [to : Roots, owed : Owed] /\ raced \subseteq Roots /\ partial \subseteq Roots
ClockOK == now \in Times /\ faults \in 0 .. MaxFaults

\* Every key, id and row was drawn for a command that was called: no more were drawn than
\* commands were called, those still to draw a row included.
Drawing == {s \in Slots : cmd[s].pc = "row"}
DrawsOK ==
  /\ fresh \in Nat /\ starts \in 0 .. MaxStarts
  /\ IsFiniteSet(Drawing) /\ fresh + Cardinality(Drawing) <= starts

\* A folder that is not there has nothing in it, and nobody works in it.
Blank(d) == d.manifest = Nil /\ d.enc = Nil /\ d.pub = Nil
MadeOK ==
  /\ \A r \in Roots : ~disk[r].made => Blank(disk[r]) /\ begun[r] = {} /\ taken[r] = {}
  /\ \A s \in Slots : cmd[s].pc \in Busy => disk[cmd[s].root].made
  /\ vault # Nil => disk[vault.root].made

\* The inductive invariant for the types.
TypeInv ==
  /\ DiskOK /\ MemoryOK /\ CommandsOK /\ HistoryOK /\ ClockOK /\ DrawsOK /\ MadeOK

-----------------------------------------------------------------------------
(* Lemmas about the parts of the state.                                     *)

LEMMA ConstantFacts ==
  /\ Ids \subseteq Nat /\ Nil \notin Ids /\ Torn \notin Ids
  /\ MaxStarts \in Nat /\ MaxFaults \in Nat /\ MaxTime \in Nat /\ 1 \in Times
  /\ Nil # Torn
BY SessionAssumption DEF Ids, Times

LEMMA PCFacts ==
  /\ PCs = {"idle", "row", "close", "fold", "backup", "fill", "list", "rotate", "manifest",
            "manifest2", "tables", "open", "enc", "enc2", "pub", "pub2", "keep", "copy", "pages",
            "strip", "clear"}
  /\ Busy = PCs \ {"idle"} /\ Creating \subseteq Busy /\ Ensuring \subseteq Busy /\ Moving \subseteq Busy
BY DEF PCs, Busy, Creating, Ensuring, Making, Moving

LEMMA IdleOK == CommandOK(Idle) /\ Idle.pc = "idle"
BY DEF CommandOK, Idle, Command, PCs, Busy, Creating, Ensuring, Making, Moving

\* One command goes on to c; the others stay.
LEMMA CommandStep ==
  ASSUME CommandsOK, NEW s \in Slots, NEW c, CommandOK(c), cmd' = [cmd EXCEPT ![s] = c]
  PROVE  CommandsOK' /\ cmd'[s] = c /\ \A u \in Slots \ {s} : cmd'[u] = cmd[u]
BY DEF CommandsOK

LEMMA CallStep ==
  ASSUME CommandsOK, NEW s \in Slots, NEW kind, NEW c, CommandOK(c), Call(s, kind, c)
  PROVE  /\ CommandsOK' /\ cmd[s].pc = "idle" /\ cmd'[s] = c
         /\ \A u \in Slots \ {s} : cmd'[u] = cmd[u]
BY CommandStep DEF Call

LEMMA ReturnStep ==
  ASSUME CommandsOK, NEW s \in Slots, Return(s)
  PROVE  CommandsOK' /\ cmd'[s].pc = "idle" /\ \A u \in Slots \ {s} : cmd'[u] = cmd[u]
BY IdleOK, CommandStep DEF Return

\* The same command at its next step, which needs nothing the last did not have.
Next2(a, b) ==
  \/ {a, b} \subseteq Creating \/ {a, b} \subseteq Ensuring
  \/ <<a, b>> \in {<<"close", "fold">>, <<"backup", "fill">>, <<"fill", "list">>, <<"strip", "clear">>}
LEMMA GotoStep ==
  ASSUME CommandsOK, NEW s \in Slots, NEW pc, Next2(cmd[s].pc, pc), Goto(s, pc)
  PROVE  /\ CommandsOK' /\ cmd'[s] = [cmd[s] EXCEPT !.pc = pc]
         /\ cmd'[s].pc = pc /\ cmd'[s].root = cmd[s].root
         /\ \A u \in Slots \ {s} : cmd'[u] = cmd[u]
<1> DEFINE c == [cmd[s] EXCEPT !.pc = pc]
<1>1. CommandOK(cmd[s]) /\ cmd[s] \in Command
  BY DEF CommandsOK, CommandOK
<1>2. pc \in Busy /\ cmd[s].pc \in Busy
  BY DEF Next2, Busy, PCs, Creating, Ensuring, Making, Moving
<1>3. /\ c \in Command /\ c.pc = pc /\ c.root = cmd[s].root /\ c.key = cmd[s].key
      /\ c.id = cmd[s].id /\ c.row = cmd[s].row /\ c.ts = cmd[s].ts /\ c.to = cmd[s].to
      /\ c.owed = cmd[s].owed /\ c.todo = cmd[s].todo
  BY <1>1, <1>2 DEF Command, Busy
<1>4. CommandOK(c)
  BY <1>1, <1>2, <1>3 DEF CommandOK, Next2, Creating, Ensuring, Making, Moving
<1>5. cmd' = [cmd EXCEPT ![s] = c]
  BY DEF Goto
<1> QED BY <1>3, <1>4, <1>5, CommandStep

\* The commands of S end.
LEMMA AbandonCommands ==
  ASSUME CommandsOK, NEW S \in SUBSET Slots, Abandon(S)
  PROVE  /\ CommandsOK' /\ \A s \in S : cmd'[s].pc = "idle"
         /\ \A s \in Slots \ S : cmd'[s] = cmd[s]
BY IdleOK DEF Abandon, CommandsOK

\* One folder changes.
LEMMA DiskStep ==
  ASSUME DiskOK, NEW r \in Roots, NEW d \in Dir, disk' = [disk EXCEPT ![r] = d]
  PROVE  DiskOK' /\ disk'[r] = d /\ \A q \in Roots \ {r} : disk'[q] = disk[q]
BY DEF DiskOK

\* What copying a part, or breaking off, makes of the target.
LEMMA CopiedDir ==
  ASSUME NEW f \in Parts, NEW d \in Dir, NEW src \in Dir
  PROVE  /\ f # "db" => Copied(f, d, src) \in Dir /\ Copied(f, d, src).made = d.made
         /\ CutOff(f, d) \in Dir /\ CutOff(f, d).made = d.made
BY ZenonT(40) DEF Parts, Copied, CutOff, Dir, File

LEMMA MadeDir ==
  ASSUME NEW d \in Dir
  PROVE  /\ [d EXCEPT !.made = TRUE] \in Dir /\ [d EXCEPT !.made = TRUE].made = TRUE
         /\ \A f \in {"manifest", "tables", "db", "wal", "folding", "enc", "pub", "backups"} :
              [d EXCEPT !.made = TRUE][f] = d[f]
BY DEF Dir

\* Nothing is drawn but for a command called.
LEMMA FreshFacts ==
  ASSUME DrawsOK
  PROVE  /\ fresh \in Ids \cup {0}
         /\ starts < MaxStarts => fresh + 1 \in Ids
         /\ Drawing # {} => fresh + 1 \in Ids
<1>1. Cardinality(Drawing) \in Nat /\ (Drawing # {} => Cardinality(Drawing) # 0)
  BY FS_CardinalityType, FS_EmptySet DEF DrawsOK
<1> QED BY <1>1, ConstantFacts DEF DrawsOK, Ids

LEMMA DrawStep ==
  ASSUME DrawsOK, Drawing' \subseteq Drawing,
         \/ fresh' = fresh /\ starts' = starts
         \/ fresh' \in {fresh, fresh + 1} /\ starts' = starts + 1 /\ starts < MaxStarts
  PROVE  DrawsOK'
<1>1. IsFiniteSet(Drawing') /\ Cardinality(Drawing') <= Cardinality(Drawing)
      /\ Cardinality(Drawing') \in Nat /\ Cardinality(Drawing) \in Nat
  BY FS_Subset, FS_CardinalityType DEF DrawsOK
<1> QED BY <1>1, ConstantFacts DEF DrawsOK

\* What a folder has of backups begun and taken stays as it is.
SameBackups(r) == begun'[r] = begun[r] /\ taken'[r] = taken[r]

\* A step that removes no folder, and gives commands and memory folders that exist.
LEMMA MadeStep ==
  ASSUME TypeInv, DiskOK', CommandsOK',
         \A r \in Roots : disk[r].made => disk'[r].made,
         \A r \in Roots : disk'[r].made \/ (SameBackups(r) /\ (Blank(disk[r]) => Blank(disk'[r]))),
         \A u \in Slots : \/ cmd'[u].pc = "idle"
                          \/ cmd[u].pc \in Busy /\ cmd'[u].root = cmd[u].root
                          \/ disk'[cmd'[u].root].made,
         vault' \in {Nil, vault} \/ disk'[vault'.root].made
  PROVE  MadeOK'
<1>1. \A r \in Roots : ~disk'[r].made => Blank(disk'[r]) /\ begun'[r] = {} /\ taken'[r] = {}
  BY DEF TypeInv, MadeOK, SameBackups
<1>2. ASSUME NEW s \in Slots, cmd'[s].pc \in Busy PROVE disk'[cmd'[s].root].made
  <2>1. cmd'[s].pc # "idle"
    BY <1>2 DEF Busy
  <2>2. cmd[s].pc \in Busy => cmd[s].root \in Roots /\ disk[cmd[s].root].made
    BY DEF TypeInv, MadeOK, CommandsOK, CommandOK
  <2> QED BY <2>1, <2>2
<1>3. vault' # Nil => disk'[vault'.root].made
  BY DEF TypeInv, MadeOK, MemoryOK
<1> QED BY <1>1, <1>2, <1>3 DEF MadeOK

\* A command calls: it works in a folder that exists, and draws no row.
LEMMA CallTypes ==
  ASSUME TypeInv, NEW s \in Slots, NEW kind, NEW c, CommandOK(c), Call(s, kind, c),
         c.pc \in Busy \ {"row"}, disk'[c.root].made,
         DiskOK', \A r \in Roots : disk'[r] = disk[r] \/ disk'[r].made,
         fresh' \in {fresh, fresh + 1}, now' \in Times, raced' \subseteq Roots,
         UNCHANGED <<memory, acked, begun, taken, moved, partial, faults>>
  PROVE  TypeInv'
<1>1. /\ CommandsOK' /\ cmd[s].pc = "idle" /\ cmd'[s] = c
      /\ \A u \in Slots \ {s} : cmd'[u] = cmd[u]
  BY CallStep DEF TypeInv
<1>2. DrawsOK'
  <2>1. Drawing' \subseteq Drawing
    BY <1>1 DEF Drawing
  <2> QED BY <2>1, DrawStep DEF TypeInv, Call
<1>3. MadeOK'
  <2>1. \A u \in Slots : \/ cmd[u].pc \in Busy /\ cmd'[u].root = cmd[u].root
                         \/ cmd'[u].pc = "idle" \/ disk'[cmd'[u].root].made
    BY <1>1 DEF TypeInv, CommandsOK, CommandOK, Command, Busy
  <2> QED BY <1>1, <2>1, MadeStep DEF memory, SameBackups
<1> QED BY <1>1, <1>2, <1>3 DEF TypeInv, MemoryOK, HistoryOK, ClockOK, memory

\* A command goes on, or ends, and changes one folder that exists.
LEMMA WorkTypes ==
  ASSUME TypeInv, NEW s \in Slots, CommandsOK',
         cmd[s].pc \in Busy, cmd'[s].pc = "idle" \/ cmd'[s].root = cmd[s].root, cmd'[s].pc # "row",
         \A u \in Slots \ {s} : cmd'[u] = cmd[u],
         DiskOK', \A r \in Roots : disk[r].made => disk'[r].made,
         \A r \in Roots : disk'[r].made \/ (SameBackups(r) /\ (Blank(disk[r]) => Blank(disk'[r]))),
         MemoryOK', HistoryOK', ClockOK',
         vault' \in {Nil, vault} \/ disk'[vault'.root].made,
         UNCHANGED <<fresh, starts>>
  PROVE  TypeInv'
<1>1. DrawsOK'
  <2>1. Drawing' \subseteq Drawing
    BY DEF Drawing
  <2> QED BY <2>1, DrawStep DEF TypeInv
<1>2. MadeOK'
  <2>1. \A u \in Slots : cmd'[u].pc = "idle" \/ (cmd[u].pc \in Busy /\ cmd'[u].root = cmd[u].root)
    BY DEF TypeInv, CommandsOK, CommandOK, Command, Busy
  <2> QED BY <2>1, MadeStep
<1> QED BY <1>1, <1>2 DEF TypeInv

\* The command at work: it is typed, and its folder exists.
LEMMA AtFacts ==
  ASSUME TypeInv, NEW s \in Slots, cmd[s].pc \in Busy
  PROVE  /\ CommandOK(cmd[s]) /\ cmd[s] \in Command /\ cmd[s].root \in Roots
         /\ disk[cmd[s].root] \in Dir /\ disk[cmd[s].root].made
BY DEF TypeInv, CommandsOK, CommandOK, MadeOK, DiskOK

-----------------------------------------------------------------------------
(* The types: the initial state and the steps.                              *)

LEMMA InitTypes == Init => TypeInv
<1> SUFFICES ASSUME Init PROVE TypeInv
  OBVIOUS
<1>1. Empty \in Dir /\ Blank(Empty)
  BY DEF Empty, Dir, File, Blank
<1>2. DiskOK /\ MemoryOK /\ HistoryOK
  BY <1>1 DEF Init, DiskOK, MemoryOK, HistoryOK
<1>3. CommandsOK
  BY IdleOK DEF Init, CommandsOK
<1>4. ClockOK
  BY ConstantFacts DEF Init, ClockOK
<1>5. DrawsOK
  <2>1. Drawing = {}
    BY IdleOK DEF Init, Drawing
  <2> QED BY <2>1, FS_EmptySet, ConstantFacts DEF Init, DrawsOK
<1>6. MadeOK
  BY <1>1, IdleOK DEF Init, MadeOK, Busy
<1> QED BY <1>2, <1>3, <1>4, <1>5, <1>6 DEF TypeInv

LEMMA CreateTypes ==
  ASSUME TypeInv, NEW s \in Slots, NEW r \in Roots, Create(s, r)
  PROVE  TypeInv'
<1> DEFINE c == [Idle EXCEPT !.pc = "manifest", !.root = r, !.key = fresh + 1]
<1>1. Call(s, "create", c) /\ fresh' = fresh + 1
  BY DEF Create
<1>2. CommandOK(c) /\ c.pc \in Busy \ {"row"} /\ c.root = r
  <2>1. fresh + 1 \in Ids
    BY <1>1, FreshFacts DEF TypeInv, Call
  <2> QED BY <2>1, IdleOK, PCFacts, ZenonT(40) DEF CommandOK, Command, Creating, Ensuring, Making, Moving
<1>3. /\ DiskOK' /\ \A q \in Roots : disk'[q] = disk[q] \/ disk'[q].made
      /\ disk'[r].made
  <2>1. disk' = [disk EXCEPT ![r] = [disk[r] EXCEPT !.made = TRUE]]
    BY DEF Create
  <2> QED BY <2>1, MadeDir, DiskStep DEF TypeInv, DiskOK
<1> HIDE DEF c
<1>4. now' \in Times /\ raced' \subseteq Roots
  BY DEF Create, TypeInv, ClockOK, HistoryOK, history
<1> QED BY <1>1, <1>2, <1>3, <1>4, CallTypes DEF Create, history

\* Calls that change nothing on disk.
LEMMA CallInMemory ==
  ASSUME TypeInv, NEW s \in Slots, NEW kind, NEW c, CommandOK(c), Call(s, kind, c),
         c.pc \in Busy \ {"row"}, disk[c.root].made, fresh' \in {fresh, fresh + 1},
         now' = now \/ now' \in Times, raced' = raced \/ raced' \subseteq Roots,
         UNCHANGED <<disk, memory, acked, begun, taken, moved, partial, faults>>
  PROVE  TypeInv'
<1>1. DiskOK' /\ now' \in Times /\ raced' \subseteq Roots
  BY DEF TypeInv, DiskOK, ClockOK, HistoryOK
<1> QED BY <1>1, CallTypes

LEMMA UnlockTypes ==
  ASSUME TypeInv, NEW s \in Slots, NEW r \in Roots, Unlock(s, r)
  PROVE  TypeInv'
<1> DEFINE c == [Idle EXCEPT !.pc = "open", !.root = r, !.key = disk[r].manifest]
<1>1. Call(s, "unlock", c)
  BY DEF Unlock
<1>2. disk[r].manifest \in Ids /\ disk[r].made
  BY DEF Unlock, Whole, TypeInv, DiskOK, Dir, File, MadeOK, Blank
<1>3. CommandOK(c) /\ c.pc \in Busy \ {"row"} /\ c.root = r
  BY <1>2, IdleOK, PCFacts, ZenonT(40) DEF CommandOK, Command, Creating, Ensuring, Making, Moving
<1> HIDE DEF c
<1> QED BY <1>1, <1>2, <1>3, CallInMemory DEF Unlock, history

LEMMA VaultFacts ==
  ASSUME TypeInv, vault # Nil
  PROVE  /\ vault.root \in Roots /\ vault.key \in Ids
         /\ disk[vault.root] \in Dir /\ disk[vault.root].made
BY DEF TypeInv, MemoryOK, MadeOK, DiskOK

\* What identity_ensure calls for: a new identity, or the one on disk.
NewIdentity ==
  [Idle EXCEPT !.pc = "enc", !.root = vault.root, !.key = vault.key, !.id = fresh + 1]
OldIdentity(id) ==
  [Idle EXCEPT !.pc = "keep", !.root = vault.root, !.key = vault.key, !.id = id]

LEMMA EnsureFacts ==
  ASSUME TypeInv, NEW s \in Slots, Ensure(s)
  PROVE  LET enc == disk[vault.root].enc IN
    /\ vault # Nil /\ vault.root \in Roots /\ vault.key \in Ids
    /\ disk[vault.root] \in Dir /\ disk[vault.root].made
    /\ \/ LET c == NewIdentity IN
            /\ enc = Nil /\ MakeIdentity(s) /\ Call(s, "ensure", c) /\ CommandOK(c)
            /\ c.pc = "enc" /\ c.root = vault.root /\ c.key = vault.key /\ c.id = fresh + 1
       \/ LET c == OldIdentity(enc.id) IN
            /\ enc \in [id : Ids, key : Ids] /\ enc.key = vault.key /\ Whole(enc)
            /\ KeepOld(s, enc.id) /\ Call(s, "ensure", c) /\ CommandOK(c)
            /\ c.pc = "keep" /\ c.root = vault.root /\ c.key = vault.key /\ c.id = enc.id
<1> DEFINE enc == disk[vault.root].enc
           new == NewIdentity
           kept == OldIdentity(enc.id)
<1>1. /\ vault # Nil /\ vault.root \in Roots /\ vault.key \in Ids
      /\ disk[vault.root] \in Dir /\ disk[vault.root].made
  BY VaultFacts DEF Ensure
<1>2. CASE enc = Nil /\ MakeIdentity(s)
  <2>1. Call(s, "ensure", new) /\ fresh + 1 \in Ids
    BY <1>2, FreshFacts DEF TypeInv, Call, MakeIdentity, NewIdentity
  <2>2. /\ new \in Command /\ new.pc = "enc" /\ new.root = vault.root
        /\ new.key = vault.key /\ new.id = fresh + 1 /\ new.todo = {}
    BY <1>1, <2>1, IdleOK, PCFacts, ZenonT(40) DEF CommandOK, Command, Idle, NewIdentity
  <2> HIDE DEF new
  <2>3. CommandOK(new)
    BY <1>1, <2>1, <2>2, PCFacts DEF CommandOK, Creating, Ensuring, Making, Moving
  <2> QED BY <1>1, <1>2, <2>1, <2>2, <2>3 DEF new
<1>3. CASE Whole(enc) /\ enc.key = vault.key /\ KeepOld(s, enc.id)
  <2>1. enc \in [id : Ids, key : Ids] /\ enc.id \in Ids /\ Call(s, "ensure", kept)
    BY <1>1, <1>3 DEF Whole, Dir, File, KeepOld, OldIdentity
  <2>2. /\ kept \in Command /\ kept.pc = "keep" /\ kept.root = vault.root
        /\ kept.key = vault.key /\ kept.id = enc.id /\ kept.todo = {}
    BY <1>1, <2>1, IdleOK, PCFacts, ZenonT(40) DEF CommandOK, Command, Idle, OldIdentity
  <2> HIDE DEF kept
  <2>3. CommandOK(kept)
    BY <1>1, <2>1, <2>2, PCFacts DEF CommandOK, Creating, Ensuring, Making, Moving
  <2> QED BY <1>1, <1>3, <2>1, <2>2, <2>3 DEF kept
<1> QED BY <1>2, <1>3 DEF Ensure

LEMMA EnsureTypes ==
  ASSUME TypeInv, NEW s \in Slots, Ensure(s)
  PROVE  TypeInv'
<1> PICK c \in {NewIdentity, OldIdentity(disk[vault.root].enc.id)} :
      /\ MakeIdentity(s) \/ KeepOld(s, disk[vault.root].enc.id)
      /\ Call(s, "ensure", c) /\ CommandOK(c) /\ c.pc \in {"enc", "keep"}
      /\ c.root = vault.root /\ disk[c.root].made
  BY EnsureFacts
<1>1. fresh' \in {fresh, fresh + 1} /\ raced' \subseteq Roots
  BY EnsureFacts DEF MakeIdentity, KeepOld, TypeInv, HistoryOK
<1>2. c.pc \in Busy \ {"row"}
  BY PCFacts
<1> QED BY <1>1, <1>2, CallInMemory DEF Ensure, backupsMade

\* What sync_move_vault calls for.
MoveCall(t) ==
  [Idle EXCEPT !.pc = "copy", !.root = vault.root, !.to = t, !.todo = Parts,
               !.owed = [from |-> vault.root, was |-> Contents(disk[vault.root]),
                         acked |-> acked[vault.root], steady |-> TRUE]]

LEMMA MoveFacts ==
  ASSUME TypeInv, NEW s \in Slots, NEW t \in Roots, Move(s, t)
  PROVE  /\ vault # Nil /\ vault.root \in Roots /\ disk[vault.root].made /\ vault.root # t
         /\ Call(s, "move", MoveCall(t)) /\ CommandOK(MoveCall(t))
         /\ MoveCall(t).pc = "copy" /\ MoveCall(t).root = vault.root /\ MoveCall(t).to = t
         /\ MoveCall(t).todo = Parts
         /\ MoveCall(t).owed = [from |-> vault.root, was |-> Contents(disk[vault.root]),
                                acked |-> acked[vault.root], steady |-> TRUE]
         /\ cmd[s].pc = "idle" /\ cmd'[s] = MoveCall(t)
         /\ \A u \in Slots \ {s} : cmd'[u] = cmd[u]
<1> DEFINE r == vault.root
           o == [from |-> r, was |-> Contents(disk[r]), acked |-> acked[r], steady |-> TRUE]
           c == MoveCall(t)
<1>1. vault # Nil /\ r \in Roots /\ disk[r] \in Dir /\ disk[r].made
  BY VaultFacts DEF Move
<1>2. r # t /\ acked[r] \in SUBSET Ids /\ Contents(disk[r]) \in Inside
  BY <1>1 DEF Move, TypeInv, HistoryOK, Contents, Inside, Dir
<1>3. o \in Owed
  BY <1>1, <1>2 DEF Owed
<1>4. c = [Idle EXCEPT !.pc = "copy", !.root = r, !.to = t, !.todo = Parts, !.owed = o]
  BY DEF MoveCall
<1>5. Call(s, "move", c)
  BY DEF Move, MoveCall
<1> HIDE DEF o, c
<1>6. /\ c \in Command /\ c.pc = "copy" /\ c.root = r /\ c.to = t /\ c.todo = Parts
      /\ c.owed = o
  BY <1>1, <1>3, <1>4, IdleOK, PCFacts, ZenonT(40) DEF CommandOK, Command, Idle
<1>7. CommandOK(c)
  BY <1>1, <1>2, <1>3, <1>6, PCFacts DEF CommandOK, Creating, Ensuring, Making, Moving
<1>8. cmd[s].pc = "idle" /\ cmd'[s] = c /\ \A u \in Slots \ {s} : cmd'[u] = cmd[u]
  BY <1>5, <1>7, CallStep DEF TypeInv
<1> QED BY <1>1, <1>2, <1>5, <1>6, <1>7, <1>8 DEF c, o

LEMMA MoveTypes ==
  ASSUME TypeInv, NEW s \in Slots, NEW t \in Roots, Move(s, t)
  PROVE  TypeInv'
<1> DEFINE c == MoveCall(t)
<1>1. Call(s, "move", c) /\ CommandOK(c) /\ c.pc \in Busy \ {"row"} /\ disk[c.root].made
  BY MoveFacts, PCFacts
<1> HIDE DEF c
<1> QED BY <1>1, CallInMemory DEF Move, history

LEMMA SnapshotTypes ==
  ASSUME TypeInv, NEW s \in Slots, Snapshot(s)
  PROVE  TypeInv'
<1> DEFINE c == [Idle EXCEPT !.pc = "backup", !.root = vault.root, !.ts = now']
<1>1. vault.root \in Roots /\ disk[vault.root].made /\ now' \in Times
  BY VaultFacts, ConstantFacts DEF Snapshot, TypeInv, ClockOK, Times
<1>2. CommandOK(c) /\ c.pc \in Busy \ {"row"} /\ c.root = vault.root
  BY <1>1, IdleOK, PCFacts, ZenonT(40) DEF CommandOK, Command, Creating, Ensuring, Making, Moving
<1>3. Call(s, "snapshot", c)
  BY DEF Snapshot
<1> HIDE DEF c
<1> QED BY <1>1, <1>2, <1>3, CallInMemory DEF Snapshot, history

LEMMA FileCommandTypes ==
  ASSUME TypeInv, NEW s \in Slots, FileCommand(s)
  PROVE  TypeInv'
<1> DEFINE c == [Idle EXCEPT !.pc = "row", !.root = vault.root]
<1>1. vault.root \in Roots /\ disk[vault.root].made
  BY VaultFacts DEF FileCommand
<1>2. CommandOK(c) /\ c.pc = "row" /\ c.root = vault.root
  BY <1>1, IdleOK, PCFacts, ZenonT(40) DEF CommandOK, Command, Creating, Ensuring, Making, Moving
<1>3. Call(s, "file", c)
  BY DEF FileCommand
<1> HIDE DEF c
<1>4. /\ CommandsOK' /\ cmd[s].pc = "idle" /\ cmd'[s] = c
      /\ \A u \in Slots \ {s} : cmd'[u] = cmd[u]
  BY <1>2, <1>3, CallStep DEF TypeInv
<1>5. DrawsOK'
  <2>1. Drawing' = Drawing \cup {s} /\ s \notin Drawing
    BY <1>2, <1>4 DEF Drawing
  <2>2. IsFiniteSet(Drawing') /\ Cardinality(Drawing') = Cardinality(Drawing) + 1
    BY <2>1, FS_AddElement DEF TypeInv, DrawsOK
  <2>3. Cardinality(Drawing) \in Nat
    BY FS_CardinalityType DEF TypeInv, DrawsOK
  <2> QED BY <1>3, <2>2, <2>3, ConstantFacts DEF TypeInv, DrawsOK, FileCommand, Call
<1>6. MadeOK'
  BY <1>1, <1>2, <1>4 DEF TypeInv, MadeOK, FileCommand, memory, history, Busy
<1>7. DiskOK' /\ MemoryOK' /\ HistoryOK' /\ ClockOK'
  BY DEF TypeInv, DiskOK, MemoryOK, HistoryOK, ClockOK, FileCommand, memory, history
<1> QED BY <1>4, <1>5, <1>6, <1>7 DEF TypeInv

LEMMA InsertTypes ==
  ASSUME TypeInv, NEW s \in Slots, Insert(s)
  PROVE  TypeInv'
<1> DEFINE c == [[cmd[s] EXCEPT !.pc = "close"] EXCEPT !.row = fresh + 1]
           r == cmd[s].root
           d == [disk[r] EXCEPT !.wal = @ \cup {fresh + 1}]
<1>1. s \in Drawing /\ cmd[s].pc = "row" /\ cmd[s].pc \in Busy
  BY PCFacts DEF Insert, At, Drawing
<1>2. fresh + 1 \in Ids
  BY <1>1, FreshFacts DEF TypeInv
<1>3. CommandOK(c) /\ c.pc = "close" /\ c.root = cmd[s].root
  <2>1. cmd[s] \in Command /\ r \in Roots /\ cmd[s].todo = {}
    BY <1>1, AtFacts DEF CommandOK
  <2>2. c \in Command /\ c.pc = "close" /\ c.root = r /\ c.todo = {} /\ c.row = fresh + 1
    BY <1>2, <2>1, PCFacts, ZenonT(40) DEF Command
  <2> HIDE DEF c
  <2> QED BY <1>2, <2>1, <2>2, PCFacts DEF CommandOK, Creating, Ensuring, Making, Moving
<1>4. cmd' = [cmd EXCEPT ![s] = c]
  BY DEF Insert
<1>5. CommandsOK' /\ cmd'[s] = c /\ \A u \in Slots \ {s} : cmd'[u] = cmd[u]
  <2> HIDE DEF c
  <2> QED BY <1>3, <1>4, CommandStep DEF TypeInv
<1>6. d \in Dir /\ d.made /\ disk' = [disk EXCEPT ![r] = d] /\ r \in Roots
  <2>1. r \in Roots /\ disk[r] \in Dir /\ disk[r].made
    BY <1>1, AtFacts
  <2> QED BY <1>2, <2>1 DEF Dir, Insert
<1>7. DiskOK' /\ disk'[r] = d /\ \A q \in Roots \ {r} : disk'[q] = disk[q]
  <2> HIDE DEF d
  <2> QED BY <1>6, DiskStep DEF TypeInv
<1>8. DrawsOK'
  <2>1. Drawing' = Drawing \ {s}
    BY <1>3, <1>5 DEF Drawing
  <2>2. IsFiniteSet(Drawing') /\ Cardinality(Drawing') = Cardinality(Drawing) - 1
    BY <1>1, <2>1, FS_RemoveElement DEF TypeInv, DrawsOK
  <2>3. Cardinality(Drawing) \in Nat
    BY FS_CardinalityType DEF TypeInv, DrawsOK
  <2> QED BY <2>2, <2>3 DEF TypeInv, DrawsOK, Insert
<1>9. MadeOK'
  <2>1. \A u \in Slots : cmd'[u].pc = "idle" \/ (cmd[u].pc \in Busy /\ cmd'[u].root = cmd[u].root)
    BY <1>1, <1>3, <1>5 DEF TypeInv, CommandsOK, CommandOK, Command, Busy
  <2> HIDE DEF c, d
  <2> QED BY <1>5, <1>6, <1>7, <2>1, MadeStep DEF Insert, memory, history, SameBackups
<1>10. MemoryOK' /\ HistoryOK' /\ ClockOK'
  BY DEF TypeInv, MemoryOK, HistoryOK, ClockOK, Insert, memory, history
<1> QED BY <1>5, <1>7, <1>8, <1>9, <1>10 DEF TypeInv

\* A step of a command that changes one folder, which exists, and neither memory nor history.
LEMMA WriteTypes ==
  ASSUME TypeInv, NEW s \in Slots, cmd[s].pc \in Busy, CommandsOK',
         cmd'[s].pc = "idle" \/ cmd'[s].root = cmd[s].root, cmd'[s].pc # "row",
         \A u \in Slots \ {s} : cmd'[u] = cmd[u],
         NEW r \in Roots, NEW d \in Dir, d.made, disk' = [disk EXCEPT ![r] = d],
         HistoryOK', \A q \in Roots \ {r} : SameBackups(q),
         UNCHANGED <<memory, now, fresh, starts, faults>>
  PROVE  TypeInv'
<1>1. DiskOK' /\ disk'[r] = d /\ \A q \in Roots \ {r} : disk'[q] = disk[q]
  BY DiskStep DEF TypeInv
<1>2. MemoryOK' /\ ClockOK'
  BY DEF TypeInv, MemoryOK, ClockOK, memory
<1> QED BY <1>1, <1>2, WorkTypes DEF memory

LEMMA GotoTypes ==
  ASSUME TypeInv, NEW s \in Slots, NEW pc, Next2(cmd[s].pc, pc), Goto(s, pc),
         NEW r \in Roots, NEW d \in Dir, d.made, disk' = [disk EXCEPT ![r] = d],
         HistoryOK', \A q \in Roots \ {r} : SameBackups(q),
         UNCHANGED <<memory, now, fresh, starts, faults>>
  PROVE  TypeInv'
<1>1. cmd[s].pc \in Busy /\ pc # "row"
  BY DEF Next2, Busy, PCs, Creating, Ensuring, Making, Moving
<1>2. /\ CommandsOK' /\ cmd'[s].pc = pc /\ cmd'[s].root = cmd[s].root
      /\ \A u \in Slots \ {s} : cmd'[u] = cmd[u]
  BY GotoStep DEF TypeInv
<1> QED BY <1>1, <1>2, WriteTypes

LEMMA WriteManifestTypes ==
  ASSUME TypeInv, NEW s \in Slots, WriteManifest(s)
  PROVE  TypeInv'
<1> DEFINE r == cmd[s].root
           torn == [disk[r] EXCEPT !.manifest = Torn]
           whole == [disk[r] EXCEPT !.manifest = cmd[s].key]
<1>1. cmd[s].pc \in {"manifest", "manifest2"} /\ cmd[s].pc \in Busy
  BY PCFacts DEF WriteManifest, At
<1>2. r \in Roots /\ disk[r] \in Dir /\ disk[r].made /\ cmd[s].key \in Ids
  BY <1>1, AtFacts, PCFacts DEF CommandOK, Creating
<1>3. torn \in Dir /\ torn.made /\ whole \in Dir /\ whole.made
  BY <1>2 DEF Dir, File
<1>4. HistoryOK' /\ \A q \in Roots : SameBackups(q)
  BY DEF TypeInv, HistoryOK, WriteManifest, Written, history, SameBackups
<1>5. CASE Goto(s, "manifest2") /\ disk' = [disk EXCEPT ![r] = torn]
  <2>1. Next2(cmd[s].pc, "manifest2")
    BY <1>1 DEF Next2, Creating
  <2> HIDE DEF torn
  <2> QED BY <1>1, <1>2, <1>3, <1>4, <1>5, <2>1, GotoTypes
          DEF TypeInv, WriteManifest, Written
<1>6. CASE Goto(s, "tables") /\ disk' = [disk EXCEPT ![r] = whole]
  <2>1. Next2(cmd[s].pc, "tables")
    BY <1>1 DEF Next2, Creating
  <2> HIDE DEF whole
  <2> QED BY <1>1, <1>2, <1>3, <1>4, <1>6, <2>1, GotoTypes
          DEF TypeInv, WriteManifest, Written
<1> QED BY <1>5, <1>6 DEF WriteManifest

LEMMA MakeTablesTypes ==
  ASSUME TypeInv, NEW s \in Slots, MakeTables(s)
  PROVE  TypeInv'
<1> DEFINE r == cmd[s].root
           d == [disk[r] EXCEPT !.tables = TRUE]
<1>1. cmd[s].pc = "tables" /\ cmd[s].pc \in Busy /\ Next2(cmd[s].pc, "open")
  BY PCFacts DEF MakeTables, At, Next2, Creating
<1>2. r \in Roots /\ disk[r] \in Dir /\ disk[r].made
  BY <1>1, AtFacts
<1>3. d \in Dir /\ d.made /\ disk' = [disk EXCEPT ![r] = d]
  BY <1>2 DEF Dir, MakeTables
<1>4. HistoryOK' /\ \A q \in Roots : SameBackups(q)
  BY DEF TypeInv, HistoryOK, MakeTables, Written, history, SameBackups
<1> HIDE DEF d
<1> QED BY <1>1, <1>2, <1>3, <1>4, GotoTypes DEF TypeInv, MakeTables, Written

LEMMA WriteIdentityTypes ==
  ASSUME TypeInv, NEW s \in Slots, WriteIdentity(s)
  PROVE  TypeInv'
<1> DEFINE r == cmd[s].root
           torn == [disk[r] EXCEPT !.enc = Torn]
           whole == [disk[r] EXCEPT !.enc = [id |-> cmd[s].id, key |-> cmd[s].key]]
<1>1. cmd[s].pc \in {"enc", "enc2"} /\ cmd[s].pc \in Busy
  BY PCFacts DEF WriteIdentity, At
<1>2. r \in Roots /\ disk[r] \in Dir /\ disk[r].made /\ cmd[s].key \in Ids /\ cmd[s].id \in Ids
  BY <1>1, AtFacts, PCFacts DEF CommandOK, Ensuring, Making
<1>3. torn \in Dir /\ torn.made /\ whole \in Dir /\ whole.made
  BY <1>2 DEF Dir, File
<1>4. HistoryOK' /\ \A q \in Roots : SameBackups(q)
  BY DEF TypeInv, HistoryOK, WriteIdentity, Written, history, SameBackups
<1>5. CASE Goto(s, "enc2") /\ disk' = [disk EXCEPT ![r] = torn]
  <2>1. Next2(cmd[s].pc, "enc2")
    BY <1>1 DEF Next2, Ensuring, Making
  <2> HIDE DEF torn
  <2> QED BY <1>1, <1>2, <1>3, <1>4, <1>5, <2>1, GotoTypes
          DEF TypeInv, WriteIdentity, Written
<1>6. CASE Goto(s, "pub") /\ disk' = [disk EXCEPT ![r] = whole]
  <2>1. Next2(cmd[s].pc, "pub")
    BY <1>1 DEF Next2, Ensuring, Making
  <2> HIDE DEF whole
  <2> QED BY <1>1, <1>2, <1>3, <1>4, <1>6, <2>1, GotoTypes
          DEF TypeInv, WriteIdentity, Written
<1> QED BY <1>5, <1>6 DEF WriteIdentity

LEMMA WritePublicTypes ==
  ASSUME TypeInv, NEW s \in Slots, WritePublic(s)
  PROVE  TypeInv'
<1> DEFINE r == cmd[s].root
           torn == [disk[r] EXCEPT !.pub = Torn]
           whole == [disk[r] EXCEPT !.pub = cmd[s].id]
<1>1. cmd[s].pc \in {"pub", "pub2"} /\ cmd[s].pc \in Busy
  BY PCFacts DEF WritePublic, At
<1>2. r \in Roots /\ disk[r] \in Dir /\ disk[r].made /\ cmd[s].id \in Ids
  BY <1>1, AtFacts, PCFacts DEF CommandOK, Ensuring, Making
<1>3. torn \in Dir /\ torn.made /\ whole \in Dir /\ whole.made
  BY <1>2 DEF Dir, File
<1>4. HistoryOK' /\ \A q \in Roots : SameBackups(q)
  BY DEF TypeInv, HistoryOK, WritePublic, Written, history, SameBackups
<1>5. CASE Goto(s, "pub2") /\ disk' = [disk EXCEPT ![r] = torn]
  <2>1. Next2(cmd[s].pc, "pub2")
    BY <1>1 DEF Next2, Ensuring, Making
  <2> HIDE DEF torn
  <2> QED BY <1>1, <1>2, <1>3, <1>4, <1>5, <2>1, GotoTypes
          DEF TypeInv, WritePublic, Written
<1>6. CASE Goto(s, "keep") /\ disk' = [disk EXCEPT ![r] = whole]
  <2>1. Next2(cmd[s].pc, "keep")
    BY <1>1 DEF Next2, Ensuring, Making
  <2> HIDE DEF whole
  <2> QED BY <1>1, <1>2, <1>3, <1>4, <1>6, <2>1, GotoTypes
          DEF TypeInv, WritePublic, Written
<1> QED BY <1>5, <1>6 DEF WritePublic

LEMMA BackupTypes ==
  ASSUME TypeInv, NEW s \in Slots, Backup(s)
  PROVE  TypeInv'
<1> DEFINE r == cmd[s].root
           d == [disk[r] EXCEPT !.backups = @ \cup {cmd[s].ts}]
<1>1. cmd[s].pc = "backup" /\ cmd[s].pc \in Busy /\ Next2(cmd[s].pc, "fill")
  BY PCFacts DEF Backup, At, Next2
<1>2. r \in Roots /\ disk[r] \in Dir /\ disk[r].made /\ cmd[s].ts \in Times
  BY <1>1, AtFacts DEF CommandOK
<1>3. d \in Dir /\ d.made /\ disk' = [disk EXCEPT ![r] = d]
  BY <1>2 DEF Dir, Backup, Times
<1>4. HistoryOK' /\ \A q \in Roots \ {r} : SameBackups(q)
  BY <1>2 DEF TypeInv, HistoryOK, Backup, SameBackups
<1> HIDE DEF d
<1> QED BY <1>1, <1>2, <1>3, <1>4, GotoTypes DEF TypeInv, Backup

LEMMA RotateTypes ==
  ASSUME TypeInv, NEW s \in Slots, Rotate(s)
  PROVE  TypeInv'
<1> DEFINE r == cmd[s].root
           d == [disk[r] EXCEPT !.backups = @ \ Excess(cmd[s].old)]
<1>1. cmd[s].pc = "rotate" /\ cmd[s].pc \in Busy
  BY PCFacts DEF Rotate, At
<1>2. r \in Roots /\ disk[r] \in Dir /\ disk[r].made
  BY <1>1, AtFacts
<1>3. d \in Dir /\ d.made /\ disk' = [disk EXCEPT ![r] = d]
  BY <1>2 DEF Dir, Rotate
<1>4. HistoryOK' /\ \A q \in Roots : SameBackups(q)
  BY DEF TypeInv, HistoryOK, Rotate, history, SameBackups
<1> HIDE DEF d
<1> QED BY <1>1, <1>2, <1>3, <1>4, ReturnStep, WriteTypes DEF TypeInv, Rotate

\* A command answers: its row joins those of its root.
LEMMA AnswerTypes ==
  ASSUME TypeInv, NEW s \in Slots, cmd[s].pc \in {"close", "fold"}, Answers(s),
         NEW d \in Dir, d.made, disk' = [disk EXCEPT ![cmd[s].root] = d],
         UNCHANGED <<memory, now, fresh, begun, taken, moved, raced, partial, starts, faults>>
  PROVE  TypeInv'
<1> DEFINE r == cmd[s].root
<1>1. cmd[s].pc \in Busy
  BY PCFacts
<1>2. r \in Roots /\ cmd[s].row \in Ids
  BY <1>1, AtFacts DEF CommandOK
<1>3. HistoryOK' /\ \A q \in Roots : SameBackups(q)
  BY <1>2 DEF TypeInv, HistoryOK, Answers, SameBackups
<1>4. CommandsOK' /\ cmd'[s].pc = "idle" /\ \A u \in Slots \ {s} : cmd'[u] = cmd[u]
  BY ReturnStep DEF TypeInv, Answers
<1> QED BY <1>1, <1>2, <1>3, <1>4, WriteTypes

LEMMA CloseTypes ==
  ASSUME TypeInv, NEW s \in Slots, Close(s)
  PROVE  TypeInv'
<1> DEFINE r == cmd[s].root
           d == [disk[r] EXCEPT !.folding = TRUE]
<1>1. cmd[s].pc = "close" /\ cmd[s].pc \in Busy /\ Next2(cmd[s].pc, "fold")
  BY PCFacts DEF Close, At, Next2
<1>2. r \in Roots /\ disk[r] \in Dir /\ disk[r].made
  BY <1>1, AtFacts
<1>3. d \in Dir /\ d.made
  BY <1>2 DEF Dir
<1>4. CASE Answers(s) /\ UNCHANGED disk
  <2>1. disk' = [disk EXCEPT ![r] = disk[r]]
    BY <1>2, <1>4 DEF TypeInv, DiskOK
  <2> QED BY <1>1, <1>2, <1>4, <2>1, AnswerTypes DEF Close, backupsMade
<1>5. CASE Goto(s, "fold") /\ UNCHANGED acked /\ disk' = [disk EXCEPT ![r].folding = TRUE]
  <2>1. HistoryOK' /\ \A q \in Roots : SameBackups(q)
    BY <1>5 DEF TypeInv, HistoryOK, Close, backupsMade, SameBackups
  <2>2. disk' = [disk EXCEPT ![r] = d]
    BY <1>5
  <2> HIDE DEF d
  <2> QED BY <1>1, <1>2, <1>3, <1>5, <2>1, <2>2, GotoTypes DEF TypeInv, Close
<1> QED BY <1>4, <1>5 DEF Close

LEMMA FoldTypes ==
  ASSUME TypeInv, NEW s \in Slots, Fold(s)
  PROVE  TypeInv'
<1> DEFINE d == Folded(disk[cmd[s].root])
<1>1. cmd[s].pc = "fold" /\ cmd[s].pc \in Busy
  BY PCFacts DEF Fold, At
<1>2. disk[cmd[s].root] \in Dir /\ disk[cmd[s].root].made
  BY <1>1, AtFacts
<1>3. d \in Dir /\ d.made /\ disk' = [disk EXCEPT ![cmd[s].root] = d]
  BY <1>2 DEF Dir, Folded, Fold
<1> HIDE DEF d
<1> QED BY <1>1, <1>3, AnswerTypes DEF Fold, backupsMade

SameEmpty(d, e) == e.made = d.made /\ (Blank(d) => Blank(e))
\* A part of a move: the command goes on to c, and the target becomes d.
LEMMA PartTypes ==
  ASSUME TypeInv, NEW s \in Slots, cmd[s].pc \in {"copy", "pages"},
         NEW c, CommandOK(c), c.pc \in {"copy", "pages", "strip"}, c.root = cmd[s].root,
         cmd' = [cmd EXCEPT ![s] = c],
         NEW d \in Dir, d.made \/ SameEmpty(disk[cmd[s].to], d),
         disk' = [disk EXCEPT ![cmd[s].to] = d],
         UNCHANGED <<memory, now, fresh, history, starts, faults>>
  PROVE  TypeInv'
<1>1. cmd[s].pc \in Busy /\ cmd[s].pc \in Moving
  BY PCFacts DEF Moving
<1>2. cmd[s].to \in Roots
  BY <1>1, AtFacts DEF CommandOK
<1>3. CommandsOK' /\ cmd'[s] = c /\ \A u \in Slots \ {s} : cmd'[u] = cmd[u]
  BY CommandStep DEF TypeInv
<1>4. DiskOK' /\ disk'[cmd[s].to] = d /\ \A q \in Roots \ {cmd[s].to} : disk'[q] = disk[q]
  BY <1>2, DiskStep DEF TypeInv
<1>5. HistoryOK' /\ MemoryOK' /\ ClockOK' /\ \A q \in Roots : SameBackups(q)
  BY DEF TypeInv, HistoryOK, MemoryOK, ClockOK, history, memory, SameBackups
<1> QED BY <1>1, <1>2, <1>3, <1>4, <1>5, WorkTypes DEF SameEmpty, memory

\* A command that copies: what it knows, and the folders between which it copies.
LEMMA CopierFacts ==
  ASSUME TypeInv, NEW s \in Slots, cmd[s].pc \in {"copy", "pages"}
  PROVE  /\ cmd[s] \in Command /\ cmd[s].root \in Roots /\ cmd[s].to \in Roots
         /\ cmd[s].owed \in Owed /\ cmd[s].root # cmd[s].to
         /\ disk[cmd[s].root] \in Dir /\ disk[cmd[s].to] \in Dir
         /\ cmd[s].todo \subseteq Parts
         /\ cmd[s].pc = "pages" => cmd[s].half \in Index /\ "db" \in cmd[s].todo
<1>1. cmd[s].pc \in Busy /\ cmd[s].pc \in Moving
  BY PCFacts DEF Moving
<1> QED BY <1>1, AtFacts DEF CommandOK, Command, TypeInv, DiskOK

LEMMA CopyTypes ==
  ASSUME TypeInv, NEW s \in Slots, Copy(s)
  PROVE  TypeInv'
<1> PICK f \in cmd[s].todo \ {"db"} :
      /\ disk' = [disk EXCEPT ![cmd[s].to] =
                     [Copied(f, @, disk[cmd[s].root]) EXCEPT !.made = TRUE]]
      /\ cmd' = [cmd EXCEPT ![s].todo = @ \ {f}, ![s].pc = After(s, f)]
  BY DEF Copy
<1> DEFINE t == cmd[s].to
           d == [Copied(f, disk[t], disk[cmd[s].root]) EXCEPT !.made = TRUE]
           next == After(s, f)
           c == [[cmd[s] EXCEPT !.todo = @ \ {f}] EXCEPT !.pc = next]
<1>1. cmd[s].pc = "copy"
  BY DEF Copy, At
<1>2. /\ cmd[s] \in Command /\ cmd[s].root \in Roots /\ t \in Roots /\ cmd[s].owed \in Owed
      /\ cmd[s].root # t /\ disk[cmd[s].root] \in Dir /\ disk[t] \in Dir /\ f \in Parts
  BY <1>1, CopierFacts
<1>3. d \in Dir /\ d.made /\ disk' = [disk EXCEPT ![t] = d]
  BY <1>2, CopiedDir, MadeDir
<1>4. /\ CommandOK(c) /\ c.pc \in {"copy", "pages", "strip"} /\ c.root = cmd[s].root
      /\ cmd' = [cmd EXCEPT ![s] = c]
  <2>1. next \in {"strip", "copy"} /\ (next = "strip" => cmd[s].todo \ {f} = {})
    BY DEF After
  <2> HIDE DEF next
  <2>2. c \in Command /\ c.pc = next /\ c.todo = cmd[s].todo \ {f} /\ c.to = t
        /\ c.root = cmd[s].root /\ c.owed = cmd[s].owed
    BY <1>2, <2>1, PCFacts, ZenonT(40) DEF Command
  <2>3. cmd' = [cmd EXCEPT ![s] = c]
    BY DEF TypeInv, CommandsOK, next
  <2> HIDE DEF c
  <2> QED BY <1>2, <2>1, <2>2, <2>3 DEF CommandOK, Creating, Ensuring, Making
<1> HIDE DEF c, d
<1> QED BY <1>1, <1>3, <1>4, PartTypes DEF Copy

LEMMA CopyIndexTypes ==
  ASSUME TypeInv, NEW s \in Slots, CopyIndex(s)
  PROVE  TypeInv'
<1> DEFINE t == cmd[s].to
           half == Pages(disk[cmd[s].root])
           d == [CutOff("db", disk[t]) EXCEPT !.made = TRUE]
           c == [[cmd[s] EXCEPT !.pc = "pages"] EXCEPT !.half = half]
<1>1. cmd[s].pc = "copy" /\ "db" \in cmd[s].todo
  BY DEF CopyIndex, At
<1>2. /\ cmd[s] \in Command /\ cmd[s].root \in Roots /\ t \in Roots /\ cmd[s].owed \in Owed
      /\ cmd[s].root # t /\ disk[cmd[s].root] \in Dir /\ disk[t] \in Dir /\ "db" \in Parts
  BY <1>1, CopierFacts
<1>3. d \in Dir /\ d.made /\ disk' = [disk EXCEPT ![t] = d]
  BY <1>2, CopiedDir, MadeDir DEF CopyIndex
<1>4. /\ CommandOK(c) /\ c.pc = "pages" /\ c.root = cmd[s].root
      /\ cmd' = [cmd EXCEPT ![s] = c]
  <2>1. half \in Index
    BY <1>2 DEF Pages, Index, Dir
  <2>2. cmd' = [cmd EXCEPT ![s] = c]
    BY DEF CopyIndex, TypeInv, CommandsOK
  <2> HIDE DEF half
  <2>3. c \in Command /\ c.pc = "pages" /\ c.todo = cmd[s].todo /\ c.to = t
        /\ c.root = cmd[s].root /\ c.owed = cmd[s].owed /\ c.half = half
    BY <1>2, <2>1, PCFacts, ZenonT(40) DEF Command
  <2> HIDE DEF c
  <2> QED BY <1>1, <1>2, <2>1, <2>2, <2>3 DEF CommandOK, Creating, Ensuring, Making
<1> HIDE DEF c, d
<1> QED BY <1>1, <1>3, <1>4, PartTypes DEF CopyIndex

LEMMA IndexCopiedTypes ==
  ASSUME TypeInv, NEW s \in Slots, IndexCopied(s)
  PROVE  TypeInv'
<1> PICK p \in {cmd[s].half, Pages(disk[cmd[s].root]), Pages(Empty)} :
      disk' = [disk EXCEPT ![cmd[s].to].db = p.db, ![cmd[s].to].tables = p.tables]
  BY DEF IndexCopied
<1> DEFINE t == cmd[s].to
           d == [[disk[t] EXCEPT !.db = p.db] EXCEPT !.tables = p.tables]
           next == After(s, "db")
           steady == Steady(s)
           owed == [cmd[s].owed EXCEPT !.steady = steady]
           c == [[[[cmd[s] EXCEPT !.todo = @ \ {"db"}] EXCEPT !.pc = next] EXCEPT !.half = Nil]
                   EXCEPT !.owed = owed]
<1>1. cmd[s].pc = "pages"
  BY DEF IndexCopied, At
<1>2. /\ cmd[s] \in Command /\ cmd[s].root \in Roots /\ t \in Roots /\ cmd[s].owed \in Owed
      /\ cmd[s].root # t /\ disk[cmd[s].root] \in Dir /\ disk[t] \in Dir
      /\ cmd[s].half \in Index
  BY <1>1, CopierFacts
<1>3. d \in Dir /\ SameEmpty(disk[t], d) /\ disk' = [disk EXCEPT ![t] = d]
  <2>1. p.db \in SUBSET Ids /\ p.tables \in BOOLEAN
    <3>1. \A d0 \in Dir : Pages(d0) \in Index
      BY DEF Pages, Index, Dir
    <3>2. Pages(Empty) \in Index
      BY DEF Pages, Index, Empty
    <3>3. p \in Index
      BY <1>2, <3>1, <3>2
    <3> QED BY <3>3 DEF Index
  <2> QED BY <1>2, <2>1 DEF Dir, TypeInv, DiskOK, SameEmpty, Blank
<1>4. /\ CommandOK(c) /\ c.pc \in {"copy", "pages", "strip"} /\ c.root = cmd[s].root
      /\ cmd' = [cmd EXCEPT ![s] = c]
  <2>1. next \in {"strip", "copy"} /\ (next = "strip" => cmd[s].todo \ {"db"} = {})
    BY DEF After
  <2>2. owed \in Owed
    BY <1>2 DEF Owed, Steady
  <2>3. cmd' = [cmd EXCEPT ![s] = c]
    BY <1>2 DEF IndexCopied, TypeInv, CommandsOK, Command
  <2> HIDE DEF next, owed
  <2>4. c \in Command /\ c.pc = next /\ c.todo = cmd[s].todo \ {"db"} /\ c.to = t
        /\ c.root = cmd[s].root /\ c.owed = owed
    BY <1>2, <2>1, <2>2, PCFacts, ZenonT(40) DEF Command
  <2> HIDE DEF c
  <2> QED BY <1>2, <2>1, <2>2, <2>3, <2>4 DEF CommandOK, Creating, Ensuring, Making
<1> HIDE DEF c, d
<1> QED BY <1>1, <1>3, <1>4, PartTypes DEF IndexCopied

LEMMA StripTypes ==
  ASSUME TypeInv, NEW s \in Slots, Strip(s)
  PROVE  TypeInv'
<1> DEFINE t == cmd[s].to
           d == [disk[t] EXCEPT !.wal = {}]
<1>1. cmd[s].pc = "strip" /\ cmd[s].pc \in Busy /\ Next2(cmd[s].pc, "clear") /\ cmd[s].pc \in Moving
  BY PCFacts DEF Strip, At, Next2, Moving
<1>2. t \in Roots /\ disk[t] \in Dir
  BY <1>1, AtFacts DEF CommandOK, TypeInv, DiskOK
<1>3. /\ d \in Dir /\ d.made = disk[t].made /\ (Blank(disk[t]) => Blank(d))
      /\ disk' = [disk EXCEPT ![t] = d]
  BY <1>2 DEF Dir, Blank, Strip
<1> HIDE DEF d
<1>4. DiskOK' /\ disk'[t] = d /\ \A q \in Roots \ {t} : disk'[q] = disk[q]
  BY <1>2, <1>3, DiskStep DEF TypeInv
<1>5. /\ CommandsOK' /\ cmd'[s].pc = "clear" /\ cmd'[s].root = cmd[s].root
      /\ \A u \in Slots \ {s} : cmd'[u] = cmd[u]
  BY <1>1, GotoStep DEF TypeInv, Strip
<1>6. HistoryOK' /\ (\A q \in Roots : SameBackups(q)) /\ MemoryOK' /\ ClockOK'
  BY DEF TypeInv, HistoryOK, MemoryOK, ClockOK, Strip, history, memory, SameBackups
<1> QED BY <1>1, <1>3, <1>4, <1>5, <1>6, WorkTypes DEF Strip, memory

\* A step of a command that changes nothing on disk.
LEMMA MemoryTypes ==
  ASSUME TypeInv, NEW s \in Slots, CommandsOK',
         cmd[s].pc \in Busy, cmd'[s].pc = "idle" \/ cmd'[s].root = cmd[s].root, cmd'[s].pc # "row",
         \A u \in Slots \ {s} : cmd'[u] = cmd[u],
         MemoryOK', HistoryOK', vault' \in {Nil, vault} \/ disk[vault'.root].made,
         \A r \in Roots : SameBackups(r) \/ disk[r].made,
         UNCHANGED <<disk, now, fresh, starts, faults>>
  PROVE  TypeInv'
<1>1. DiskOK' /\ ClockOK'
  BY DEF TypeInv, DiskOK, ClockOK
<1> QED BY <1>1, WorkTypes

LEMMA OpenTypes ==
  ASSUME TypeInv, NEW s \in Slots, Open(s)
  PROVE  TypeInv'
<1>1. cmd[s].pc = "open" /\ cmd[s].pc \in Busy /\ cmd[s].pc \in Creating
  BY PCFacts DEF Open, At, Creating
<1>2. cmd[s].root \in Roots /\ disk[cmd[s].root].made /\ cmd[s].key \in Ids
  BY <1>1, AtFacts DEF CommandOK
<1>3. MemoryOK' /\ disk[vault'.root].made
  BY <1>2 DEF TypeInv, MemoryOK, Open
<1>4. HistoryOK' /\ \A q \in Roots : SameBackups(q)
  BY DEF TypeInv, HistoryOK, Open, history, SameBackups
<1> QED BY <1>1, <1>3, <1>4, ReturnStep, MemoryTypes DEF TypeInv, Open

LEMMA KeepIdentityTypes ==
  ASSUME TypeInv, NEW s \in Slots, KeepIdentity(s)
  PROVE  TypeInv'
<1>1. cmd[s].pc = "keep" /\ cmd[s].pc \in Busy /\ cmd[s].pc \in Ensuring
  BY PCFacts DEF KeepIdentity, At, Ensuring, Making
<1>2. cmd[s].root \in Roots /\ cmd[s].id \in Ids
  BY <1>1, AtFacts DEF CommandOK
<1>3. MemoryOK' /\ vault' = vault
  BY <1>2 DEF TypeInv, MemoryOK, KeepIdentity
<1>4. HistoryOK' /\ \A q \in Roots : SameBackups(q)
  BY DEF TypeInv, HistoryOK, KeepIdentity, history, SameBackups
<1> QED BY <1>1, <1>3, <1>4, ReturnStep, MemoryTypes DEF TypeInv, KeepIdentity

LEMMA ClearMemoryTypes ==
  ASSUME TypeInv, NEW s \in Slots, ClearMemory(s)
  PROVE  TypeInv'
<1>1. cmd[s].pc = "clear" /\ cmd[s].pc \in Busy /\ cmd[s].pc \in Moving
  BY PCFacts DEF ClearMemory, At, Moving
<1>2. cmd[s].to \in Roots /\ cmd[s].owed \in Owed
  BY <1>1, AtFacts DEF CommandOK
<1>3. MemoryOK' /\ vault' = Nil
  BY DEF MemoryOK, ClearMemory
<1>4. HistoryOK' /\ \A q \in Roots : SameBackups(q)
  <2>1. moved' \subseteq [to : Roots, owed : Owed]
    BY <1>2 DEF TypeInv, HistoryOK, ClearMemory
  <2>2. partial' \subseteq Roots
    BY <1>2 DEF TypeInv, HistoryOK, ClearMemory
  <2> QED BY <2>1, <2>2 DEF TypeInv, HistoryOK, ClearMemory, backupsMade, SameBackups
<1> QED BY <1>1, <1>3, <1>4, ReturnStep, MemoryTypes DEF TypeInv, ClearMemory

LEMMA ListTypes ==
  ASSUME TypeInv, NEW s \in Slots, List(s)
  PROVE  TypeInv'
<1> DEFINE c == [[cmd[s] EXCEPT !.pc = "rotate"] EXCEPT !.old = disk[cmd[s].root].backups]
<1>1. cmd[s].pc = "list" /\ cmd[s].pc \in Busy
  BY PCFacts DEF List, At
<1>2. /\ cmd[s] \in Command /\ cmd[s].root \in Roots /\ cmd[s].todo = {}
      /\ disk[cmd[s].root].backups \subseteq Times
  BY <1>1, AtFacts DEF Dir, Times, CommandOK
<1>3. CommandOK(c) /\ c.pc = "rotate" /\ c.root = cmd[s].root /\ cmd' = [cmd EXCEPT ![s] = c]
  BY <1>2, PCFacts, ZenonT(40) DEF CommandOK, Command, Creating, Ensuring, Making, Moving, List
<1> HIDE DEF c
<1>4. CommandsOK' /\ cmd'[s] = c /\ \A u \in Slots \ {s} : cmd'[u] = cmd[u]
  BY <1>3, CommandStep DEF TypeInv
<1>5. MemoryOK' /\ HistoryOK' /\ \A q \in Roots : SameBackups(q)
  BY DEF TypeInv, MemoryOK, HistoryOK, List, memory, history, SameBackups
<1> QED BY <1>1, <1>3, <1>4, <1>5, MemoryTypes DEF List, memory, history

LEMMA FillTypes ==
  ASSUME TypeInv, NEW s \in Slots, Fill(s)
  PROVE  TypeInv'
<1>1. cmd[s].pc = "fill" /\ cmd[s].pc \in Busy /\ Next2(cmd[s].pc, "list")
  BY PCFacts DEF Fill, At, Next2
<1>2. cmd[s].root \in Roots /\ disk[cmd[s].root].made /\ cmd[s].ts \in Times
  BY <1>1, AtFacts DEF CommandOK
<1>3. /\ CommandsOK' /\ cmd'[s].pc = "list" /\ cmd'[s].root = cmd[s].root
      /\ \A u \in Slots \ {s} : cmd'[u] = cmd[u]
  BY <1>1, GotoStep DEF TypeInv, Fill
<1>4. MemoryOK' /\ HistoryOK' /\ \A q \in Roots \ {cmd[s].root} : SameBackups(q)
  BY <1>2 DEF TypeInv, MemoryOK, HistoryOK, Fill, memory, SameBackups
<1> QED BY <1>1, <1>2, <1>3, <1>4, MemoryTypes DEF Fill, memory

\* Locking the vault, and no step at all.
LEMMA QuietTypes == TypeInv /\ (Lock \/ UNCHANGED vars) => TypeInv'
<1> SUFFICES ASSUME TypeInv, Lock \/ UNCHANGED vars PROVE TypeInv'
  OBVIOUS
<1>1. /\ UNCHANGED <<disk, identity, cmd, now, fresh, history, faults>> /\ vault' \in {vault, Nil}
      /\ starts' = starts \/ (starts' = starts + 1 /\ starts < MaxStarts)
  BY DEF Lock, vars, memory, history
<1>2. DiskOK' /\ MemoryOK' /\ HistoryOK' /\ CommandsOK'
  BY <1>1 DEF TypeInv, DiskOK, MemoryOK, HistoryOK, CommandsOK, history
<1>3. ClockOK'
  BY <1>1 DEF TypeInv, ClockOK
<1>4. DrawsOK'
  <2>1. Drawing' = Drawing
    BY <1>1 DEF Drawing
  <2> QED BY <1>1, <2>1, DrawStep DEF TypeInv
<1>5. MadeOK'
  BY <1>1 DEF TypeInv, MadeOK, history
<1> QED BY <1>2, <1>3, <1>4, <1>5 DEF TypeInv

LEMMA AbandonTypes ==
  ASSUME TypeInv, NEW S \in SUBSET Slots, Abandon(S),
         vault' \in {vault, Nil}, identity' \in {identity, Nil},
         UNCHANGED <<now, fresh, acked, begun, taken, moved, raced, starts>>
  PROVE  TypeInv'
<1>1. /\ CommandsOK' /\ \A s \in S : cmd'[s].pc = "idle"
      /\ \A s \in Slots \ S : cmd'[s] = cmd[s]
  BY AbandonCommands DEF TypeInv
<1>2. /\ DiskOK' /\ \A r \in Roots : disk'[r] = disk[r] \/ disk'[r].made
      /\ \A r \in Roots : disk[r].made => disk'[r].made
  <2>1. CASE UNCHANGED disk
    BY <2>1 DEF TypeInv, DiskOK
  <2>2. CASE \E s \in {p \in S : At(p, "copy")} : \E f \in cmd[s].todo :
               disk' = [disk EXCEPT ![cmd[s].to] = [CutOff(f, @) EXCEPT !.made = TRUE]]
    <3> PICK s \in S : \E f \in cmd[s].todo :
               disk' = [disk EXCEPT ![cmd[s].to] = [CutOff(f, @) EXCEPT !.made = TRUE]]
      BY <2>2
    <3> PICK f \in cmd[s].todo :
               disk' = [disk EXCEPT ![cmd[s].to] = [CutOff(f, @) EXCEPT !.made = TRUE]]
      OBVIOUS
    <3> DEFINE t == cmd[s].to
               d == [CutOff(f, disk[t]) EXCEPT !.made = TRUE]
    <3>1. f \in Parts
      BY DEF TypeInv, CommandsOK, CommandOK, Command
    <3>2. CASE t \in Roots
      <4>1. d \in Dir /\ d.made /\ disk' = [disk EXCEPT ![t] = d]
        BY <3>1, <3>2, CopiedDir, MadeDir DEF TypeInv, DiskOK
      <4> HIDE DEF d
      <4>2. DiskOK' /\ disk'[t] = d /\ \A q \in Roots \ {t} : disk'[q] = disk[q]
        <5> DiskOK
          BY DEF TypeInv
        <5> HIDE DEF t
        <5> QED BY <3>2, <4>1, DiskStep
      <4> QED BY <4>1, <4>2
    <3>3. CASE t \notin Roots
      BY <3>3 DEF TypeInv, DiskOK
    <3> QED BY <3>2, <3>3
  <2> QED BY <2>1, <2>2 DEF Abandon
<1>3. HistoryOK'
  <2>1. Targets(S) \subseteq Roots
    BY DEF Targets, TypeInv, CommandsOK, CommandOK
  <2> QED BY <2>1 DEF TypeInv, HistoryOK, Abandon
<1>4. MemoryOK' /\ ClockOK'
  BY ConstantFacts DEF TypeInv, MemoryOK, ClockOK, Abandon
<1>5. DrawsOK'
  <2>1. Drawing' \subseteq Drawing
    BY <1>1 DEF Drawing
  <2> QED BY <2>1, DrawStep DEF TypeInv
<1>6. MadeOK'
  <2>1. \A u \in Slots : cmd'[u].pc = "idle" \/ (cmd[u].pc \in Busy /\ cmd'[u].root = cmd[u].root)
    BY <1>1 DEF TypeInv, CommandsOK, CommandOK, Command, Busy
  <2> QED BY <1>1, <1>2, <2>1, MadeStep DEF SameBackups
<1> QED BY <1>1, <1>2, <1>3, <1>4, <1>5, <1>6 DEF TypeInv

LEMMA FaultTypes ==
  /\ \A s \in Slots : TypeInv /\ Fails(s) => TypeInv'
  /\ TypeInv /\ Crash => TypeInv'
<1>1. ASSUME NEW s \in Slots, TypeInv, Fails(s) PROVE TypeInv'
  BY <1>1, AbandonTypes DEF Fails, memory, backupsMade
<1>2. ASSUME TypeInv, Crash PROVE TypeInv'
  BY <1>2, AbandonTypes DEF Crash, backupsMade
<1> QED BY <1>1, <1>2

LEMMA NextTypes == TypeInv /\ [Next]_vars => TypeInv'
BY QuietTypes, FaultTypes, CreateTypes, UnlockTypes, MoveTypes, WriteManifestTypes, MakeTablesTypes,
   OpenTypes, EnsureTypes, WriteIdentityTypes, WritePublicTypes, KeepIdentityTypes, FileCommandTypes,
   InsertTypes, CloseTypes, FoldTypes, CopyTypes, CopyIndexTypes, IndexCopiedTypes, StripTypes,
   ClearMemoryTypes, SnapshotTypes, BackupTypes, FillTypes, ListTypes, RotateTypes
   DEF Next

LEMMA TypesHold == Spec => []TypeInv
BY InitTypes, NextTypes, PTL DEF Spec

\* In every run, whatever commands overlap and wherever they fail, the folders, the memory and
\* the copies of commands have the shape vault.rs, identity.rs and sync.rs give them, and no
\* vault is moved onto itself; the user need not wait for any answer.
THEOREM TypeCorrect == Spec => []TypeOK
<1>1. TypeInv => TypeOK
  <2> SUFFICES ASSUME TypeInv PROVE TypeOK
    OBVIOUS
  <2>1. fresh \in Ids \cup {0}
    BY FreshFacts DEF TypeInv
  <2>2. ASSUME NEW s \in Slots
        PROVE  /\ cmd[s].pc \in PCs
               /\ cmd[s].root \in Roots \cup {Nil} /\ cmd[s].to \in Roots \cup {Nil}
               /\ {cmd[s].key, cmd[s].id, cmd[s].row} \subseteq Ids \cup {Nil}
               /\ cmd[s].pc \in Moving => cmd[s].root # cmd[s].to
    BY DEF TypeInv, CommandsOK, CommandOK, Command, Moving
  <2>3. now \in 1 .. MaxTime /\ partial \cup raced \subseteq Roots /\ faults \in 0 .. MaxFaults
    BY DEF TypeInv, HistoryOK, ClockOK, Times
  <2> QED BY <2>1, <2>2, <2>3 DEF TypeInv, TypeOK, DiskOK, MemoryOK, DrawsOK, PCs
<1> QED BY <1>1, TypesHold, PTL

-----------------------------------------------------------------------------
(* The master key.  A command that has read a manifest, or written it, holds *)
(* the key it yields; nobody works at the target of a move.                 *)

Writing == {"manifest", "manifest2"}
Holding == {"tables", "open"} \cup Ensuring

HolderOK(s) == cmd[s].pc \in Holding => disk[cmd[s].root].manifest = cmd[s].key
WriterOK(s) ==
  cmd[s].pc \in Writing =>
    /\ disk[cmd[s].root].manifest \notin Ids
    /\ \A u \in Slots \ {s} : cmd[u].pc \in Writing => cmd[u].root # cmd[s].root
TargetOK(s) ==
  cmd[s].pc \in Moving =>
    /\ vault # Nil => vault.root # cmd[s].to
    /\ \A u \in Slots : cmd[u].pc \in Busy => cmd[u].root # cmd[s].to
    /\ \A u \in Slots \ {s} : cmd[u].pc \in Moving => cmd[u].to # cmd[s].to
    /\ "manifest" \in cmd[s].todo => disk[cmd[s].to].manifest = Nil

\* The inductive invariant for the key, on top of TypeInv.
KeyInv == KeyMatches /\ \A s \in Slots : HolderOK(s) /\ WriterOK(s) /\ TargetOK(s)

SameManifests == \A r \in Roots : disk'[r].manifest = disk[r].manifest

\* From one step of a command to another that claims no more of keys and folders.
NoMore(a, b) ==
  /\ b \in Writing => a \in Writing
  /\ b \in Holding => a \in Holding
  /\ b \in Moving => a \in Moving
  /\ b \in Busy => a \in Busy
Kept(u) ==
  \/ cmd'[u].pc = "idle"
  \/ /\ NoMore(cmd[u].pc, cmd'[u].pc)
     /\ cmd'[u].root = cmd[u].root /\ cmd'[u].key = cmd[u].key /\ cmd'[u].to = cmd[u].to
     /\ cmd'[u].todo \subseteq cmd[u].todo

LEMMA SameKept ==
  ASSUME NEW u \in Slots, cmd'[u] = cmd[u]
  PROVE  Kept(u)
BY DEF Kept, NoMore

LEMMA PhaseFacts ==
  /\ Writing \subseteq Creating /\ Creating = Writing \cup {"tables", "open"}
  /\ Writing \cap Holding = {} /\ Moving \cap Holding = {} /\ Moving \cap Writing = {}
  /\ Holding \subseteq Busy /\ Writing \subseteq Busy /\ Moving \subseteq Busy /\ "idle" \notin Busy
BY DEF Writing, Holding, Creating, Ensuring, Making, Moving, Busy, PCs

LEMMA KeyFrame ==
  ASSUME TypeInv, KeyInv, SameManifests, vault' \in {vault, Nil}, \A u \in Slots : Kept(u)
  PROVE  KeyInv'
<1>1. KeyMatches'
  BY VaultFacts DEF KeyInv, KeyMatches, SameManifests
<1>2. \A u \in Slots : cmd'[u].pc \in Busy =>
        /\ NoMore(cmd[u].pc, cmd'[u].pc) /\ cmd[u].pc \in Busy
        /\ cmd'[u].root = cmd[u].root /\ cmd'[u].key = cmd[u].key /\ cmd'[u].to = cmd[u].to
        /\ cmd'[u].todo \subseteq cmd[u].todo
        /\ cmd[u].root \in Roots
  BY AtFacts, PhaseFacts DEF Kept, NoMore
<1>3. ASSUME NEW s \in Slots PROVE HolderOK(s)'
  <2>1. cmd'[s].pc \in Holding => cmd[s].pc \in Holding
    BY <1>2, PhaseFacts DEF NoMore
  <2> QED BY <1>2, <2>1, PhaseFacts DEF KeyInv, HolderOK, SameManifests
<1>4. ASSUME NEW s \in Slots PROVE WriterOK(s)'
  <2>1. \A u \in Slots : cmd'[u].pc \in Writing => cmd[u].pc \in Writing /\ cmd'[u].pc \in Busy
    BY <1>2, PhaseFacts DEF NoMore
  <2> QED BY <1>2, <2>1 DEF KeyInv, WriterOK, SameManifests
<1>5. ASSUME NEW s \in Slots PROVE TargetOK(s)'
  <2>1. \A u \in Slots : cmd'[u].pc \in Moving => cmd[u].pc \in Moving /\ cmd'[u].pc \in Busy
    BY <1>2, PhaseFacts DEF NoMore
  <2>2. cmd[s].pc \in Moving => cmd[s].to \in Roots
    BY DEF TypeInv, CommandsOK, CommandOK
  <2> QED BY <1>2, <2>1, <2>2 DEF KeyInv, TargetOK, SameManifests
<1> QED BY <1>1, <1>3, <1>4, <1>5 DEF KeyInv

\* A call of the vault in memory, which holds its key or none.
LEMMA KeyCall ==
  ASSUME TypeInv, KeyInv, NEW s \in Slots, NEW kind, NEW c, CommandOK(c), Call(s, kind, c),
         vault # Nil, c.root = vault.root, c.pc \notin Writing \cup Moving,
         c.pc \in Holding => c.key = vault.key,
         UNCHANGED <<disk, vault>>
  PROVE  KeyInv'
<1>1. /\ cmd[s].pc = "idle" /\ cmd'[s] = c /\ \A u \in Slots \ {s} : cmd'[u] = cmd[u]
  BY CallStep DEF TypeInv
<1>2. KeyMatches'
  BY DEF KeyInv, KeyMatches
<1>3. ASSUME NEW u \in Slots PROVE HolderOK(u)' /\ WriterOK(u)' /\ TargetOK(u)'
  BY <1>1 DEF KeyInv, KeyMatches, HolderOK, WriterOK, TargetOK
<1> QED BY <1>2, <1>3 DEF KeyInv

LEMMA InitKeys == Init => KeyInv
BY IdleOK, PhaseFacts DEF Init, KeyInv, KeyMatches, HolderOK, WriterOK, TargetOK

LEMMA CreateKeys ==
  ASSUME Patient, TypeInv, KeyInv, NEW s \in Slots, NEW r \in Roots, Create(s, r)
  PROVE  KeyInv'
<1> DEFINE c == [Idle EXCEPT !.pc = "manifest", !.root = r, !.key = fresh + 1]
<1>1. CommandOK(c) /\ c.pc = "manifest" /\ c.root = r
  <2>1. fresh + 1 \in Ids
    BY FreshFacts DEF TypeInv, Create, Call
  <2> QED BY <2>1, IdleOK, PCFacts, ZenonT(40) DEF CommandOK, Command, Creating, Ensuring, Making, Moving
<1>2. cmd[s].pc = "idle" /\ cmd'[s] = c /\ \A u \in Slots \ {s} : cmd'[u] = cmd[u]
  <2>1. Call(s, "create", c)
    BY DEF Create
  <2> HIDE DEF c
  <2> QED BY <1>1, <2>1, CallStep DEF TypeInv
<1> HIDE DEF c
<1>3. SameManifests
  <2>1. disk' = [disk EXCEPT ![r] = [disk[r] EXCEPT !.made = TRUE]]
    BY DEF Create
  <2> QED BY <2>1 DEF SameManifests, TypeInv, DiskOK, Dir
<1>4. \A u \in Slots : cmd[u].pc \in Creating \cup Moving => r # cmd[u].root /\ r # cmd[u].to
  BY DEF Create, Waits, Running
<1>5. disk[r].manifest \notin Ids
  BY ConstantFacts DEF Create
<1>6. vault' = vault
  BY DEF Create, memory
<1>7. KeyMatches'
  BY <1>3, <1>6, VaultFacts DEF KeyInv, KeyMatches, SameManifests
<1>8. ASSUME NEW u \in Slots PROVE HolderOK(u)'
  BY <1>1, <1>2, <1>3, PhaseFacts, AtFacts DEF KeyInv, HolderOK, SameManifests, Writing
<1>9. ASSUME NEW u \in Slots PROVE WriterOK(u)'
  BY <1>1, <1>2, <1>3, <1>4, <1>5, PhaseFacts, AtFacts DEF KeyInv, WriterOK, SameManifests
<1>10. ASSUME NEW u \in Slots PROVE TargetOK(u)'
  <2>1. cmd[u].pc \in Moving => cmd[u].to \in Roots
    BY DEF TypeInv, CommandsOK, CommandOK
  <2> QED BY <1>1, <1>2, <1>3, <1>4, <1>6, <2>1, PhaseFacts DEF KeyInv, TargetOK, SameManifests, Writing
<1> QED BY <1>7, <1>8, <1>9, <1>10 DEF KeyInv

LEMMA UnlockKeys ==
  ASSUME Patient, TypeInv, KeyInv, NEW s \in Slots, NEW r \in Roots, Unlock(s, r)
  PROVE  KeyInv'
<1> DEFINE c == [Idle EXCEPT !.pc = "open", !.root = r, !.key = disk[r].manifest]
<1>1. CommandOK(c) /\ c.pc = "open" /\ c.root = r /\ c.key = disk[r].manifest
  <2>1. disk[r].manifest \in Ids
    BY DEF Unlock, Whole, TypeInv, DiskOK, Dir, File
  <2> QED BY <2>1, IdleOK, PCFacts, ZenonT(40) DEF CommandOK, Command, Creating, Ensuring, Making, Moving
<1>2. cmd[s].pc = "idle" /\ cmd'[s] = c /\ \A u \in Slots \ {s} : cmd'[u] = cmd[u]
  <2>1. Call(s, "unlock", c)
    BY DEF Unlock
  <2> HIDE DEF c
  <2> QED BY <1>1, <2>1, CallStep DEF TypeInv
<1> HIDE DEF c
<1>3. \A u \in Slots : cmd[u].pc \in Moving => r # cmd[u].to
  BY DEF Unlock, Waits, Running
<1>4. vault' = vault /\ disk' = disk
  BY DEF Unlock, memory
<1>5. KeyMatches'
  BY <1>4 DEF KeyInv, KeyMatches
<1>6. ASSUME NEW u \in Slots PROVE HolderOK(u)' /\ WriterOK(u)' /\ TargetOK(u)'
  BY <1>1, <1>2, <1>3, <1>4 DEF KeyInv, HolderOK, WriterOK, TargetOK, Writing, Moving
<1> QED BY <1>5, <1>6 DEF KeyInv

LEMMA MoveKeys ==
  ASSUME Patient, TypeInv, KeyInv, NEW s \in Slots, NEW t \in Roots, Move(s, t)
  PROVE  KeyInv'
<1> DEFINE r == vault.root
           c == MoveCall(t)
<1>1. CommandOK(c) /\ c.pc = "copy" /\ c.root = r /\ c.to = t /\ r # t
  BY MoveFacts
<1>2. cmd[s].pc = "idle" /\ cmd'[s] = c /\ \A u \in Slots \ {s} : cmd'[u] = cmd[u]
  BY MoveFacts
<1>3. \A u \in Slots : cmd[u].pc \in Moving => t # cmd[u].to
  BY DEF Move, Waits, Running
<1>4. \A u \in Slots : cmd[u].pc \in Busy => t # cmd[u].root
  BY AtFacts DEF Move
<1>5. disk[t].manifest = Nil /\ vault # Nil /\ vault' = vault /\ disk' = disk
  BY DEF Move, TypeInv, MadeOK, Blank, memory
<1>6. KeyMatches'
  BY <1>5 DEF KeyInv, KeyMatches
<1>7. ASSUME NEW u \in Slots PROVE HolderOK(u)' /\ WriterOK(u)'
  BY <1>1, <1>2, <1>5, PhaseFacts DEF KeyInv, HolderOK, WriterOK, Moving
<1>8. ASSUME NEW u \in Slots PROVE TargetOK(u)'
  BY <1>1, <1>2, <1>3, <1>4, <1>5 DEF KeyInv, TargetOK
<1> QED BY <1>6, <1>7, <1>8 DEF KeyInv

LEMMA WriteManifestKeys ==
  ASSUME TypeInv, KeyInv, NEW s \in Slots, WriteManifest(s)
  PROVE  KeyInv'
<1> DEFINE r == cmd[s].root
<1>1. cmd[s].pc \in Writing /\ cmd[s].pc \in Busy
  BY PCFacts DEF WriteManifest, At, Writing
<1>2. r \in Roots /\ disk[r] \in Dir /\ disk[r].manifest \notin Ids
  BY <1>1, AtFacts DEF KeyInv, WriterOK
<1>3. /\ \A u \in Slots \ {s} : cmd[u].pc \in Writing => cmd[u].root # r
      /\ \A u \in Slots : cmd[u].pc \in Holding => cmd[u].root # r
      /\ \A u \in Slots : cmd[u].pc \in Moving => cmd[u].to # r
      /\ vault # Nil => vault.root # r
  <2>1. \A u \in Slots : cmd[u].pc \in Holding => cmd[u].key \in Ids
    BY DEF TypeInv, CommandsOK, CommandOK, Holding, Creating
  <2> QED BY <1>1, <1>2, <2>1, VaultFacts DEF KeyInv, KeyMatches, HolderOK, WriterOK, TargetOK
<1>4. \A q \in Roots \ {r} : disk'[q] = disk[q]
  BY <1>2 DEF WriteManifest, TypeInv, DiskOK
<1>5. /\ cmd'[s].root = r /\ \A u \in Slots \ {s} : cmd'[u] = cmd[u]
      /\ \/ cmd'[s].pc = "manifest2" /\ disk'[r].manifest = Torn
         \/ cmd'[s].pc = "tables" /\ disk'[r].manifest = cmd'[s].key
  BY <1>2 DEF WriteManifest, Goto, At, TypeInv, CommandsOK, CommandOK, Command, DiskOK, Dir
<1>6. vault' = vault
  BY DEF WriteManifest, Written, memory
<1>7. KeyMatches'
  BY <1>3, <1>4, <1>6, VaultFacts DEF KeyInv, KeyMatches
<1>8. ASSUME NEW u \in Slots PROVE HolderOK(u)'
  BY <1>3, <1>4, <1>5, PhaseFacts, AtFacts DEF KeyInv, HolderOK, Writing
<1>9. ASSUME NEW u \in Slots PROVE WriterOK(u)'
  BY <1>1, <1>3, <1>4, <1>5, PhaseFacts, AtFacts, ConstantFacts DEF KeyInv, WriterOK, Holding
<1>10. ASSUME NEW u \in Slots PROVE TargetOK(u)'
  <2>1. cmd[u].pc \in Moving => cmd[u].to \in Roots \ {r}
    BY <1>3 DEF TypeInv, CommandsOK, CommandOK
  <2> QED BY <1>3, <1>4, <1>5, <1>6, <2>1, PhaseFacts DEF KeyInv, TargetOK, Writing, Moving
<1> QED BY <1>7, <1>8, <1>9, <1>10 DEF KeyInv

LEMMA OpenKeys ==
  ASSUME TypeInv, KeyInv, NEW s \in Slots, Open(s)
  PROVE  KeyInv'
<1>1. cmd[s].pc \in Holding /\ cmd[s].pc \in Busy
  BY PCFacts DEF Open, At, Holding
<1>2. vault' = [root |-> cmd[s].root, key |-> cmd[s].key] /\ disk' = disk
  BY DEF Open
<1>3. cmd'[s].pc = "idle" /\ \A u \in Slots \ {s} : cmd'[u] = cmd[u]
  BY ReturnStep DEF TypeInv, Open
<1>4. KeyMatches'
  BY <1>1, <1>2 DEF KeyInv, KeyMatches, HolderOK
<1>5. ASSUME NEW u \in Slots PROVE HolderOK(u)' /\ WriterOK(u)'
  BY <1>2, <1>3, PhaseFacts DEF KeyInv, HolderOK, WriterOK
<1>6. ASSUME NEW u \in Slots PROVE TargetOK(u)'
  BY <1>1, <1>2, <1>3, PhaseFacts DEF KeyInv, TargetOK
<1> QED BY <1>4, <1>5, <1>6 DEF KeyInv

\* The files of the target, part by part, when part f is copied and when its copy breaks off.
TakesPart(f, e, d, src) ==
  /\ e.manifest = IF f = "manifest" /\ src.manifest # Nil THEN src.manifest ELSE d.manifest
  /\ e.enc = IF f = "enc" /\ src.enc # Nil THEN src.enc ELSE d.enc
  /\ e.pub = IF f = "pub" /\ src.pub # Nil THEN src.pub ELSE d.pub
  /\ e.db = d.db /\ e.tables = d.tables
  /\ e.backups = IF f = "backups" THEN d.backups \cup src.backups ELSE d.backups
  /\ e.made = TRUE
LosesPart(f, e, d) ==
  /\ e.manifest = IF f = "manifest" THEN Torn ELSE d.manifest
  /\ e.enc = IF f = "enc" THEN Torn ELSE d.enc
  /\ e.pub = IF f = "pub" THEN Torn ELSE d.pub
  /\ f # "db" => e.db = d.db /\ e.tables = d.tables
  /\ e.backups = d.backups /\ e.made = TRUE

LEMMA PartFacts ==
  ASSUME NEW f \in Parts, NEW d \in Dir, NEW src \in Dir
  PROVE  /\ f # "db" => TakesPart(f, [Copied(f, d, src) EXCEPT !.made = TRUE], d, src)
         /\ LosesPart(f, [CutOff(f, d) EXCEPT !.made = TRUE], d)
<1>1. f # "db" => TakesPart(f, [Copied(f, d, src) EXCEPT !.made = TRUE], d, src)
  BY DEF Parts, Copied, Dir, TakesPart
<1>2. LosesPart(f, [CutOff(f, d) EXCEPT !.made = TRUE], d)
  BY DEF Parts, CutOff, Dir, LosesPart
<1> QED BY <1>1, <1>2

\* What copying one part does.
LEMMA CopyFacts ==
  ASSUME TypeInv, NEW s \in Slots, Copy(s)
  PROVE  /\ cmd[s].pc = "copy" /\ cmd[s].root \in Roots /\ cmd[s].to \in Roots
         /\ cmd[s].root # cmd[s].to
         /\ \A u \in Slots \ {s} : cmd'[u] = cmd[u]
         /\ \A q \in Roots \ {cmd[s].to} : disk'[q] = disk[q]
         /\ \E f \in cmd[s].todo :
              /\ f \in Parts \ {"db"}
              /\ TakesPart(f, disk'[cmd[s].to], disk[cmd[s].to], disk[cmd[s].root])
              /\ cmd'[s].todo = cmd[s].todo \ {f} /\ cmd'[s].pc \in {"copy", "strip"}
              /\ cmd'[s].root = cmd[s].root /\ cmd'[s].to = cmd[s].to
              /\ cmd'[s].key = cmd[s].key /\ cmd'[s].owed = cmd[s].owed
<1>1. cmd[s].pc = "copy" /\ cmd[s].pc \in Busy /\ cmd[s].pc \in Moving
  BY PCFacts DEF Copy, At, Moving
<1>2. /\ cmd[s] \in Command /\ cmd[s].root \in Roots /\ cmd[s].to \in Roots
      /\ cmd[s].root # cmd[s].to
  BY <1>1, AtFacts DEF CommandOK
<1> PICK f \in cmd[s].todo \ {"db"} :
      /\ disk' = [disk EXCEPT ![cmd[s].to] =
                     [Copied(f, @, disk[cmd[s].root]) EXCEPT !.made = TRUE]]
      /\ cmd' = [cmd EXCEPT ![s].todo = @ \ {f}, ![s].pc = After(s, f)]
  BY DEF Copy
<1>3. f \in Parts \ {"db"}
  BY <1>2 DEF Command
<1>4. /\ TakesPart(f, disk'[cmd[s].to], disk[cmd[s].to], disk[cmd[s].root])
      /\ \A q \in Roots \ {cmd[s].to} : disk'[q] = disk[q]
  <2>1. /\ disk[cmd[s].to] \in Dir /\ disk[cmd[s].root] \in Dir
        /\ disk'[cmd[s].to] = [Copied(f, disk[cmd[s].to], disk[cmd[s].root]) EXCEPT !.made = TRUE]
        /\ \A q \in Roots \ {cmd[s].to} : disk'[q] = disk[q]
    BY <1>2 DEF TypeInv, DiskOK
  <2>2. TakesPart(f, [Copied(f, disk[cmd[s].to], disk[cmd[s].root]) EXCEPT !.made = TRUE],
                  disk[cmd[s].to], disk[cmd[s].root])
    BY <1>3, <2>1, PartFacts
  <2> QED BY <2>1, <2>2
<1>5. \A u \in Slots \ {s} : cmd'[u] = cmd[u]
  BY DEF TypeInv, CommandsOK
<1>6. /\ cmd'[s].todo = cmd[s].todo \ {f} /\ cmd'[s].pc \in {"copy", "strip"}
      /\ cmd'[s].root = cmd[s].root /\ cmd'[s].to = cmd[s].to
      /\ cmd'[s].key = cmd[s].key /\ cmd'[s].owed = cmd[s].owed
  BY <1>2 DEF TypeInv, CommandsOK, Command, After
<1> QED BY <1>1, <1>2, <1>3, <1>4, <1>5, <1>6

\* What ending the commands of S does: nothing to the disk, or a part cut off at the target
\* of a move.
LEMMA AbandonFacts ==
  ASSUME TypeInv, NEW S \in SUBSET Slots, Abandon(S)
  PROVE  /\ \A s \in S : cmd'[s].pc = "idle"
         /\ \A s \in Slots \ S : cmd'[s] = cmd[s]
         /\ partial' = partial \cup Targets(S)
         /\ \/ disk' = disk
            \/ \E s \in {p \in S : At(p, "copy")} : \E f \in cmd[s].todo :
                 /\ f \in Parts
                 /\ cmd[s].to \in Roots => LosesPart(f, disk'[cmd[s].to], disk[cmd[s].to])
                 /\ \A q \in Roots \ {cmd[s].to} : disk'[q] = disk[q]
<1>1. /\ \A s \in S : cmd'[s].pc = "idle"
      /\ \A s \in Slots \ S : cmd'[s] = cmd[s]
      /\ partial' = partial \cup Targets(S)
  BY AbandonCommands DEF TypeInv, Abandon
<1>2. CASE \E s \in {p \in S : At(p, "copy")} : \E f \in cmd[s].todo :
             disk' = [disk EXCEPT ![cmd[s].to] = [CutOff(f, @) EXCEPT !.made = TRUE]]
  <2> PICK s \in {p \in S : At(p, "copy")} : \E f \in cmd[s].todo :
             disk' = [disk EXCEPT ![cmd[s].to] = [CutOff(f, @) EXCEPT !.made = TRUE]]
    BY <1>2
  <2> PICK f \in cmd[s].todo :
             disk' = [disk EXCEPT ![cmd[s].to] = [CutOff(f, @) EXCEPT !.made = TRUE]]
    OBVIOUS
  <2>1. f \in Parts
    BY DEF TypeInv, CommandsOK, CommandOK, Command
  <2>2. \A q \in Roots \ {cmd[s].to} : disk'[q] = disk[q]
    BY DEF TypeInv, DiskOK
  <2>3. ASSUME cmd[s].to \in Roots PROVE LosesPart(f, disk'[cmd[s].to], disk[cmd[s].to])
    <3>1. /\ disk[cmd[s].to] \in Dir
          /\ disk'[cmd[s].to] = [CutOff(f, disk[cmd[s].to]) EXCEPT !.made = TRUE]
      BY <2>3 DEF TypeInv, DiskOK
    <3>2. LosesPart(f, [CutOff(f, disk[cmd[s].to]) EXCEPT !.made = TRUE], disk[cmd[s].to])
      BY <2>1, <3>1, PartFacts
    <3> QED BY <3>1, <3>2
  <2> QED BY <1>1, <2>1, <2>2, <2>3
<1> QED BY <1>1, <1>2 DEF Abandon

LEMMA CopyKeys ==
  ASSUME TypeInv, KeyInv, NEW s \in Slots, Copy(s)
  PROVE  KeyInv'
<1> DEFINE t == cmd[s].to
<1>1. /\ cmd[s].pc \in Moving /\ cmd[s].pc \in Busy /\ t \in Roots
      /\ \A u \in Slots \ {s} : cmd'[u] = cmd[u]
      /\ \A q \in Roots \ {t} : disk'[q] = disk[q]
      /\ cmd'[s].pc \in Moving /\ cmd'[s].root = cmd[s].root /\ cmd'[s].to = t
  BY CopyFacts, PCFacts DEF Moving
<1>2. "manifest" \in cmd'[s].todo => "manifest" \in cmd[s].todo /\ disk'[t].manifest = disk[t].manifest
  <2> PICK f \in cmd[s].todo :
           /\ f \in Parts
           /\ TakesPart(f, disk'[t], disk[t], disk[cmd[s].root])
           /\ cmd'[s].todo = cmd[s].todo \ {f}
    BY CopyFacts
  <2> QED BY DEF TakesPart
<1>3. /\ vault # Nil => vault.root # t
      /\ \A u \in Slots : cmd[u].pc \in Busy => cmd[u].root # t
      /\ \A u \in Slots \ {s} : cmd[u].pc \in Moving => cmd[u].to # t
  BY <1>1 DEF KeyInv, TargetOK
<1>4. vault' = vault
  BY DEF Copy, memory
<1>5. KeyMatches'
  BY <1>1, <1>3, <1>4, VaultFacts DEF KeyInv, KeyMatches
<1>6. ASSUME NEW u \in Slots PROVE HolderOK(u)' /\ WriterOK(u)'
  BY <1>1, <1>3, PhaseFacts, AtFacts DEF KeyInv, HolderOK, WriterOK
<1>7. ASSUME NEW u \in Slots PROVE TargetOK(u)'
  <2>1. CASE u = s
    BY <2>1, <1>1, <1>2, <1>3, <1>4 DEF KeyInv, TargetOK
  <2>2. CASE u # s
    <3>1. cmd[u].pc \in Moving => cmd[u].to \in Roots \ {t} /\ cmd'[u] = cmd[u]
      BY <2>2, <1>1, <1>3 DEF TypeInv, CommandsOK, CommandOK
    <3> QED BY <2>2, <1>1, <1>4, <3>1 DEF KeyInv, TargetOK
  <2> QED BY <2>1, <2>2
<1> QED BY <1>5, <1>6, <1>7 DEF KeyInv

LEMMA AbandonKeys ==
  ASSUME TypeInv, KeyInv, NEW S \in SUBSET Slots, Abandon(S), vault' \in {vault, Nil},
         \A s \in S : cmd[s].todo # {} => cmd[s].pc \in Moving
  PROVE  KeyInv'
<1>1. /\ \A s \in S : cmd'[s].pc = "idle" /\ cmd'[s].pc \notin Busy
      /\ \A s \in Slots \ S : cmd'[s] = cmd[s]
  BY AbandonFacts DEF Busy
<1>2. \A u \in Slots : Kept(u)
  BY <1>1, SameKept DEF Kept
<1>3. CASE disk' = disk
  BY <1>2, <1>3, KeyFrame DEF SameManifests
<1>4. CASE \E s \in S : cmd[s].todo # {} /\ \A q \in Roots \ {cmd[s].to} : disk'[q] = disk[q]
  <2> PICK s \in S : cmd[s].todo # {} /\ \A q \in Roots \ {cmd[s].to} : disk'[q] = disk[q]
    BY <1>4
  <2> DEFINE t == cmd[s].to
  <2>1. cmd[s].pc \in Moving
    OBVIOUS
  <2>2. /\ vault # Nil => vault.root \in Roots \ {t}
        /\ \A u \in Slots : cmd[u].pc \in Busy => cmd[u].root \in Roots \ {t}
        /\ \A u \in Slots \ {s} : cmd[u].pc \in Moving => cmd[u].to \in Roots \ {t}
    BY <2>1, VaultFacts DEF KeyInv, TargetOK, TypeInv, CommandsOK, CommandOK
  <2>3. KeyMatches'
    BY <2>2 DEF KeyInv, KeyMatches
  <2>4. \A u \in Slots : cmd'[u].pc \in Busy => cmd'[u] = cmd[u] /\ u # s
    BY <1>1
  <2>5. ASSUME NEW u \in Slots PROVE HolderOK(u)' /\ WriterOK(u)'
    BY <2>2, <2>4, PhaseFacts DEF KeyInv, HolderOK, WriterOK
  <2>6. ASSUME NEW u \in Slots PROVE TargetOK(u)'
    BY <2>2, <2>4, PhaseFacts DEF KeyInv, TargetOK
  <2> QED BY <2>3, <2>5, <2>6 DEF KeyInv
<1> QED BY <1>3, <1>4, AbandonFacts

\* The steps of commands that touch neither manifest nor identity.
Works(s) ==
  \/ MakeTables(s) \/ KeepIdentity(s) \/ Insert(s) \/ Close(s) \/ Fold(s)
  \/ CopyIndex(s) \/ IndexCopied(s) \/ Strip(s) \/ ClearMemory(s)
  \/ Backup(s) \/ Fill(s) \/ List(s) \/ Rotate(s)
SameFiles ==
  \A r \in Roots : /\ disk'[r].manifest = disk[r].manifest
                   /\ disk'[r].enc = disk[r].enc /\ disk'[r].pub = disk[r].pub
SameCopies(u) ==
  /\ cmd'[u].root = cmd[u].root /\ cmd'[u].key = cmd[u].key /\ cmd'[u].id = cmd[u].id
  /\ cmd'[u].to = cmd[u].to /\ cmd'[u].todo \subseteq cmd[u].todo
SameLoad(u) == cmd'[u].todo = cmd[u].todo /\ cmd'[u].owed = cmd[u].owed

LEMMA GotoCopies ==
  ASSUME TypeInv, NEW s \in Slots, NEW pc, Goto(s, pc)
  PROVE  /\ SameCopies(s) /\ SameLoad(s)
         /\ cmd'[s].pc = pc /\ cmd'[s].ts = cmd[s].ts /\ cmd'[s].old = cmd[s].old
         /\ \A u \in Slots \ {s} : cmd'[u] = cmd[u]
<1>1. cmd[s] \in Command /\ DOMAIN cmd = Slots
  BY DEF TypeInv, CommandsOK, CommandOK
<1>2. cmd' = [cmd EXCEPT ![s] = [cmd[s] EXCEPT !.pc = pc]]
  BY DEF Goto
<1> QED BY <1>1, <1>2 DEF SameCopies, SameLoad, Command

\* Copying index.db, its beginning and its end.
LEMMA IndexFacts ==
  ASSUME TypeInv, NEW s \in Slots, CopyIndex(s) \/ IndexCopied(s)
  PROVE  /\ cmd[s].pc \in {"copy", "pages"} /\ "db" \in cmd[s].todo
         /\ cmd[s].root \in Roots /\ cmd[s].to \in Roots /\ cmd[s].root # cmd[s].to
         /\ cmd[s].owed \in Owed
         /\ SameCopies(s) /\ \A u \in Slots \ {s} : cmd'[u] = cmd[u]
         /\ \A q \in Roots \ {cmd[s].to} : disk'[q] = disk[q]
         /\ LET d == disk[cmd[s].to]
                e == disk'[cmd[s].to]
            IN /\ e.manifest = d.manifest /\ e.enc = d.enc /\ e.pub = d.pub
               /\ e.backups = d.backups /\ (d.made => e.made)
         /\ CopyIndex(s) =>
              /\ cmd[s].pc = "copy" /\ cmd'[s].pc = "pages" /\ SameLoad(s)
              /\ cmd'[s].half = Pages(disk[cmd[s].root])
         /\ IndexCopied(s) =>
              /\ cmd[s].pc = "pages" /\ cmd'[s].pc \in {"copy", "strip"}
              /\ cmd'[s].todo = cmd[s].todo \ {"db"}
              /\ cmd'[s].owed = [cmd[s].owed EXCEPT !.steady = Steady(s)]
              /\ Steady(s) => /\ disk'[cmd[s].to].db = cmd[s].half.db
                              /\ disk'[cmd[s].to].tables = cmd[s].half.tables
<1>1. /\ cmd[s].pc \in {"copy", "pages"} /\ "db" \in cmd[s].todo
      /\ cmd[s] \in Command /\ cmd[s].root \in Roots /\ cmd[s].to \in Roots
      /\ cmd[s].owed \in Owed /\ cmd[s].root # cmd[s].to
      /\ disk[cmd[s].to] \in Dir
  BY CopierFacts, AtFacts, PCFacts DEF CopyIndex, IndexCopied, At, CommandOK
<1>2. DOMAIN cmd = Slots /\ disk \in [Roots -> Dir]
  BY DEF TypeInv, CommandsOK, DiskOK
<1>3. CASE CopyIndex(s)
  <2> DEFINE h == Pages(disk[cmd[s].root])
  <2>1. cmd' = [cmd EXCEPT ![s] = [[cmd[s] EXCEPT !.pc = "pages"] EXCEPT !.half = h]]
    BY <1>1, <1>3 DEF CopyIndex
  <2>2. cmd[s].pc = "copy"
    BY <1>3 DEF CopyIndex, At
  <2> HIDE DEF h
  <2>3. /\ cmd'[s].pc = "pages" /\ cmd'[s].half = h /\ SameCopies(s) /\ SameLoad(s)
        /\ \A u \in Slots \ {s} : cmd'[u] = cmd[u]
    BY <1>1, <1>2, <2>1 DEF SameCopies, SameLoad, Command
  <2>4. /\ \A q \in Roots \ {cmd[s].to} : disk'[q] = disk[q]
        /\ disk'[cmd[s].to] = [CutOff("db", disk[cmd[s].to]) EXCEPT !.made = TRUE]
    BY <1>1, <1>2, <1>3 DEF CopyIndex
  <2>5. CutOff("db", disk[cmd[s].to]) = [disk[cmd[s].to] EXCEPT !.db = {}, !.tables = FALSE]
    BY DEF CutOff
  <2>6. ~IndexCopied(s)
    BY <2>2 DEF IndexCopied, At
  <2>7. LET d == disk[cmd[s].to]
            e == disk'[cmd[s].to]
        IN /\ e.manifest = d.manifest /\ e.enc = d.enc /\ e.pub = d.pub
           /\ e.backups = d.backups /\ (d.made => e.made)
    BY <1>1, <2>4, <2>5, ZenonT(30) DEF Dir
  <2> QED BY <1>1, <2>2, <2>3, <2>4, <2>6, <2>7 DEF h
<1>4. CASE IndexCopied(s)
  <2> PICK p \in {cmd[s].half, Pages(disk[cmd[s].root]), Pages(Empty)} :
         /\ Steady(s) => p = cmd[s].half
         /\ disk' = [disk EXCEPT ![cmd[s].to].db = p.db, ![cmd[s].to].tables = p.tables]
    BY <1>4 DEF IndexCopied
  <2> DEFINE next == After(s, "db")
             owed == [cmd[s].owed EXCEPT !.steady = Steady(s)]
             c == [[[[cmd[s] EXCEPT !.todo = @ \ {"db"}] EXCEPT !.pc = next] EXCEPT !.half = Nil]
                     EXCEPT !.owed = owed]
  <2>1. cmd' = [cmd EXCEPT ![s] = c]
    BY <1>1, <1>2, <1>4 DEF IndexCopied, Command
  <2>2. cmd[s].pc = "pages" /\ next \in {"copy", "strip"}
    BY <1>4 DEF IndexCopied, At, After
  <2> HIDE DEF next, owed
  <2>3. /\ c.pc = next /\ c.todo = cmd[s].todo \ {"db"} /\ c.owed = owed /\ c.root = cmd[s].root
        /\ c.key = cmd[s].key /\ c.id = cmd[s].id /\ c.to = cmd[s].to
    BY <1>1 DEF Command
  <2>4. cmd'[s] = c /\ \A u \in Slots \ {s} : cmd'[u] = cmd[u]
    BY <1>2, <2>1
  <2>5. SameCopies(s)
    BY <2>3, <2>4 DEF SameCopies
  <2>6. \A q \in Roots \ {cmd[s].to} : disk'[q] = disk[q]
    BY <1>2
  <2>7. disk'[cmd[s].to] = [[disk[cmd[s].to] EXCEPT !.db = p.db] EXCEPT !.tables = p.tables]
    BY <1>1, <1>2
  <2>8. ~CopyIndex(s)
    BY <2>2 DEF CopyIndex, At
  <2>9. LET d == disk[cmd[s].to]
            e == disk'[cmd[s].to]
        IN /\ e.manifest = d.manifest /\ e.enc = d.enc /\ e.pub = d.pub
           /\ e.backups = d.backups /\ e.made = d.made /\ e.db = p.db /\ e.tables = p.tables
    <3>1. \A d \in Dir : \A b, v :
            LET e == [[d EXCEPT !.db = b] EXCEPT !.tables = v]
            IN /\ e.manifest = d.manifest /\ e.enc = d.enc /\ e.pub = d.pub
               /\ e.backups = d.backups /\ e.made = d.made /\ e.db = b /\ e.tables = v
      BY DEF Dir
    <3> DEFINE d == disk[cmd[s].to]
               e == [[d EXCEPT !.db = p.db] EXCEPT !.tables = p.tables]
    <3>2. d \in Dir /\ disk'[cmd[s].to] = e
      BY <1>1, <2>7
    <3>3. /\ e.manifest = d.manifest /\ e.enc = d.enc /\ e.pub = d.pub
          /\ e.backups = d.backups /\ e.made = d.made /\ e.db = p.db /\ e.tables = p.tables
      BY <3>1, <3>2
    <3> HIDE DEF e
    <3> QED BY <3>2, <3>3
  <2> QED BY <1>1, <2>2, <2>3, <2>4, <2>5, <2>6, <2>8, <2>9 DEF owed
<1> QED BY <1>3, <1>4

LEMMA WorkFiles ==
  ASSUME TypeInv, NEW s \in Slots, Works(s)
  PROVE  SameFiles
<1>1. cmd[s].root \in Roots /\ disk[cmd[s].root] \in Dir
  BY AtFacts, PCFacts DEF Works, MakeTables, KeepIdentity, Insert, Close, Fold, CopyIndex, IndexCopied,
                          Strip, ClearMemory, Backup, Fill, List, Rotate, At
<1>2. disk \in [Roots -> Dir]
  BY DEF TypeInv, DiskOK
<1>3. CASE MakeTables(s)
  BY <1>1, <1>2, <1>3 DEF MakeTables, SameFiles, Dir
<1>4. CASE KeepIdentity(s) \/ ClearMemory(s) \/ Fill(s) \/ List(s)
  BY <1>4 DEF KeepIdentity, ClearMemory, Fill, List, SameFiles
<1>5. CASE Insert(s)
  BY <1>1, <1>2, <1>5 DEF Insert, SameFiles, Dir
<1>6. CASE Close(s)
  BY <1>1, <1>2, <1>6 DEF Close, SameFiles, Dir
<1>7. CASE Strip(s)
  BY <1>1, <1>2, <1>7 DEF Strip, SameFiles, Dir
<1>8. CASE Backup(s)
  BY <1>1, <1>2, <1>8 DEF Backup, SameFiles, Dir
<1>9. CASE Rotate(s)
  BY <1>1, <1>2, <1>9 DEF Rotate, SameFiles, Dir
<1>10. CASE Fold(s)
  BY <1>1, <1>2, <1>10 DEF Fold, Folded, SameFiles, Dir
<1>11. CASE CopyIndex(s) \/ IndexCopied(s)
  BY <1>11, IndexFacts DEF SameFiles
<1> QED BY <1>3, <1>4, <1>5, <1>6, <1>7, <1>8, <1>9, <1>10, <1>11 DEF Works

Turns(a, b) ==
  \/ a = "tables" /\ b = "open"
  \/ a = "strip" /\ b = "clear"
  \/ a = "copy" /\ b = "pages"
  \/ a = "pages" /\ b \in {"copy", "strip"}
  \/ a = "row" /\ b = "close"
  \/ a = "close" /\ b = "fold"
  \/ a = "backup" /\ b = "fill"
  \/ a = "fill" /\ b = "list"
  \/ a = "list" /\ b = "rotate"

LEMMA WorkCommands ==
  ASSUME TypeInv, NEW s \in Slots, Works(s)
  PROVE  /\ \A u \in Slots \ {s} : cmd'[u] = cmd[u]
         /\ \/ cmd'[s].pc = "idle"
            \/ /\ SameCopies(s) /\ Turns(cmd[s].pc, cmd'[s].pc)
               /\ ~IndexCopied(s) => SameLoad(s)
<1>1. cmd[s] \in Command /\ DOMAIN cmd = Slots /\ CommandsOK
  BY DEF TypeInv, CommandsOK, CommandOK
<1>2. CASE MakeTables(s)
  <2>1. cmd[s].pc = "tables" /\ Goto(s, "open")
    BY <1>2 DEF MakeTables, At
  <2> QED BY <2>1, GotoCopies DEF Turns
<1>3. CASE Strip(s)
  <2>1. cmd[s].pc = "strip" /\ Goto(s, "clear")
    BY <1>3 DEF Strip, At
  <2> QED BY <2>1, GotoCopies DEF Turns
<1>4. CASE Backup(s)
  <2>1. cmd[s].pc = "backup" /\ Goto(s, "fill")
    BY <1>4 DEF Backup, At
  <2> QED BY <2>1, GotoCopies DEF Turns
<1>5. CASE KeepIdentity(s) \/ ClearMemory(s) \/ Fold(s) \/ Rotate(s)
  BY <1>1, <1>5, ReturnStep DEF KeepIdentity, ClearMemory, Fold, Answers, Rotate
<1>8. CASE Close(s)
  <2>1. cmd[s].pc = "close" /\ (Return(s) \/ Goto(s, "fold"))
    BY <1>8 DEF Close, At, Answers
  <2> QED BY <1>1, <2>1, ReturnStep, GotoCopies DEF Turns
<1>9. CASE Fill(s)
  <2>1. cmd[s].pc = "fill" /\ Goto(s, "list")
    BY <1>9 DEF Fill, At
  <2> QED BY <2>1, GotoCopies DEF Turns
<1>10. CASE CopyIndex(s) \/ IndexCopied(s)
  BY <1>10, IndexFacts DEF Turns
<1>6. CASE Insert(s)
  <2>1. /\ cmd[s].pc = "row" /\ \A u \in Slots \ {s} : cmd'[u] = cmd[u]
        /\ cmd'[s] = [[cmd[s] EXCEPT !.pc = "close"] EXCEPT !.row = fresh + 1]
    BY <1>1, <1>6 DEF Insert, At
  <2>2. cmd'[s].pc = "close" /\ SameCopies(s) /\ SameLoad(s)
    BY <1>1, <2>1 DEF SameCopies, SameLoad, Command
  <2> QED BY <2>1, <2>2 DEF Turns
<1>7. CASE List(s)
  BY <1>1, <1>7 DEF List, At, SameCopies, SameLoad, Command, Turns
<1> QED BY <1>2, <1>3, <1>4, <1>5, <1>6, <1>7, <1>8, <1>9, <1>10 DEF Works

LEMMA WorkMemory ==
  ASSUME NEW s \in Slots, Works(s)
  PROVE  vault' \in {vault, Nil} /\ raced' = raced
BY DEF Works, MakeTables, KeepIdentity, Insert, Close, Fold, CopyIndex, IndexCopied, Strip, ClearMemory,
       Backup, Fill, List, Rotate, Written, memory, history

LEMMA WorkKeys ==
  ASSUME TypeInv, KeyInv, NEW s \in Slots, Works(s)
  PROVE  KeyInv'
<1>1. SameManifests
  BY WorkFiles DEF SameFiles, SameManifests
<1>2. \A u \in Slots : Kept(u)
  <2>1. \/ cmd'[s].pc = "idle"
        \/ SameCopies(s) /\ NoMore(cmd[s].pc, cmd'[s].pc)
    BY WorkCommands DEF Turns, NoMore, Writing, Holding, Moving, Ensuring, Making, Busy, PCs, Creating
  <2>2. Kept(s)
    BY <2>1 DEF Kept, SameCopies
  <2> QED BY <2>2, WorkCommands, SameKept
<1> QED BY <1>1, <1>2, WorkMemory, KeyFrame

\* Writing an identity, as far as manifests and commands go.
LEMMA WriteIdentityFacts ==
  ASSUME TypeInv, NEW s \in Slots, WriteIdentity(s) \/ WritePublic(s)
  PROVE  /\ SameManifests /\ cmd[s].pc \in Ensuring /\ cmd'[s].pc \in Ensuring /\ SameCopies(s)
         /\ \A u \in Slots \ {s} : cmd'[u] = cmd[u]
         /\ UNCHANGED memory
<1>1. cmd[s].pc \in Busy /\ cmd[s].pc \in Ensuring
  BY PCFacts DEF WriteIdentity, WritePublic, At, Ensuring, Making
<1>2. cmd[s].root \in Roots /\ disk \in [Roots -> Dir]
  BY <1>1, AtFacts DEF TypeInv, DiskOK
<1>3. SameManifests
  BY <1>2 DEF WriteIdentity, WritePublic, SameManifests, Dir
<1>4. /\ cmd'[s].pc \in Ensuring /\ SameCopies(s)
      /\ \A u \in Slots \ {s} : cmd'[u] = cmd[u]
  BY GotoCopies DEF WriteIdentity, WritePublic, Ensuring, Making
<1> QED BY <1>1, <1>3, <1>4 DEF WriteIdentity, WritePublic, Written

LEMMA WriteIdentityKeys ==
  ASSUME TypeInv, KeyInv, NEW s \in Slots, WriteIdentity(s) \/ WritePublic(s)
  PROVE  KeyInv'
<1>1. Kept(s)
  BY WriteIdentityFacts, PhaseFacts DEF Kept, NoMore, SameCopies, Holding
<1>2. \A u \in Slots : Kept(u)
  BY <1>1, WriteIdentityFacts, SameKept
<1> QED BY <1>2, WriteIdentityFacts, KeyFrame DEF memory

LEMMA EnsureKeys ==
  ASSUME TypeInv, KeyInv, NEW s \in Slots, Ensure(s)
  PROVE  KeyInv'
<1> PICK c \in {NewIdentity, OldIdentity(disk[vault.root].enc.id)} :
      /\ Call(s, "ensure", c) /\ CommandOK(c) /\ c.pc \in {"enc", "keep"}
      /\ vault # Nil /\ c.root = vault.root /\ c.key = vault.key
  BY EnsureFacts
<1> QED BY KeyCall DEF Ensure, memory, Writing, Moving

LEMMA UseKeys ==
  ASSUME TypeInv, KeyInv, NEW s \in Slots, FileCommand(s) \/ Snapshot(s)
  PROVE  KeyInv'
<1> DEFINE row == [Idle EXCEPT !.pc = "row", !.root = vault.root]
           backup == [Idle EXCEPT !.pc = "backup", !.root = vault.root, !.ts = now']
<1>1. vault.root \in Roots /\ vault # Nil /\ UNCHANGED <<disk, vault>>
  BY VaultFacts DEF FileCommand, Snapshot, memory
<1>2. CASE FileCommand(s)
  <2>1. CommandOK(row) /\ row.pc = "row" /\ row.root = vault.root
    BY <1>1, IdleOK, PCFacts, ZenonT(40) DEF CommandOK, Command, Creating, Ensuring, Making, Moving
  <2>2. Call(s, "file", row)
    BY <1>2 DEF FileCommand
  <2> HIDE DEF row
  <2> QED BY <1>1, <2>1, <2>2, KeyCall DEF Holding, Writing, Moving, Ensuring, Making
<1>3. CASE Snapshot(s)
  <2>1. now' \in Times
    BY <1>3, ConstantFacts DEF Snapshot, TypeInv, ClockOK, Times
  <2>2. CommandOK(backup) /\ backup.pc = "backup" /\ backup.root = vault.root
    BY <1>1, <2>1, IdleOK, PCFacts, ZenonT(40) DEF CommandOK, Command, Creating, Ensuring, Making, Moving
  <2>3. Call(s, "snapshot", backup)
    BY <1>3 DEF Snapshot
  <2> HIDE DEF backup
  <2> QED BY <1>1, <2>2, <2>3, KeyCall DEF Holding, Writing, Moving, Ensuring, Making
<1> QED BY <1>2, <1>3

LEMMA QuietKeys == TypeInv /\ KeyInv /\ (Lock \/ UNCHANGED vars) => KeyInv'
<1> SUFFICES ASSUME TypeInv, KeyInv, Lock \/ UNCHANGED vars PROVE KeyInv'
  OBVIOUS
<1>1. UNCHANGED <<disk, cmd>> /\ vault' \in {vault, Nil}
  BY DEF Lock, vars, memory
<1> QED BY <1>1, KeyFrame, SameKept DEF SameManifests

LEMMA FaultKeys ==
  /\ \A s \in Slots : TypeInv /\ KeyInv /\ Fails(s) => KeyInv'
  /\ TypeInv /\ KeyInv /\ Crash => KeyInv'
<1>1. TypeInv => \A s \in Slots : cmd[s].todo # {} => cmd[s].pc \in Moving
  BY DEF TypeInv, CommandsOK, CommandOK, Moving
<1>2. ASSUME NEW s \in Slots, TypeInv, KeyInv, Fails(s) PROVE KeyInv'
  BY <1>1, <1>2, AbandonKeys DEF Fails, memory
<1>3. ASSUME TypeInv, KeyInv, Crash PROVE KeyInv'
  BY <1>1, <1>3, AbandonKeys DEF Crash
<1> QED BY <1>2, <1>3

LEMMA NextKeys == Patient /\ TypeInv /\ KeyInv /\ [Next]_vars => KeyInv'
BY QuietKeys, FaultKeys, CreateKeys, UnlockKeys, MoveKeys, WriteManifestKeys, WorkKeys, OpenKeys,
   EnsureKeys, WriteIdentityKeys, UseKeys, CopyKeys
   DEF Next, Works

LEMMA KeysHold ==
  ASSUME Patient
  PROVE  Spec => [](TypeInv /\ KeyInv)
<1>1. Init => TypeInv /\ KeyInv
  BY InitTypes, InitKeys
<1>2. TypeInv /\ KeyInv /\ [Next]_vars => (TypeInv /\ KeyInv)'
  BY NextTypes, NextKeys
<1> QED BY <1>1, <1>2, PTL DEF Spec

\* If the user waits for the answers of create, unlock and move, the master key in memory is
\* always the one the manifest on disk yields, whatever else overlaps, fails or crashes: what
\* is sealed now opens after a restart (Vault::create, Vault::unlock, sync_move_vault).
THEOREM KeyStaysRight ==
  ASSUME Patient
  PROVE  Spec => []KeyMatches
<1>1. TypeInv /\ KeyInv => KeyMatches
  BY DEF KeyInv
<1> QED BY <1>1, KeysHold, PTL

-----------------------------------------------------------------------------
(* The identity.  A command that is about to keep an identity has seen it    *)
(* whole on disk, under the key it holds; one that writes it is alone.  Both *)
(* hold where no two commands were creating an identity together.            *)

EncPhase == {"enc", "enc2"}
PubPhase == {"pub", "pub2", "keep"}
Secret(c) == [id |-> c.id, key |-> c.key]

EnsurerOK(s) ==
  cmd[s].root \notin raced =>
    /\ cmd[s].pc \in EncPhase =>
         /\ ~Whole(disk[cmd[s].root].enc)
         /\ \A u \in Slots \ {s} : cmd[u].pc \in EncPhase => cmd[u].root # cmd[s].root
    /\ cmd[s].pc \in PubPhase => disk[cmd[s].root].enc = Secret(cmd[s])
BareOK(s) == cmd[s].pc \in Moving /\ "enc" \in cmd[s].todo => disk[cmd[s].to].enc = Nil

\* The inductive invariant for the identity, on top of TypeInv and KeyInv.
IdentityInv == IdentityReloads /\ \A s \in Slots : EnsurerOK(s) /\ BareOK(s)

\* A file of folder q that is whole stays as it is.
WholeStays(q) ==
  /\ Whole(disk[q].manifest) => disk'[q].manifest = disk[q].manifest
  /\ q \notin raced /\ Whole(disk[q].enc) => disk'[q].enc = disk[q].enc
\* The database keeps its tables and its rows.
RowsStay(d, e) == (d.tables => e.tables) /\ d.db \subseteq e.db

LEMMA WholeFacts ==
  /\ \A k \in Ids : Whole(k)
  /\ \A i, k \in Ids : Whole([id |-> i, key |-> k])
  /\ ~Whole(Nil) /\ ~Whole(Torn)
BY SessionAssumption DEF Whole, Ids

LEMMA EnsuringPhases ==
  /\ Ensuring = EncPhase \cup PubPhase /\ EncPhase \cap PubPhase = {}
  /\ Ensuring \subseteq Holding /\ Ensuring \subseteq Busy /\ Ensuring \cap Moving = {}
  /\ "idle" \notin Moving /\ "idle" \notin Ensuring
BY DEF Ensuring, Making, EncPhase, PubPhase, Holding, Busy, PCs, Moving

\* What the steps leave of files and rows.
LEMMA CreateStays ==
  ASSUME TypeInv, NEW s \in Slots, NEW r \in Roots, Create(s, r)
  PROVE  SameFiles /\ \A q \in Roots : RowsStay(disk[q], disk'[q])
<1>1. disk' = [disk EXCEPT ![r] = [disk[r] EXCEPT !.made = TRUE]]
  BY DEF Create
<1> QED BY <1>1 DEF SameFiles, RowsStay, TypeInv, DiskOK, Dir

LEMMA WorkStays ==
  ASSUME TypeInv, NEW s \in Slots, Works(s)
  PROVE  \A q \in Roots : \/ RowsStay(disk[q], disk'[q])
                          \/ (CopyIndex(s) \/ IndexCopied(s)) /\ q = cmd[s].to
<1>1. cmd[s].root \in Roots /\ disk[cmd[s].root] \in Dir
  BY AtFacts, PCFacts DEF Works, MakeTables, KeepIdentity, Insert, Close, Fold, CopyIndex, IndexCopied,
                          Strip, ClearMemory, Backup, Fill, List, Rotate, At
<1>2. disk \in [Roots -> Dir]
  BY DEF TypeInv, DiskOK
<1>3. CASE MakeTables(s)
  BY <1>1, <1>2, <1>3 DEF MakeTables, RowsStay, Dir
<1>4. CASE KeepIdentity(s) \/ ClearMemory(s) \/ Fill(s) \/ List(s)
  BY <1>4 DEF KeepIdentity, ClearMemory, Fill, List, RowsStay
<1>5. CASE Insert(s)
  BY <1>1, <1>2, <1>5 DEF Insert, RowsStay, Dir
<1>6. CASE Close(s)
  BY <1>1, <1>2, <1>6 DEF Close, RowsStay, Dir
<1>7. CASE Strip(s)
  BY <1>1, <1>2, <1>7 DEF Strip, RowsStay, Dir
<1>8. CASE Backup(s)
  BY <1>1, <1>2, <1>8 DEF Backup, RowsStay, Dir
<1>9. CASE Rotate(s)
  BY <1>1, <1>2, <1>9 DEF Rotate, RowsStay, Dir
<1>10. CASE Fold(s)
  BY <1>1, <1>2, <1>10 DEF Fold, Folded, RowsStay, Dir
<1>11. CASE CopyIndex(s) \/ IndexCopied(s)
  BY <1>11, IndexFacts DEF RowsStay
<1> QED BY <1>3, <1>4, <1>5, <1>6, <1>7, <1>8, <1>9, <1>10, <1>11 DEF Works

LEMMA WriteStays ==
  ASSUME TypeInv, KeyInv, IdentityInv, NEW s \in Slots,
         WriteManifest(s) \/ WriteIdentity(s) \/ WritePublic(s)
  PROVE  \A q \in Roots : WholeStays(q) /\ RowsStay(disk[q], disk'[q])
<1>1. cmd[s].root \in Roots /\ disk[cmd[s].root] \in Dir /\ disk \in [Roots -> Dir]
  BY AtFacts, PCFacts DEF WriteManifest, WriteIdentity, WritePublic, At, TypeInv, DiskOK
<1>2. CASE WriteManifest(s)
  <2>1. disk[cmd[s].root].manifest \notin Ids /\ ~Whole(disk[cmd[s].root].manifest)
    BY <1>1, <1>2 DEF WriteManifest, At, KeyInv, WriterOK, Writing, Whole, Dir, File
  <2> QED BY <1>1, <1>2, <2>1 DEF WriteManifest, WholeStays, RowsStay, Dir
<1>3. CASE WriteIdentity(s)
  <2>1. cmd[s].root \notin raced => ~Whole(disk[cmd[s].root].enc)
    BY <1>3 DEF WriteIdentity, At, IdentityInv, EnsurerOK, EncPhase
  <2> QED BY <1>1, <1>3, <2>1 DEF WriteIdentity, WholeStays, RowsStay, Dir
<1>4. CASE WritePublic(s)
  BY <1>1, <1>4 DEF WritePublic, WholeStays, RowsStay, Dir
<1> QED BY <1>2, <1>3, <1>4

LEMMA CopyStays ==
  ASSUME TypeInv, KeyInv, IdentityInv, NEW s \in Slots, Copy(s)
  PROVE  /\ \A q \in Roots : WholeStays(q)
         /\ \A q \in Roots \ {cmd[s].to} : disk'[q] = disk[q]
<1> PICK f \in cmd[s].todo : TakesPart(f, disk'[cmd[s].to], disk[cmd[s].to], disk[cmd[s].root])
  BY CopyFacts
<1>1. /\ f = "manifest" => disk[cmd[s].to].manifest = Nil
      /\ f = "enc" => disk[cmd[s].to].enc = Nil
  BY CopyFacts DEF KeyInv, TargetOK, IdentityInv, BareOK, Moving
<1>2. WholeStays(cmd[s].to)
  BY <1>1, WholeFacts DEF TakesPart, WholeStays
<1> QED BY <1>2, CopyFacts DEF WholeStays

LEMMA AbandonStays ==
  ASSUME TypeInv, KeyInv, IdentityInv, NEW S \in SUBSET Slots, Abandon(S)
  PROVE  /\ \A q \in Roots : WholeStays(q)
         /\ \A q \in Roots : disk'[q] = disk[q] \/ \E s \in S : cmd[s].pc \in Moving /\ q = cmd[s].to
<1>1. CASE disk' = disk
  BY <1>1 DEF WholeStays
<1>2. CASE disk' # disk
  <2> PICK s \in {p \in S : At(p, "copy")} : \E f \in cmd[s].todo :
                 /\ f \in Parts
                 /\ cmd[s].to \in Roots => LosesPart(f, disk'[cmd[s].to], disk[cmd[s].to])
                 /\ \A q \in Roots \ {cmd[s].to} : disk'[q] = disk[q]
    BY <1>2, AbandonFacts
  <2> PICK f \in cmd[s].todo :
                 /\ f \in Parts
                 /\ cmd[s].to \in Roots => LosesPart(f, disk'[cmd[s].to], disk[cmd[s].to])
                 /\ \A q \in Roots \ {cmd[s].to} : disk'[q] = disk[q]
    OBVIOUS
  <2>1. cmd[s].pc \in Moving
    BY DEF TypeInv, CommandsOK, CommandOK, Moving
  <2>2. /\ f = "manifest" => disk[cmd[s].to].manifest = Nil
        /\ f = "enc" => disk[cmd[s].to].enc = Nil
    BY <2>1 DEF KeyInv, TargetOK, IdentityInv, BareOK
  <2>3. cmd[s].to \in Roots => WholeStays(cmd[s].to)
    BY <2>2, WholeFacts DEF LosesPart, WholeStays
  <2> QED BY <2>1, <2>3 DEF WholeStays
<1> QED BY <1>1, <1>2

\* A step that leaves every whole file as it is, and every command no further than it was.
NoFurther(u) ==
  /\ cmd'[u].pc \in Ensuring =>
       /\ cmd'[u].pc \in EncPhase => cmd[u].pc \in EncPhase
       /\ cmd'[u].pc \in PubPhase => cmd[u].pc \in PubPhase
       /\ cmd'[u].root = cmd[u].root /\ cmd'[u].key = cmd[u].key /\ cmd'[u].id = cmd[u].id
  /\ cmd'[u].pc \in Moving =>
       /\ cmd[u].pc \in Moving /\ cmd'[u].to = cmd[u].to /\ cmd'[u].todo \subseteq cmd[u].todo

LEMMA SameNoFurther ==
  ASSUME NEW u \in Slots, cmd'[u] = cmd[u] \/ cmd'[u].pc = "idle"
  PROVE  NoFurther(u)
BY EnsuringPhases DEF NoFurther

LEMMA ReloadsStay ==
  ASSUME TypeInv, IdentityReloads, identity' \in {identity, Nil},
         raced \subseteq raced', \A q \in Roots : WholeStays(q)
  PROVE  IdentityReloads'
<1> SUFFICES ASSUME identity' # Nil, identity.root \notin raced
             PROVE  LET d == disk'[identity.root]
                    IN Whole(d.manifest) /\ d.enc = [id |-> identity.id, key |-> d.manifest]
  BY DEF IdentityReloads
<1>1. identity.root \in Roots /\ identity.id \in Ids
  BY DEF TypeInv, MemoryOK
<1>2. LET d == disk[identity.root]
      IN Whole(d.manifest) /\ d.enc = [id |-> identity.id, key |-> d.manifest]
  BY DEF IdentityReloads
<1>3. disk[identity.root].manifest \in Ids
  BY <1>1, <1>2 DEF TypeInv, DiskOK, Dir, File, Whole
<1>4. Whole(disk[identity.root].enc)
  BY <1>1, <1>2, <1>3, WholeFacts
<1> QED BY <1>1, <1>2, <1>4 DEF WholeStays

LEMMA IdentityFrame ==
  ASSUME TypeInv, IdentityInv, identity' \in {identity, Nil}, raced \subseteq raced',
         \A q \in Roots : WholeStays(q) /\ disk'[q].enc = disk[q].enc,
         \A u \in Slots : NoFurther(u)
  PROVE  IdentityInv'
<1>1. IdentityReloads'
  BY ReloadsStay DEF IdentityInv
<1>2. ASSUME NEW u \in Slots PROVE EnsurerOK(u)'
  <2>1. \A v \in Slots : cmd'[v].pc \in EncPhase => cmd[v].pc \in EncPhase /\ cmd'[v].root = cmd[v].root
    BY EnsuringPhases DEF NoFurther
  <2>2. cmd'[u].pc \in PubPhase => cmd[u].pc \in PubPhase /\ cmd'[u].root = cmd[u].root
                                   /\ Secret(cmd'[u]) = Secret(cmd[u])
    BY EnsuringPhases DEF NoFurther, Secret
  <2>3. cmd[u].pc \in Ensuring => cmd[u].root \in Roots
    BY AtFacts, EnsuringPhases
  <2> QED BY <2>1, <2>2, <2>3, EnsuringPhases DEF IdentityInv, EnsurerOK
<1>3. ASSUME NEW u \in Slots PROVE BareOK(u)'
  <2>1. cmd[u].pc \in Moving => cmd[u].to \in Roots
    BY DEF TypeInv, CommandsOK, CommandOK
  <2> QED BY <2>1 DEF IdentityInv, BareOK, NoFurther
<1> QED BY <1>1, <1>2, <1>3 DEF IdentityInv

LEMMA InitIdentity == Init => IdentityInv
BY IdleOK, EnsuringPhases DEF Init, IdentityInv, IdentityReloads, EnsurerOK, BareOK

\* A call that ensures no identity and moves nothing.
LEMMA CallIdentity ==
  ASSUME TypeInv, IdentityInv, NEW s \in Slots, NEW kind, NEW c, CommandOK(c), Call(s, kind, c),
         c.pc \notin Ensuring \cup Moving, SameFiles, identity' = identity, raced' = raced
  PROVE  IdentityInv'
<1>1. cmd'[s] = c /\ \A u \in Slots \ {s} : cmd'[u] = cmd[u]
  BY CallStep DEF TypeInv
<1>2. \A u \in Slots : NoFurther(u)
  BY <1>1, SameNoFurther DEF NoFurther
<1> QED BY <1>2, IdentityFrame DEF SameFiles, WholeStays

LEMMA CreateIdentity ==
  ASSUME TypeInv, IdentityInv, NEW s \in Slots, NEW r \in Roots, Create(s, r)
  PROVE  IdentityInv'
<1> DEFINE c == [Idle EXCEPT !.pc = "manifest", !.root = r, !.key = fresh + 1]
<1>1. fresh + 1 \in Ids
  BY FreshFacts DEF TypeInv, Create, Call
<1>2. CommandOK(c) /\ c.pc = "manifest"
  BY <1>1, IdleOK, PCFacts, ZenonT(40) DEF CommandOK, Command, Creating, Ensuring, Making, Moving
<1>3. Call(s, "create", c) /\ identity' = identity /\ raced' = raced
  BY DEF Create, memory, history
<1> HIDE DEF c
<1> QED BY <1>2, <1>3, CreateStays, CallIdentity DEF Ensuring, Making, Moving

LEMMA UnlockIdentity ==
  ASSUME TypeInv, IdentityInv, NEW s \in Slots, NEW r \in Roots, Unlock(s, r)
  PROVE  IdentityInv'
<1> DEFINE open == [Idle EXCEPT !.pc = "open", !.root = r, !.key = disk[r].manifest]
<1>1. SameFiles /\ identity' = identity /\ raced' = raced
  BY DEF Unlock, SameFiles, memory, history
<1>2. disk[r].manifest \in Ids
  BY DEF Unlock, Whole, TypeInv, DiskOK, Dir, File
<1>3. CommandOK(open) /\ open.pc = "open" /\ Call(s, "unlock", open)
  BY <1>2, IdleOK, PCFacts, ZenonT(40) DEF CommandOK, Command, Creating, Ensuring, Making, Moving, Unlock
<1> HIDE DEF open
<1> QED BY <1>1, <1>3, CallIdentity DEF Ensuring, Making, Moving

LEMMA UseIdentity ==
  ASSUME TypeInv, IdentityInv, NEW s \in Slots, FileCommand(s) \/ Snapshot(s)
  PROVE  IdentityInv'
<1>1. SameFiles /\ identity' = identity /\ raced' = raced
  BY DEF FileCommand, Snapshot, SameFiles, memory, history
<1>2. /\ \A u \in Slots \ {s} : cmd'[u] = cmd[u]
      /\ cmd'[s].pc \in {"row", "backup"}
  <2>1. \A r, ts : /\ [Idle EXCEPT !.pc = "row", !.root = r].pc = "row"
                   /\ [Idle EXCEPT !.pc = "backup", !.root = r, !.ts = ts].pc = "backup"
    BY DEF Idle
  <2>2. \A kind, c : Call(s, kind, c) => cmd'[s] = c /\ \A u \in Slots \ {s} : cmd'[u] = cmd[u]
    BY DEF Call, TypeInv, CommandsOK
  <2>3. CASE FileCommand(s)
    <3> DEFINE c == [Idle EXCEPT !.pc = "row", !.root = vault.root]
    <3>1. Call(s, "file", c) /\ c.pc = "row"
      BY <2>1, <2>3 DEF FileCommand
    <3> HIDE DEF c
    <3> QED BY <2>2, <3>1
  <2>4. CASE Snapshot(s)
    <3> DEFINE c == [Idle EXCEPT !.pc = "backup", !.root = vault.root, !.ts = now']
    <3>1. Call(s, "snapshot", c) /\ c.pc = "backup"
      BY <2>1, <2>4 DEF Snapshot
    <3> HIDE DEF c
    <3> QED BY <2>2, <3>1
  <2> QED BY <2>3, <2>4
<1>3. \A u \in Slots : NoFurther(u)
  BY <1>2, SameNoFurther DEF NoFurther, Ensuring, Making, Moving
<1> QED BY <1>1, <1>3, IdentityFrame DEF SameFiles, WholeStays

LEMMA EnsureIdentity ==
  ASSUME TypeInv, KeyInv, IdentityInv, NEW s \in Slots, Ensure(s)
  PROVE  IdentityInv'
<1> DEFINE r == vault.root
           enc == disk[r].enc
<1>1. r \in Roots /\ vault.key \in Ids /\ disk' = disk /\ identity' = identity
  BY EnsureFacts DEF Ensure, memory
<1>2. raced \subseteq raced'
  BY EnsureFacts DEF MakeIdentity, KeepOld
<1>3. IdentityReloads'
  BY <1>1, <1>2 DEF IdentityInv, IdentityReloads
<1>4. CASE enc = Nil /\ MakeIdentity(s) /\ cmd'[s] = NewIdentity
           /\ NewIdentity.pc = "enc" /\ NewIdentity.root = r
  <2>1. \A u \in Slots \ {s} : cmd'[u] = cmd[u]
    BY <1>4 DEF MakeIdentity, Call, TypeInv, CommandsOK
  <2>2. r \notin raced' => \A u \in Slots : cmd[u].pc \in EncPhase => cmd[u].root # r
    BY <1>4 DEF MakeIdentity, Running, EncPhase, Making
  <2>3. ~Whole(enc)
    BY <1>4, WholeFacts
  <2>4. ASSUME NEW u \in Slots PROVE EnsurerOK(u)'
    BY <1>1, <1>2, <1>4, <2>1, <2>2, <2>3 DEF IdentityInv, EnsurerOK, EncPhase, PubPhase
  <2>5. ASSUME NEW u \in Slots PROVE BareOK(u)'
    BY <1>1, <1>4, <2>1 DEF IdentityInv, BareOK, Moving
  <2> QED BY <1>3, <2>4, <2>5 DEF IdentityInv
<1>5. CASE LET c == OldIdentity(enc.id) IN
             /\ KeepOld(s, enc.id) /\ enc \in [id : Ids, key : Ids] /\ Whole(enc) /\ enc.key = vault.key
             /\ cmd'[s] = c /\ c.pc = "keep" /\ c.root = r /\ c.key = vault.key /\ c.id = enc.id
  <2> DEFINE c == OldIdentity(enc.id)
  <2>1. raced' = raced /\ \A u \in Slots \ {s} : cmd'[u] = cmd[u]
    BY <1>5 DEF KeepOld, Call, TypeInv, CommandsOK
  <2>2. enc = Secret(c)
    BY <1>5 DEF Secret
  <2> HIDE DEF c
  <2>3. cmd'[s] = c /\ c.pc = "keep" /\ c.root = r
    BY <1>5 DEF c
  <2>4. ASSUME NEW u \in Slots PROVE EnsurerOK(u)'
    BY <1>1, <2>1, <2>2, <2>3 DEF IdentityInv, EnsurerOK, EncPhase, PubPhase
  <2>5. ASSUME NEW u \in Slots PROVE BareOK(u)'
    BY <1>1, <2>1, <2>3 DEF IdentityInv, BareOK, Moving
  <2> QED BY <1>3, <2>4, <2>5 DEF IdentityInv
<1>6. \A kind, c : Call(s, kind, c) => cmd'[s] = c
  BY DEF Call, TypeInv, CommandsOK
<1> QED BY <1>4, <1>5, <1>6, EnsureFacts

LEMMA WriteSecretIdentity ==
  ASSUME TypeInv, KeyInv, IdentityInv, NEW s \in Slots, WriteIdentity(s)
  PROVE  IdentityInv'
<1> DEFINE r == cmd[s].root
<1>1. cmd[s].pc \in EncPhase /\ cmd[s].pc \in Ensuring /\ cmd[s].pc \in Busy
  BY PCFacts DEF WriteIdentity, At, EncPhase, Ensuring, Making
<1>2. /\ r \in Roots /\ disk \in [Roots -> Dir] /\ disk[r] \in Dir /\ raced' = raced
      /\ r \notin raced => ~Whole(disk[r].enc)
  BY <1>1, AtFacts DEF TypeInv, DiskOK, IdentityInv, EnsurerOK, WriteIdentity, Written, history
<1>3. \A q \in Roots \ {r} : disk'[q] = disk[q]
  BY <1>2 DEF WriteIdentity
<1>4. /\ SameCopies(s) /\ \A u \in Slots \ {s} : cmd'[u] = cmd[u]
      /\ \/ cmd'[s].pc = "enc2" /\ disk'[r].enc = Torn
         \/ cmd'[s].pc = "pub" /\ disk'[r].enc = Secret(cmd[s])
  BY <1>2, GotoCopies DEF WriteIdentity, Dir, Secret
<1>5. IdentityReloads'
  BY <1>2, WriteStays, ReloadsStay DEF WriteIdentity, Written, memory, IdentityInv
<1>6. r \notin raced =>
      \A u \in Slots \ {s} : /\ cmd[u].pc \in EncPhase => cmd[u].root \in Roots \ {r}
                             /\ cmd[u].pc \in PubPhase => cmd[u].root \in Roots \ {r}
  <2> SUFFICES ASSUME r \notin raced, NEW u \in Slots \ {s}
               PROVE  /\ cmd[u].pc \in EncPhase => cmd[u].root \in Roots \ {r}
                      /\ cmd[u].pc \in PubPhase => cmd[u].root \in Roots \ {r}
    OBVIOUS
  <2>1. cmd[u].pc \in Ensuring => cmd[u].root \in Roots /\ Whole(Secret(cmd[u]))
    BY AtFacts, EnsuringPhases, WholeFacts DEF CommandOK, Secret
  <2> QED BY <1>1, <1>2, <2>1, EnsuringPhases DEF IdentityInv, EnsurerOK
<1>7. ASSUME NEW u \in Slots PROVE EnsurerOK(u)'
  <2>1. CASE u = s
    BY <2>1, <1>1, <1>2, <1>4, <1>6, WholeFacts DEF EnsurerOK, IdentityInv, EncPhase, PubPhase, SameCopies, Secret
  <2>2. CASE u # s
    <3>1. cmd[u].pc \in Ensuring => cmd[u].root \in Roots
      BY AtFacts, EnsuringPhases
    <3> QED BY <2>2, <3>1, <1>1, <1>2, <1>3, <1>4, <1>6, EnsuringPhases DEF EnsurerOK, IdentityInv, SameCopies
  <2> QED BY <2>1, <2>2
<1>8. ASSUME NEW u \in Slots PROVE BareOK(u)'
  <2>1. cmd[u].pc \in Moving => cmd[u].to \in Roots \ {r}
    BY <1>1 DEF TypeInv, CommandsOK, CommandOK, KeyInv, TargetOK
  <2> QED BY <1>3, <1>4, <2>1 DEF BareOK, IdentityInv, Moving
<1> QED BY <1>5, <1>7, <1>8 DEF IdentityInv

LEMMA WritePublicIdentity ==
  ASSUME TypeInv, KeyInv, IdentityInv, NEW s \in Slots, WritePublic(s)
  PROVE  IdentityInv'
<1>1. cmd[s].root \in Roots /\ disk \in [Roots -> Dir]
  BY AtFacts, PCFacts DEF WritePublic, At, TypeInv, DiskOK
<1>2. \A q \in Roots : disk'[q].enc = disk[q].enc
  BY <1>1 DEF WritePublic, Dir
<1>3. /\ SameCopies(s) /\ \A u \in Slots \ {s} : cmd'[u] = cmd[u]
      /\ cmd[s].pc \in PubPhase /\ cmd'[s].pc \in PubPhase
  BY GotoCopies DEF WritePublic, At, PubPhase
<1>4. \A u \in Slots : NoFurther(u)
  BY <1>3, SameNoFurther, EnsuringPhases DEF NoFurther, SameCopies
<1> QED BY <1>2, <1>4, WriteStays, IdentityFrame DEF WritePublic, Written, memory, history

LEMMA WriteManifestIdentity ==
  ASSUME TypeInv, KeyInv, IdentityInv, NEW s \in Slots, WriteManifest(s)
  PROVE  IdentityInv'
<1>1. cmd[s].root \in Roots /\ disk \in [Roots -> Dir]
  BY AtFacts, PCFacts DEF WriteManifest, At, TypeInv, DiskOK
<1>2. \A q \in Roots : disk'[q].enc = disk[q].enc
  BY <1>1 DEF WriteManifest, Dir
<1>3. /\ \A u \in Slots \ {s} : cmd'[u] = cmd[u]
      /\ cmd'[s].pc \in {"manifest2", "tables"}
  BY GotoCopies DEF WriteManifest, At
<1>4. \A u \in Slots : NoFurther(u)
  BY <1>3, SameNoFurther DEF NoFurther, Ensuring, Making, Moving
<1> QED BY <1>2, <1>4, WriteStays, IdentityFrame DEF WriteManifest, Written, memory, history

LEMMA WorkIdentity ==
  ASSUME TypeInv, KeyInv, IdentityInv, NEW s \in Slots, Works(s) \/ Open(s)
  PROVE  IdentityInv'
<1>1. SameFiles
  BY WorkFiles DEF Open, SameFiles
<1>2. \A u \in Slots : NoFurther(u)
  <2>1. CASE Open(s)
    BY <2>1, ReturnStep, SameNoFurther DEF Open, TypeInv
  <2>2. CASE Works(s)
    <3>1. cmd'[s].pc = "idle" \/ (SameCopies(s) /\ Turns(cmd[s].pc, cmd'[s].pc))
      BY <2>2, WorkCommands
    <3>2. NoFurther(s)
      BY <3>1, SameNoFurther DEF NoFurther, Turns, SameCopies, Ensuring, Making, Moving
    <3> QED BY <2>2, <3>2, WorkCommands, SameNoFurther
  <2> QED BY <2>1, <2>2
<1>5. raced' = raced
  BY WorkMemory DEF Open, history
<1>3. CASE ~KeepIdentity(s)
  <2>1. identity' \in {identity, Nil}
    BY <1>3 DEF Works, Open, MakeTables, Insert, Close, Fold, CopyIndex, IndexCopied, Strip, ClearMemory,
                Backup, Fill, List, Rotate, Written, memory
  <2> QED BY <1>1, <1>2, <1>5, <2>1, IdentityFrame DEF SameFiles, WholeStays
<1>4. CASE KeepIdentity(s)
  <2>1. cmd[s].pc \in PubPhase /\ cmd[s].pc \in Holding /\ cmd[s].pc \in Ensuring
    BY <1>4, EnsuringPhases DEF KeepIdentity, At, PubPhase
  <2>2. /\ identity' = [root |-> cmd[s].root, id |-> cmd[s].id] /\ disk' = disk
        /\ cmd[s].key \in Ids
    BY <1>4, <2>1, AtFacts, EnsuringPhases DEF KeepIdentity, CommandOK
  <2>3. IdentityReloads'
    BY <1>5, <2>1, <2>2, WholeFacts DEF IdentityReloads, IdentityInv, EnsurerOK, KeyInv, HolderOK, Secret
  <2>4. cmd'[s].pc = "idle" /\ \A u \in Slots \ {s} : cmd'[u] = cmd[u]
    BY <1>4, ReturnStep DEF KeepIdentity, TypeInv
  <2>5. ASSUME NEW u \in Slots PROVE EnsurerOK(u)' /\ BareOK(u)'
    BY <1>5, <2>2, <2>4, EnsuringPhases DEF IdentityInv, EnsurerOK, BareOK
  <2> QED BY <2>3, <2>5 DEF IdentityInv
<1> QED BY <1>3, <1>4

LEMMA MoveIdentity ==
  ASSUME TypeInv, IdentityInv, NEW s \in Slots, NEW t \in Roots, Move(s, t)
  PROVE  IdentityInv'
<1>1. disk' = disk /\ identity' = identity /\ raced' = raced /\ disk[t].enc = Nil
  BY DEF Move, memory, history, TypeInv, MadeOK, Blank
<1>2. \A u \in Slots \ {s} : cmd'[u] = cmd[u]
  BY MoveFacts
<1>3. cmd'[s].pc = "copy" /\ cmd'[s].to = t
  BY MoveFacts
<1>4. IdentityReloads'
  BY <1>1 DEF IdentityInv, IdentityReloads
<1>5. ASSUME NEW u \in Slots PROVE EnsurerOK(u)' /\ BareOK(u)'
  BY <1>1, <1>2, <1>3 DEF IdentityInv, EnsurerOK, BareOK, EncPhase, PubPhase
<1> QED BY <1>4, <1>5 DEF IdentityInv

LEMMA CopyIdentity ==
  ASSUME TypeInv, KeyInv, IdentityInv, NEW s \in Slots, Copy(s)
  PROVE  IdentityInv'
<1> DEFINE t == cmd[s].to
<1>1. /\ cmd[s].pc \in Moving /\ t \in Roots /\ \A u \in Slots \ {s} : cmd'[u] = cmd[u]
      /\ \A q \in Roots \ {t} : disk'[q] = disk[q]
  BY CopyFacts DEF Moving
<1> PICK f \in cmd[s].todo :
           /\ TakesPart(f, disk'[t], disk[t], disk[cmd[s].root])
           /\ cmd'[s].todo = cmd[s].todo \ {f} /\ cmd'[s].pc \in {"copy", "strip"} /\ cmd'[s].to = t
  BY CopyFacts
<1>2. IdentityReloads'
  BY CopyStays, ReloadsStay DEF IdentityInv, Copy, memory, history
<1>3. /\ \A u \in Slots : cmd[u].pc \in Ensuring => cmd[u].root \in Roots \ {t}
      /\ \A u \in Slots \ {s} : cmd[u].pc \in Moving => cmd[u].to \in Roots \ {t}
  BY <1>1, AtFacts, EnsuringPhases DEF KeyInv, TargetOK, TypeInv, CommandsOK, CommandOK
<1>4. cmd'[s].pc \notin Ensuring /\ raced' = raced
  BY DEF Ensuring, Making, Copy, history
<1>5. ASSUME NEW u \in Slots PROVE EnsurerOK(u)'
  BY <1>1, <1>3, <1>4, EnsuringPhases DEF IdentityInv, EnsurerOK
<1>6. ASSUME NEW u \in Slots PROVE BareOK(u)'
  <2>1. CASE u = s
    BY <2>1, <1>1 DEF IdentityInv, BareOK, TakesPart
  <2>2. CASE u # s
    BY <2>2, <1>1, <1>3 DEF IdentityInv, BareOK
  <2> QED BY <2>1, <2>2
<1> QED BY <1>2, <1>5, <1>6 DEF IdentityInv

LEMMA AbandonIdentity ==
  ASSUME TypeInv, KeyInv, IdentityInv, NEW S \in SUBSET Slots, Abandon(S),
         identity' \in {identity, Nil}, raced' = raced
  PROVE  IdentityInv'
<1>1. IdentityReloads'
  BY AbandonStays, ReloadsStay DEF IdentityInv
<1>2. \A u \in Slots : cmd'[u].pc = "idle" \/ (cmd'[u] = cmd[u] /\ u \notin S)
  BY AbandonFacts
<1>3. ASSUME NEW u \in Slots PROVE EnsurerOK(u)'
  <2>1. cmd[u].pc \in Ensuring => cmd[u].root \in Roots /\ disk'[cmd[u].root] = disk[cmd[u].root]
    BY AbandonStays, AtFacts, EnsuringPhases DEF KeyInv, TargetOK
  <2> QED BY <1>2, <2>1, EnsuringPhases DEF IdentityInv, EnsurerOK
<1>4. ASSUME NEW u \in Slots PROVE BareOK(u)'
  <2>1. cmd[u].pc \in Moving /\ u \notin S => disk'[cmd[u].to] = disk[cmd[u].to]
    BY AbandonStays DEF KeyInv, TargetOK, TypeInv, CommandsOK, CommandOK
  <2> QED BY <1>2, <2>1, EnsuringPhases DEF IdentityInv, BareOK
<1> QED BY <1>1, <1>3, <1>4 DEF IdentityInv

LEMMA QuietIdentity == TypeInv /\ IdentityInv /\ (Lock \/ UNCHANGED vars) => IdentityInv'
<1> SUFFICES ASSUME TypeInv, IdentityInv, Lock \/ UNCHANGED vars PROVE IdentityInv'
  OBVIOUS
<1>1. UNCHANGED <<disk, cmd, identity, raced>>
  BY DEF Lock, vars, memory, history
<1> QED BY <1>1, IdentityFrame, SameNoFurther DEF WholeStays

LEMMA NextIdentity == TypeInv /\ KeyInv /\ IdentityInv /\ [Next]_vars => IdentityInv'
<1> SUFFICES ASSUME TypeInv, KeyInv, IdentityInv, [Next]_vars PROVE IdentityInv'
  OBVIOUS
<1>1. CASE Crash
  BY <1>1, AbandonIdentity DEF Crash
<1>2. ASSUME NEW s \in Slots, Fails(s) PROVE IdentityInv'
  BY <1>2, AbandonIdentity DEF Fails, memory
<1> QED BY <1>1, <1>2, QuietIdentity, CreateIdentity, UnlockIdentity, UseIdentity, MoveIdentity, WriteManifestIdentity,
           WorkIdentity, EnsureIdentity, WriteSecretIdentity, WritePublicIdentity, CopyIdentity
        DEF Next, Works

LEMMA IdentityHolds ==
  ASSUME Patient
  PROVE  Spec => [](TypeInv /\ KeyInv /\ IdentityInv)
<1>1. Init => TypeInv /\ KeyInv /\ IdentityInv
  BY InitTypes, InitKeys, InitIdentity
<1>2. TypeInv /\ KeyInv /\ IdentityInv /\ [Next]_vars => (TypeInv /\ KeyInv /\ IdentityInv)'
  BY NextTypes, NextKeys, NextIdentity
<1> QED BY <1>1, <1>2, PTL DEF Spec

\* If the user waits for the answers of create, unlock and move, the identity in memory is the
\* one the next start loads: identity.enc holds it under the key of the manifest beside it,
\* whatever crashes, fails, locks or moves, and however often identity_ensure is called,
\* except where two of its calls were creating an identity together (identity.rs, lib.rs).
THEOREM IdentityStaysLoadable ==
  ASSUME Patient
  PROVE  Spec => []IdentityReloads
<1>1. TypeInv /\ KeyInv /\ IdentityInv => IdentityReloads
  BY DEF IdentityInv
<1> QED BY <1>1, IdentityHolds, PTL

-----------------------------------------------------------------------------
(* Moves and backups: what a folder holds that a vault was moved to, and    *)
(* which backups the rotation leaves.  The theorems rest on the invariants  *)
(* above, so they too are about a user who waits for the answer of a        *)
(* lifecycle command.                                                       *)

-----------------------------------------------------------------------------
(* The steps, as these proofs see them.                                     *)

\* The commands that are called by s.
Begins(s) ==
  \/ \E r \in Roots : Create(s, r) \/ Unlock(s, r) \/ Move(s, r)
  \/ Ensure(s) \/ FileCommand(s) \/ Snapshot(s)
Writes(s) == WriteManifest(s) \/ WriteIdentity(s) \/ WritePublic(s)

LEMMA BeginFacts ==
  ASSUME TypeInv, NEW s \in Slots, Begins(s)
  PROVE  /\ cmd[s].pc = "idle" /\ \A u \in Slots \ {s} : cmd'[u] = cmd[u]
         /\ SameFiles /\ UNCHANGED <<acked, begun, taken, moved, partial>>
         /\ now <= now' /\ now' \in Times
         /\ raced \subseteq raced'
         /\ \A q \in raced' \ raced :
              vault # Nil /\ q = vault.root /\ disk[q].made /\ disk[q].enc = Nil
         /\ \A q \in Roots : RowsStay(disk[q], disk'[q]) /\ disk'[q].backups = disk[q].backups
<1>1. ASSUME NEW r \in Roots, Create(s, r)
      PROVE  \A q \in Roots : disk'[q].backups = disk[q].backups
  BY <1>1 DEF Create, TypeInv, DiskOK, Dir
<1>2. cmd[s].pc = "idle" /\ \A u \in Slots \ {s} : cmd'[u] = cmd[u]
  <2>1. \A kind, c : Call(s, kind, c) => cmd[s].pc = "idle" /\ \A u \in Slots \ {s} : cmd'[u] = cmd[u]
    BY DEF Call, TypeInv, CommandsOK
  <2>2. \E kind, c : Call(s, kind, c)
    BY EnsureFacts DEF Begins, Create, Unlock, Move, FileCommand, Snapshot
  <2> QED BY <2>1, <2>2
<1>3. UNCHANGED <<acked, begun, taken, moved, partial>>
  BY DEF Begins, Create, Unlock, Move, Ensure, FileCommand, Snapshot, history, backupsMade
<1>6. now <= now' /\ now' \in Times
  <2>1. now \in Times /\ MaxTime \in Nat
    BY ConstantFacts DEF TypeInv, ClockOK
  <2>2. Snapshot(s) \/ now' = now
    BY DEF Begins, Create, Unlock, Move, Ensure, FileCommand
  <2> QED BY <2>1, <2>2 DEF Snapshot, Times
<1>7. /\ raced \subseteq raced'
      /\ \A q \in raced' \ raced :
           vault # Nil /\ q = vault.root /\ disk[q].made /\ disk[q].enc = Nil
  <2>1. CASE Ensure(s)
    BY <2>1, EnsureFacts DEF MakeIdentity, KeepOld
  <2>2. CASE ~Ensure(s)
    BY <2>2 DEF Begins, Create, Unlock, Move, FileCommand, Snapshot, history
  <2> QED BY <2>1, <2>2
<1>4. (\E r \in Roots : Create(s, r)) \/ UNCHANGED disk
  BY DEF Begins, Unlock, Move, Ensure, FileCommand, Snapshot
<1>5. SameFiles /\ \A q \in Roots : RowsStay(disk[q], disk'[q]) /\ disk'[q].backups = disk[q].backups
  BY <1>1, <1>4, CreateStays DEF SameFiles, RowsStay
<1> QED BY <1>2, <1>3, <1>5, <1>6, <1>7

\* Every step is one of these.
LEMMA StepKinds ==
  ASSUME [Next]_vars
  PROVE  \/ Lock \/ UNCHANGED vars \/ Crash
         \/ \E s \in Slots : \/ Begins(s) \/ Writes(s) \/ Works(s) \/ Open(s)
                             \/ Copy(s) \/ Fails(s)
BY DEF Next, Begins, Writes, Works

-----------------------------------------------------------------------------
(* The public half.                                                         *)

\* A folder that no move is writing, whose files do not come from one that broke off, and where
\* no two commands were creating an identity together.
Clean(r) == r \notin partial \cup raced /\ \A u \in Slots : cmd[u].pc \in Moving => cmd[u].to # r
\* The public half is written after the secret one, and the secret is never written again.
PubOK(r) ==
  Clean(r) /\ Whole(disk[r].pub) => Whole(disk[r].enc) /\ disk[r].pub = disk[r].enc.id
PubInv == \A r \in Roots : PubOK(r)

LEMMA PubFrame ==
  ASSUME PubInv,
         \A r \in Roots : Clean(r)' => /\ Clean(r) /\ disk'[r].enc = disk[r].enc
                                       /\ disk'[r].pub = disk[r].pub
  PROVE  PubInv'
BY DEF PubInv, PubOK

\* A command that is not about to end a move leaves no target behind.
LEMMA CleanStays ==
  ASSUME NEW s \in Slots, partial' = partial, raced \subseteq raced',
         \A u \in Slots \ {s} : cmd'[u] = cmd[u],
         cmd[s].pc \in Moving => cmd'[s].pc \in Moving /\ cmd'[s].to = cmd[s].to
  PROVE  \A r \in Roots : Clean(r)' => Clean(r)
BY DEF Clean

LEMMA InitPub == Init => PubInv
BY WholeFacts DEF Init, PubInv, PubOK, Empty

LEMMA WritePub ==
  ASSUME TypeInv, IdentityInv, PubInv, NEW s \in Slots, Writes(s)
  PROVE  PubInv'
<1> DEFINE q == cmd[s].root
<1>1. /\ CommandOK(cmd[s]) /\ q \in Roots /\ disk \in [Roots -> Dir] /\ partial' = partial
      /\ raced' = raced /\ cmd[s].pc \notin Moving
  BY AtFacts, PCFacts DEF Writes, WriteManifest, WriteIdentity, WritePublic, Written, history, At,
                          Moving, TypeInv, DiskOK
<1>2. \A u \in Slots \ {s} : cmd'[u] = cmd[u]
  BY GotoCopies DEF Writes, WriteManifest, WriteIdentity, WritePublic
<1>3. \A r \in Roots : Clean(r)' => Clean(r)
  BY <1>1, <1>2, CleanStays
<1>4. CASE WriteManifest(s)
  <2>1. SameFiles \/ \A r \in Roots : disk'[r].enc = disk[r].enc /\ disk'[r].pub = disk[r].pub
    BY <1>1, <1>4 DEF WriteManifest, Dir
  <2> QED BY <1>3, <2>1, PubFrame DEF SameFiles
<1>5. CASE WriteIdentity(s)
  <2>1. /\ q \notin raced => ~Whole(disk[q].enc)
        /\ disk'[q].pub = disk[q].pub
        /\ \A r \in Roots \ {q} : disk'[r] = disk[r]
    BY <1>1, <1>5 DEF WriteIdentity, At, IdentityInv, EnsurerOK, EncPhase, Dir
  <2> QED BY <1>3, <2>1 DEF PubInv, PubOK, Clean
<1>6. CASE WritePublic(s)
  <2>1. /\ q \notin raced => disk[q].enc = Secret(cmd[s]) /\ Whole(Secret(cmd[s]))
        /\ disk'[q].enc = disk[q].enc /\ disk'[q].pub \in {Torn, cmd[s].id}
        /\ \A r \in Roots \ {q} : disk'[r] = disk[r]
    <3>1. cmd[s].pc \in PubPhase /\ cmd[s].id \in Ids /\ cmd[s].key \in Ids
      BY <1>1, <1>6 DEF WritePublic, At, PubPhase, CommandOK, Ensuring, Making
    <3>2. q \notin raced => disk[q].enc = Secret(cmd[s]) /\ Whole(Secret(cmd[s]))
      BY <3>1, WholeFacts DEF IdentityInv, EnsurerOK, Secret
    <3> QED BY <1>1, <1>6, <3>2 DEF WritePublic, Dir
  <2> QED BY <1>3, <2>1, WholeFacts DEF PubInv, PubOK, Secret, Clean
<1> QED BY <1>4, <1>5, <1>6 DEF Writes

LEMMA ClearPub ==
  ASSUME TypeInv, KeyInv, PubInv, NEW s \in Slots, ClearMemory(s)
  PROVE  PubInv'
<1> DEFINE q == cmd[s].root
           t == cmd[s].to
<1>1. /\ cmd[s].pc = "clear" /\ cmd[s].pc \in Moving /\ q \in Roots /\ t \in Roots /\ disk' = disk
  BY AtFacts, PCFacts DEF ClearMemory, At, CommandOK, Moving
<1>2. cmd'[s].pc = "idle" /\ \A u \in Slots \ {s} : cmd'[u] = cmd[u]
  BY ReturnStep DEF ClearMemory, TypeInv
<1>3. /\ partial \subseteq partial' /\ raced' = raced
      /\ t \notin partial' => /\ disk[q].enc = disk[t].enc /\ disk[q].pub = disk[t].pub
                              /\ q \notin partial \cup raced
  BY DEF ClearMemory
<1>4. \A u \in Slots : cmd[u].pc \in Moving => cmd[u].to # q
  BY <1>1 DEF KeyInv, TargetOK, Moving, Busy, PCs
<1>5. ASSUME NEW r \in Roots, r # t, Clean(r)' PROVE Clean(r)
  BY <1>2, <1>3, <1>5 DEF Clean
<1>6. ASSUME NEW r \in Roots, r = t, Clean(r)' PROVE PubOK(q) /\ Clean(q)
  BY <1>1, <1>3, <1>4, <1>6 DEF Clean, PubInv
<1>7. ASSUME NEW r \in Roots PROVE PubOK(r)'
  <2>1. CASE r = t
    BY <1>1, <1>3, <1>6, <2>1 DEF PubOK, Clean
  <2>2. CASE r # t
    BY <1>1, <1>5, <2>2 DEF PubInv, PubOK
  <2> QED BY <2>1, <2>2
<1> QED BY <1>7 DEF PubInv

LEMMA WorkPub ==
  ASSUME TypeInv, KeyInv, PubInv, NEW s \in Slots, Works(s) \/ Open(s)
  PROVE  PubInv'
<1>1. CASE ClearMemory(s)
  BY <1>1, ClearPub
<1>2. CASE ~ClearMemory(s)
  <2>1. partial' = partial /\ raced' = raced
    BY <1>2 DEF Works, Open, MakeTables, KeepIdentity, Insert, Close, Fold, CopyIndex, IndexCopied, Strip,
                Backup, Fill, List, Rotate, Written, history
  <2>2. SameFiles
    BY WorkFiles DEF Open, SameFiles
  <2>3. \A u \in Slots \ {s} : cmd'[u] = cmd[u]
    BY WorkCommands, ReturnStep DEF Open, TypeInv
  <2>4. cmd[s].pc \in Moving => Strip(s) \/ CopyIndex(s) \/ IndexCopied(s)
    BY <1>2 DEF Works, Open, MakeTables, KeepIdentity, Insert, Close, Fold, Backup, Fill, List, Rotate, At,
                Moving
  <2>5. Strip(s) \/ CopyIndex(s) \/ IndexCopied(s) => cmd'[s].pc \in Moving /\ cmd'[s].to = cmd[s].to
    <3>1. Strip(s) => Goto(s, "clear")
      BY DEF Strip
    <3>2. cmd'[s].pc \in {"clear", "pages", "copy", "strip"} => cmd'[s].pc \in Moving
      BY DEF Moving
    <3>3. Strip(s) => cmd'[s].pc = "clear" /\ SameCopies(s)
      BY <3>1, GotoCopies
    <3> QED BY <3>2, <3>3, IndexFacts DEF SameCopies
  <2> QED BY <2>1, <2>2, <2>3, <2>4, <2>5, CleanStays, PubFrame DEF SameFiles
<1> QED BY <1>1, <1>2

LEMMA CopyPub ==
  ASSUME TypeInv, PubInv, NEW s \in Slots, Copy(s)
  PROVE  PubInv'
<1>1. /\ cmd[s].pc \in Moving /\ cmd'[s].pc \in Moving /\ cmd'[s].to = cmd[s].to
      /\ partial' = partial /\ raced' = raced
      /\ \A u \in Slots \ {s} : cmd'[u] = cmd[u]
      /\ \A r \in Roots \ {cmd[s].to} : disk'[r] = disk[r]
  BY CopyFacts DEF Copy, history, Moving
<1>2. ~Clean(cmd[s].to)
  BY <1>1 DEF Clean
<1> QED BY <1>1, <1>2, CleanStays, PubFrame

LEMMA AbandonPub ==
  ASSUME TypeInv, KeyInv, IdentityInv, PubInv, NEW S \in SUBSET Slots, Abandon(S), raced' = raced
  PROVE  PubInv'
<1>1. ASSUME NEW r \in Roots, Clean(r)' PROVE Clean(r)
  <2>1. r \notin partial \cup raced /\ r \notin Targets(S)
    BY <1>1, AbandonFacts DEF Clean
  <2>2. \A u \in S : cmd[u].pc \in Moving => cmd[u].to # r
    BY <2>1 DEF Targets
  <2> QED BY <1>1, <2>1, <2>2, AbandonFacts DEF Clean
<1>2. \A r \in Roots : Clean(r) => disk'[r] = disk[r]
  BY AbandonStays DEF Clean
<1> QED BY <1>1, <1>2, PubFrame

LEMMA NextPub == TypeInv /\ KeyInv /\ IdentityInv /\ PubInv /\ [Next]_vars => PubInv'
<1> SUFFICES ASSUME TypeInv, KeyInv, IdentityInv, PubInv, [Next]_vars PROVE PubInv'
  OBVIOUS
<1>1. CASE Lock \/ UNCHANGED vars
  <2>1. UNCHANGED <<disk, cmd, partial, raced>>
    BY <1>1 DEF Lock, vars, history
  <2> QED BY <2>1, PubFrame DEF Clean
<1>2. ASSUME NEW s \in Slots, Begins(s) PROVE PubInv'
  <2>1. cmd[s].pc \notin Moving
    BY <1>2, BeginFacts DEF Moving
  <2> QED BY <1>2, <2>1, BeginFacts, CleanStays, PubFrame DEF SameFiles
<1>3. CASE Crash
  BY <1>3, AbandonPub DEF Crash
<1>4. ASSUME NEW s \in Slots, Fails(s) PROVE PubInv'
  BY <1>4, AbandonPub DEF Fails
<1> QED BY <1>1, <1>2, <1>3, <1>4, StepKinds, WritePub, WorkPub, CopyPub

LEMMA PubHolds ==
  ASSUME Patient
  PROVE  Spec => []PubInv
<1>1. Init => PubInv
  BY InitPub
<1>2. TypeInv /\ KeyInv /\ IdentityInv /\ PubInv /\ [Next]_vars => PubInv'
  BY NextPub
<1> QED BY <1>1, <1>2, IdentityHolds, PTL DEF Spec

\* The public half that can be published beside an identity is the half of that identity, in
\* every folder but those a move left unfinished or copied while it was being written, those
\* where two calls of identity_ensure were creating an identity together, and their copies:
\* one call alone writes identity.enc before identity.pub.json, and none writes it again.
THEOREM PublicStaysOurs ==
  ASSUME Patient
  PROVE  Spec => []PublicIsOurs
<1>1. PubInv => PublicIsOurs
  BY DEF PubInv, PubOK, Clean, PublicIsOurs, Running
<1> QED BY <1>1, PubHolds, PTL
-----------------------------------------------------------------------------
(* What a move has to bring.                                                *)

\* Nothing whole is lost from a folder, and the folder stays.
Endures(q) ==
  /\ WholeStays(q) /\ RowsStay(disk[q], disk'[q])
  /\ disk[q].made => disk'[q].made
HasKey(was, d) == Whole(was.manifest) => d.manifest = was.manifest
HasSecret(was, d) == Whole(was.enc) => d.enc = was.enc

\* A move in flight: its source still has what it had, what is copied is at the target, and
\* what is read of index.db had the rows.
MoverOK(s) ==
  cmd[s].pc \in Moving =>
    LET owed == cmd[s].owed
        was == owed.was
        from == disk[cmd[s].root]
        to == disk[cmd[s].to]
    IN /\ owed.from = cmd[s].root /\ cmd[s].to \notin raced
       /\ HasKey(was, from) /\ RowsStay(was, from)
       /\ owed.from \notin raced => HasSecret(was, from)
       /\ "manifest" \notin cmd[s].todo => HasKey(was, to)
       /\ "enc" \notin cmd[s].todo /\ owed.from \notin raced => HasSecret(was, to)
       /\ cmd[s].pc = "pages" => RowsStay(was, cmd[s].half)
       /\ "db" \notin cmd[s].todo /\ owed.steady => RowsStay(was, to)
       /\ cmd[s].pc # "copy" => to.made
\* A move that has answered: its target has what the source had, and is no target again.
ArrivedOK(m) ==
  LET was == m.owed.was
      to == disk[m.to]
  IN /\ HasKey(was, to)
     /\ m.owed.from \notin raced /\ Whole(was.enc) => to.enc = was.enc /\ m.to \notin raced
     /\ m.owed.steady => RowsStay(was, to)
     /\ to.made
     /\ \A s \in Slots : cmd[s].pc \in Moving => cmd[s].to # m.to
MovedOK == \A m \in moved : ArrivedOK(m)
\* Where identities were created there is a vault.
RacedOK == \A r \in raced : disk[r].made
MoveInv == RacedOK /\ MovedOK /\ \A s \in Slots : MoverOK(s)

\* Two commands are creating an identity together in a vault that had none.
RacedStep ==
  /\ raced \subseteq raced'
  /\ \A q \in raced' \ raced : q \in Roots /\ disk[q].made /\ ~Whole(disk[q].enc)

LEMMA MoverStays ==
  ASSUME NEW u \in Slots, MoverOK(u), raced \subseteq raced',
         cmd'[u].pc \in Moving =>
           /\ cmd[u].pc \in Moving /\ SameCopies(u) /\ SameLoad(u) /\ cmd[u].to \notin raced' \ raced
           /\ cmd[u].pc = "copy" => cmd'[u].pc = "copy"
           /\ cmd'[u].pc = "pages" => cmd[u].pc = "pages" /\ cmd'[u].half = cmd[u].half
           /\ \A q \in {cmd[u].root, cmd[u].to} : Endures(q)
  PROVE  MoverOK(u)'
<1> SUFFICES ASSUME cmd'[u].pc \in Moving PROVE MoverOK(u)'
  BY DEF MoverOK
<1> DEFINE was == cmd[u].owed.was
           q == cmd[u].root
           t == cmd[u].to
<1>1. /\ cmd[u].pc \in Moving /\ SameLoad(u) /\ cmd'[u].root = q /\ cmd'[u].to = t
      /\ cmd'[u].pc # "copy" => cmd[u].pc # "copy"
      /\ cmd'[u].pc = "pages" => cmd[u].pc = "pages" /\ cmd'[u].half = cmd[u].half
      /\ Endures(q) /\ Endures(t) /\ t \notin raced' \ raced
  BY DEF SameCopies
<1>2. MoverOK(u)
  OBVIOUS
<1>3. \A r \in {q, t} : /\ HasKey(was, disk[r]) => HasKey(was, disk'[r])
                        /\ r \notin raced /\ HasSecret(was, disk[r]) => HasSecret(was, disk'[r])
                        /\ RowsStay(was, disk[r]) => RowsStay(was, disk'[r])
  BY <1>1 DEF HasKey, HasSecret, Endures, WholeStays, RowsStay
<1> QED BY <1>1, <1>2, <1>3 DEF MoverOK, SameLoad, Endures

LEMMA ArrivedStays ==
  ASSUME NEW m, ArrivedOK(m), RacedStep, Endures(m.to),
         \A u \in Slots : cmd'[u].pc \in Moving => cmd'[u].to # m.to
  PROVE  ArrivedOK(m)'
<1> DEFINE was == m.owed.was
           d == disk[m.to]
           e == disk'[m.to]
<1>1. HasKey(was, e)
  BY DEF ArrivedOK, HasKey, Endures, WholeStays
<1>2. m.owed.from \notin raced' /\ Whole(was.enc) => e.enc = was.enc /\ m.to \notin raced'
  BY DEF ArrivedOK, Endures, WholeStays, RacedStep
<1>3. (m.owed.steady => RowsStay(was, e)) /\ e.made
  BY DEF ArrivedOK, Endures, RowsStay
<1> QED BY <1>1, <1>2, <1>3 DEF ArrivedOK

LEMMA RacedStays ==
  ASSUME TypeInv, RacedOK, RacedStep, \A q \in Roots : disk[q].made => disk'[q].made
  PROVE  RacedOK'
BY DEF RacedOK, RacedStep, TypeInv, HistoryOK

\* A step that moves nothing and loses nothing.
LEMMA MoveFrame ==
  ASSUME TypeInv, MoveInv, moved' = moved, RacedStep, \A q \in Roots : Endures(q),
         \A u \in Slots : cmd'[u].pc \in Moving =>
           /\ cmd[u].pc \in Moving /\ SameCopies(u) /\ SameLoad(u) /\ cmd[u].to \notin raced' \ raced
           /\ cmd[u].pc = "copy" => cmd'[u].pc = "copy"
           /\ cmd'[u].pc = "pages" => cmd[u].pc = "pages" /\ cmd'[u].half = cmd[u].half
  PROVE  MoveInv'
<1>1. ASSUME NEW u \in Slots PROVE MoverOK(u)'
  <2>1. cmd[u].pc \in Moving => cmd[u].root \in Roots /\ cmd[u].to \in Roots
    BY DEF TypeInv, CommandsOK, CommandOK, Moving, Busy, PCs
  <2> QED BY <2>1, MoverStays DEF MoveInv, RacedStep
<1>2. MovedOK'
  <2>1. ASSUME NEW m \in moved PROVE ArrivedOK(m)'
    <3>1. m.to \in Roots /\ ArrivedOK(m)
      BY DEF TypeInv, HistoryOK, MoveInv, MovedOK
    <3>2. \A u \in Slots : cmd'[u].pc \in Moving => cmd'[u].to # m.to
      BY <3>1 DEF ArrivedOK, SameCopies
    <3> QED BY <3>1, <3>2, ArrivedStays
  <2> QED BY <2>1 DEF MovedOK
<1>3. RacedOK'
  BY RacedStays DEF MoveInv, Endures
<1> QED BY <1>1, <1>2, <1>3 DEF MoveInv

LEMMA BeginEndures ==
  ASSUME TypeInv, NEW s \in Slots, Begins(s)
  PROVE  /\ \A q \in Roots : Endures(q)
         /\ RacedStep
<1>1. \A r \in Roots : Create(s, r) => \A q \in Roots : disk[q].made => disk'[q].made
  BY DEF Create, TypeInv, DiskOK, Dir
<1>2. (\E r \in Roots : Create(s, r)) \/ UNCHANGED disk
  BY DEF Begins, Unlock, Move, Ensure, FileCommand, Snapshot
<1>3. \A q \in Roots : Endures(q)
  BY <1>1, <1>2, BeginFacts DEF Endures, WholeStays, SameFiles
<1>4. RacedStep
  BY BeginFacts, WholeFacts, VaultFacts DEF RacedStep
<1> QED BY <1>3, <1>4

LEMMA WriteEndures ==
  ASSUME TypeInv, KeyInv, IdentityInv, NEW s \in Slots, Writes(s)
  PROVE  \A q \in Roots : Endures(q)
<1>1. cmd[s].root \in Roots /\ disk \in [Roots -> Dir]
  BY AtFacts, PCFacts DEF Writes, WriteManifest, WriteIdentity, WritePublic, At, TypeInv, DiskOK
<1>2. \A q \in Roots : disk'[q].made = disk[q].made
  BY <1>1 DEF Writes, WriteManifest, WriteIdentity, WritePublic, Dir
<1> QED BY <1>2, WriteStays DEF Endures, Writes

LEMMA WorkEndures ==
  ASSUME TypeInv, NEW s \in Slots, Works(s) \/ Open(s)
  PROVE  \A q \in Roots : Endures(q) \/ ((CopyIndex(s) \/ IndexCopied(s)) /\ q = cmd[s].to)
<1>1. CASE Open(s)
  BY <1>1 DEF Open, Endures, WholeStays, RowsStay
<1>2. CASE Works(s)
  <2>1. cmd[s].root \in Roots /\ disk \in [Roots -> Dir]
    BY <1>2, AtFacts, PCFacts
       DEF Works, MakeTables, KeepIdentity, Insert, Close, Fold, CopyIndex, IndexCopied, Strip, ClearMemory,
           Backup, Fill, List, Rotate, At, TypeInv, DiskOK
  <2>2. \A q \in Roots : disk[q].made => disk'[q].made
    <3>1. CASE MakeTables(s) \/ Insert(s) \/ Backup(s) \/ Rotate(s)
      BY <2>1, <3>1 DEF MakeTables, Insert, Backup, Rotate, Dir
    <3>2. CASE Close(s) \/ Fold(s)
      BY <2>1, <3>2 DEF Close, Fold, Folded, Dir
    <3>3. CASE Strip(s)
      BY <2>1, <3>3 DEF Strip, Dir
    <3>4. CASE KeepIdentity(s) \/ ClearMemory(s) \/ Fill(s) \/ List(s)
      BY <3>4 DEF KeepIdentity, ClearMemory, Fill, List
    <3>5. CASE CopyIndex(s) \/ IndexCopied(s)
      BY <3>5, IndexFacts
    <3> QED BY <1>2, <3>1, <3>2, <3>3, <3>4, <3>5 DEF Works
  <2> QED BY <1>2, <2>2, WorkFiles, WorkStays DEF Endures, WholeStays, SameFiles
<1> QED BY <1>1, <1>2

\* What breaks off removes no folder.
LEMMA AbandonMade ==
  ASSUME TypeInv, NEW S \in SUBSET Slots, Abandon(S)
  PROVE  \A q \in Roots : disk[q].made => disk'[q].made
BY AbandonFacts DEF LosesPart

LEMMA InitMove == Init => MoveInv
BY IdleOK DEF Init, MoveInv, MovedOK, RacedOK, MoverOK, Moving

LEMMA CallMove ==
  ASSUME TypeInv, KeyInv, MoveInv, NEW s \in Slots, Begins(s)
  PROVE  MoveInv'
<1>1. CASE \E t \in Roots : Move(s, t)
  <2> PICK t \in Roots : Move(s, t)
    BY <1>1
  <2> DEFINE c == MoveCall(t)
             r == vault.root
  <2>1. /\ cmd'[s] = c /\ \A u \in Slots \ {s} : cmd'[u] = cmd[u]
        /\ c.root = r /\ c.to = t /\ c.todo = Parts /\ c.pc = "copy"
        /\ c.owed = [from |-> r, was |-> Contents(disk[r]), acked |-> acked[r], steady |-> TRUE]
    BY MoveFacts
  <2>2. disk' = disk /\ moved' = moved /\ raced' = raced /\ ~disk[t].made
    BY DEF Move, history
  <2> HIDE DEF c
  <2>3. c.owed.from = r /\ c.owed.was = Contents(disk[r])
    BY <2>1
  <2>4. MoverOK(s)'
    <3>1. t \notin raced
      BY <2>2 DEF MoveInv, RacedOK
    <3>2. LET was == Contents(disk[r])
          IN HasKey(was, disk[r]) /\ HasSecret(was, disk[r]) /\ RowsStay(was, disk[r])
      BY DEF Contents, HasKey, HasSecret, RowsStay
    <3> QED BY <2>1, <2>2, <2>3, <3>1, <3>2 DEF MoverOK, Parts
  <2>5. ASSUME NEW u \in Slots \ {s} PROVE MoverOK(u)'
    BY <2>1, <2>2, MoverStays DEF MoveInv, SameCopies, SameLoad, Endures, WholeStays, RowsStay
  <2>6. MovedOK' /\ RacedOK'
    BY <2>1, <2>2 DEF MoveInv, MovedOK, ArrivedOK, RacedOK
  <2> QED BY <2>4, <2>5, <2>6 DEF MoveInv
<1>2. CASE ~\E t \in Roots : Move(s, t)
  <2>1. cmd'[s].pc \notin Moving
    <3>1. \A kind, c : Call(s, kind, c) => cmd'[s] = c
      BY DEF Call, TypeInv, CommandsOK
    <3>2. ASSUME NEW r \in Roots, Create(s, r) \/ Unlock(s, r) PROVE cmd'[s].pc \notin Moving
      <4>1. \A k : /\ [Idle EXCEPT !.pc = "manifest", !.root = r, !.key = k].pc = "manifest"
                   /\ [Idle EXCEPT !.pc = "open", !.root = r, !.key = k].pc = "open"
        BY DEF Idle
      <4> QED BY <3>1, <3>2, <4>1 DEF Create, Unlock, Moving
    <3>3. ASSUME Ensure(s) PROVE cmd'[s].pc \notin Moving
      BY <3>1, <3>3, EnsureFacts DEF Moving
    <3>4. ASSUME FileCommand(s) \/ Snapshot(s) PROVE cmd'[s].pc \notin Moving
      <4>1. \A r, ts : /\ [Idle EXCEPT !.pc = "row", !.root = r].pc = "row"
                       /\ [Idle EXCEPT !.pc = "backup", !.root = r, !.ts = ts].pc = "backup"
        BY DEF Idle
      <4>2. CASE FileCommand(s)
        BY <3>1, <4>1, <4>2 DEF FileCommand, Moving
      <4>3. CASE Snapshot(s)
        <5> DEFINE c == [Idle EXCEPT !.pc = "backup", !.root = vault.root, !.ts = now']
        <5>1. Call(s, "snapshot", c) /\ c.pc = "backup"
          BY <4>1, <4>3 DEF Snapshot
        <5> HIDE DEF c
        <5> QED BY <3>1, <5>1 DEF Moving
      <4> QED BY <3>4, <4>2, <4>3
    <3> QED BY <1>2, <3>2, <3>3, <3>4 DEF Begins
  <2>2. \A u \in Slots \ {s} : cmd[u].pc \in Moving => cmd[u].to \notin raced' \ raced
    BY BeginFacts DEF KeyInv, TargetOK
  <2> QED BY <2>1, <2>2, BeginFacts, BeginEndures, MoveFrame DEF SameCopies, SameLoad
<1> QED BY <1>1, <1>2

\* A move goes on: only its target changes.
LEMMA PartMove ==
  ASSUME TypeInv, KeyInv, MoveInv, NEW s \in Slots, cmd[s].pc \in Moving, MoverOK(s)',
         moved' = moved, raced' = raced, cmd'[s].to = cmd[s].to,
         \A u \in Slots \ {s} : cmd'[u] = cmd[u],
         \A q \in Roots \ {cmd[s].to} : disk'[q] = disk[q],
         disk[cmd[s].to].made => disk'[cmd[s].to].made
  PROVE  MoveInv'
<1>1. \A q \in Roots \ {cmd[s].to} : Endures(q)
  BY DEF Endures, WholeStays, RowsStay
<1>2. ASSUME NEW u \in Slots \ {s} PROVE MoverOK(u)'
  <2>1. cmd[u].pc \in Moving => \A q \in {cmd[u].root, cmd[u].to} : q \in Roots \ {cmd[s].to}
    BY DEF KeyInv, TargetOK, TypeInv, CommandsOK, CommandOK, Moving, Busy, PCs
  <2> QED BY <1>1, <2>1, MoverStays DEF MoveInv, SameCopies, SameLoad
<1>3. ASSUME NEW m \in moved PROVE ArrivedOK(m)'
  <2>1. m.to \in Roots \ {cmd[s].to} /\ ArrivedOK(m)
    BY DEF MoveInv, MovedOK, ArrivedOK, TypeInv, HistoryOK
  <2>2. \A u \in Slots : cmd'[u].pc \in Moving => cmd'[u].to # m.to
    BY <2>1 DEF ArrivedOK
  <2> QED BY <1>1, <2>1, <2>2, ArrivedStays DEF RacedStep
<1>4. RacedOK'
  <2>1. \A q \in Roots : disk[q].made => disk'[q].made
    BY <1>1 DEF Endures
  <2> QED BY <2>1, RacedStays DEF RacedStep, MoveInv
<1> QED BY <1>2, <1>3, <1>4 DEF MoveInv, MovedOK

LEMMA CopyMove ==
  ASSUME TypeInv, KeyInv, MoveInv, NEW s \in Slots, Copy(s)
  PROVE  MoveInv'
<1>1. /\ cmd[s].pc \in Moving /\ moved' = moved /\ raced' = raced /\ cmd[s].to \in Roots
      /\ \A u \in Slots \ {s} : cmd'[u] = cmd[u]
      /\ \A q \in Roots \ {cmd[s].to} : disk'[q] = disk[q]
  BY CopyFacts DEF Copy, history, Moving
<1> PICK f \in cmd[s].todo :
           /\ f \in Parts \ {"db"}
           /\ TakesPart(f, disk'[cmd[s].to], disk[cmd[s].to], disk[cmd[s].root])
           /\ cmd'[s].todo = cmd[s].todo \ {f} /\ cmd'[s].pc \in {"copy", "strip"}
           /\ cmd'[s].root = cmd[s].root /\ cmd'[s].to = cmd[s].to
           /\ cmd'[s].key = cmd[s].key /\ cmd'[s].owed = cmd[s].owed
  BY CopyFacts
<1>2. MoverOK(s)'
  <2>1. disk'[cmd[s].root] = disk[cmd[s].root]
    BY CopyFacts
  <2>2. MoverOK(s)
    BY DEF MoveInv
  <2> QED BY <1>1, <2>1, <2>2, WholeFacts DEF MoverOK, TakesPart, HasKey, HasSecret, RowsStay
<1>3. disk'[cmd[s].to].made
  BY DEF TakesPart
<1> QED BY <1>1, <1>2, <1>3, PartMove

\* What is in index.db when its copy begins has the rows; the copy is that, or not steady.
LEMMA IndexMove ==
  ASSUME TypeInv, KeyInv, MoveInv, NEW s \in Slots, CopyIndex(s) \/ IndexCopied(s)
  PROVE  MoveInv'
<1> DEFINE was == cmd[s].owed.was
           from == disk[cmd[s].root]
           d == disk[cmd[s].to]
           e == disk'[cmd[s].to]
<1>1. /\ cmd[s].pc \in Moving /\ moved' = moved /\ raced' = raced
      /\ disk'[cmd[s].root] = from /\ cmd'[s].root = cmd[s].root /\ cmd'[s].to = cmd[s].to
      /\ \A u \in Slots \ {s} : cmd'[u] = cmd[u]
      /\ \A q \in Roots \ {cmd[s].to} : disk'[q] = disk[q]
      /\ e.manifest = d.manifest /\ e.enc = d.enc /\ (d.made => e.made)
      /\ cmd[s].owed \in Owed
  <2>1. moved' = moved /\ raced' = raced
    BY DEF CopyIndex, IndexCopied, history
  <2>2. cmd[s].pc \in {"copy", "pages"} => cmd[s].pc \in Moving
    BY DEF Moving
  <2>3. cmd[s].root \in Roots \ {cmd[s].to}
    BY IndexFacts
  <2>4. cmd'[s].root = cmd[s].root /\ cmd'[s].to = cmd[s].to
    BY IndexFacts DEF SameCopies
  <2> QED BY <2>1, <2>2, <2>3, <2>4, IndexFacts
<1>2. MoverOK(s)
  BY DEF MoveInv
<1>3. CASE CopyIndex(s)
  <2>1. /\ cmd'[s].pc = "pages" /\ SameLoad(s) /\ cmd'[s].half = Pages(from)
        /\ "db" \in cmd[s].todo
    BY <1>3, IndexFacts
  <2>2. RowsStay(was, Pages(from))
    BY <1>1, <1>2 DEF MoverOK, RowsStay, Pages
  <2>3. e.made
    <3>1. cmd[s].to \in Roots /\ disk \in [Roots -> Dir]
      BY IndexFacts DEF TypeInv, DiskOK
    <3>2. e = [CutOff("db", d) EXCEPT !.made = TRUE] /\ CutOff("db", d) \in Dir
      BY <1>3, <3>1, CopiedDir DEF CopyIndex, Parts
    <3> QED BY <3>2, MadeDir
  <2>4. MoverOK(s)'
    BY <1>1, <1>2, <2>1, <2>2, <2>3 DEF MoverOK, SameLoad, HasKey, HasSecret
  <2> QED BY <1>1, <2>4, PartMove
<1>4. CASE IndexCopied(s)
  <2> DEFINE owed == [cmd[s].owed EXCEPT !.steady = Steady(s)]
  <2>1. /\ cmd[s].pc = "pages" /\ cmd'[s].pc \in {"copy", "strip"}
        /\ cmd'[s].todo = cmd[s].todo \ {"db"} /\ cmd'[s].owed = owed
        /\ Steady(s) => e.db = cmd[s].half.db /\ e.tables = cmd[s].half.tables
    BY <1>4, IndexFacts
  <2>2. owed.from = cmd[s].owed.from /\ owed.was = was /\ (owed.steady => Steady(s))
    BY <1>1 DEF Owed
  <2> HIDE DEF owed
  <2>3. owed.steady => RowsStay(was, e)
    BY <1>1, <1>2, <2>1, <2>2 DEF MoverOK, RowsStay
  <2>4. e.made
    BY <1>1, <1>2, <2>1 DEF MoverOK
  <2>5. MoverOK(s)'
    BY <1>1, <1>2, <2>1, <2>2, <2>3, <2>4 DEF MoverOK, HasKey, HasSecret
  <2> QED BY <1>1, <2>5, PartMove
<1> QED BY <1>3, <1>4

LEMMA ClearMove ==
  ASSUME TypeInv, KeyInv, MoveInv, NEW s \in Slots, ClearMemory(s)
  PROVE  MoveInv'
<1>1. /\ cmd[s].pc = "clear" /\ cmd[s].pc \in Moving /\ cmd[s].todo = {} /\ disk' = disk
      /\ raced' = raced
      /\ moved' = moved \cup {[to |-> cmd[s].to, owed |-> cmd[s].owed]}
  BY DEF ClearMemory, At, TypeInv, CommandsOK, CommandOK, Moving
<1>2. cmd'[s].pc \notin Moving /\ \A u \in Slots \ {s} : cmd'[u] = cmd[u]
  BY ReturnStep DEF ClearMemory, TypeInv, Moving
<1>3. ASSUME NEW u \in Slots PROVE MoverOK(u)'
  BY <1>1, <1>2 DEF MoveInv, MoverOK
<1>4. ASSUME NEW m \in moved' PROVE ArrivedOK(m)'
  <2>1. CASE m \in moved
    <3>1. ArrivedOK(m)
      BY <2>1 DEF MoveInv, MovedOK
    <3> QED BY <1>1, <1>2, <3>1 DEF ArrivedOK
  <2>2. CASE m = [to |-> cmd[s].to, owed |-> cmd[s].owed]
    <3>1. m.to = cmd[s].to /\ m.owed = cmd[s].owed
      BY <2>2
    <3>2. MoverOK(s) /\ TargetOK(s)
      BY DEF MoveInv, KeyInv
    <3>3. \A u \in Slots \ {s} : cmd[u].pc \in Moving => cmd[u].to # m.to
      BY <1>1, <3>1, <3>2 DEF TargetOK
    <3> QED BY <1>1, <1>2, <3>1, <3>2, <3>3 DEF MoverOK, ArrivedOK, HasKey, HasSecret
  <2> QED BY <1>1, <2>1, <2>2
<1>5. MovedOK' /\ RacedOK'
  BY <1>1, <1>4 DEF MovedOK, MoveInv, RacedOK
<1> QED BY <1>3, <1>5 DEF MoveInv

LEMMA WorkMove ==
  ASSUME TypeInv, KeyInv, MoveInv, NEW s \in Slots, Works(s) \/ Open(s)
  PROVE  MoveInv'
<1>1. CASE ClearMemory(s)
  BY <1>1, ClearMove
<1>2. CASE CopyIndex(s) \/ IndexCopied(s)
  BY <1>2, IndexMove
<1>3. CASE ~ClearMemory(s) /\ ~CopyIndex(s) /\ ~IndexCopied(s)
  <2>1. moved' = moved /\ raced' = raced /\ RacedStep
    <3>1. moved' = moved
      BY <1>3 DEF Works, Open, MakeTables, KeepIdentity, Insert, Close, Fold, Strip, Backup, Fill, List,
                  Rotate, Written, history
    <3>2. raced' = raced
      BY WorkMemory DEF Open, history
    <3> QED BY <3>1, <3>2 DEF RacedStep
  <2>2. \A u \in Slots \ {s} : cmd'[u] = cmd[u]
    BY WorkCommands, ReturnStep DEF Open, TypeInv
  <2>3. cmd'[s].pc \in Moving => SameCopies(s) /\ SameLoad(s) /\ cmd[s].pc = "strip" /\ cmd'[s].pc = "clear"
    <3>1. Strip(s) => Goto(s, "clear") /\ cmd[s].pc = "strip"
      BY DEF Strip, At
    <3>2. ~Strip(s) => cmd'[s].pc \notin Moving
      <4>1. Open(s) => cmd'[s].pc = "idle"
        BY ReturnStep DEF Open, TypeInv
      <4>2. Works(s) /\ ~Strip(s) => cmd[s].pc \notin Moving
        BY <1>3 DEF Works, MakeTables, KeepIdentity, Insert, Close, Fold, Backup, Fill, List, Rotate, At, Moving
      <4>3. Works(s) => cmd'[s].pc = "idle" \/ Turns(cmd[s].pc, cmd'[s].pc)
        BY WorkCommands
      <4> QED BY <4>1, <4>2, <4>3 DEF Turns, Moving
    <3> QED BY <3>1, <3>2, GotoCopies
  <2>4. \A q \in Roots : Endures(q)
    BY <1>3, WorkEndures
  <2> QED BY <2>1, <2>2, <2>3, <2>4, MoveFrame DEF SameCopies, SameLoad, Moving, RacedStep
<1> QED BY <1>1, <1>2, <1>3

LEMMA WriteMove ==
  ASSUME TypeInv, KeyInv, IdentityInv, MoveInv, NEW s \in Slots, Writes(s)
  PROVE  MoveInv'
<1>1. moved' = moved /\ raced' = raced
  BY DEF Writes, WriteManifest, WriteIdentity, WritePublic, Written, history
<1>2. cmd'[s].pc \notin Moving /\ \A u \in Slots \ {s} : cmd'[u] = cmd[u]
  BY GotoCopies DEF Writes, WriteManifest, WriteIdentity, WritePublic, Moving
<1> QED BY <1>1, <1>2, WriteEndures, MoveFrame DEF SameCopies, SameLoad, RacedStep

LEMMA AbandonMove ==
  ASSUME TypeInv, KeyInv, IdentityInv, MoveInv, NEW S \in SUBSET Slots, Abandon(S),
         moved' = moved, raced' = raced
  PROVE  MoveInv'
<1>1. \A u \in Slots : cmd'[u].pc \in Moving => cmd'[u] = cmd[u] /\ u \notin S
  BY AbandonFacts DEF Moving
<1>2. \A q \in Roots : (\A u \in S : cmd[u].pc \in Moving => cmd[u].to # q) => disk'[q] = disk[q]
  BY AbandonStays
<1>3. ASSUME NEW u \in Slots PROVE MoverOK(u)'
  <2>1. ASSUME cmd'[u].pc \in Moving, NEW q \in {cmd[u].root, cmd[u].to} PROVE disk'[q] = disk[q]
    <3>1. q \in Roots /\ u \notin S /\ cmd[u].pc \in Moving
      BY <1>1, <2>1 DEF TypeInv, CommandsOK, CommandOK, Moving, Busy, PCs
    <3>2. \A v \in S : cmd[v].pc \in Moving => cmd[v].to # q
      BY <2>1, <3>1 DEF KeyInv, TargetOK, Moving, Busy, PCs
    <3> QED BY <1>2, <3>1, <3>2
  <2> QED BY <1>1, <2>1, MoverStays DEF MoveInv, SameCopies, SameLoad, Endures, WholeStays, RowsStay
<1>4. ASSUME NEW m \in moved PROVE ArrivedOK(m)'
  <2>1. ArrivedOK(m) /\ disk'[m.to] = disk[m.to]
    BY <1>2 DEF MoveInv, MovedOK, ArrivedOK, TypeInv, HistoryOK
  <2> QED BY <1>1, <2>1 DEF ArrivedOK
<1>5. RacedOK'
  BY AbandonMade DEF MoveInv, RacedOK, TypeInv, HistoryOK
<1> QED BY <1>3, <1>4, <1>5 DEF MoveInv, MovedOK

LEMMA NextMove == TypeInv /\ KeyInv /\ IdentityInv /\ MoveInv /\ [Next]_vars => MoveInv'
<1> SUFFICES ASSUME TypeInv, KeyInv, IdentityInv, MoveInv, [Next]_vars PROVE MoveInv'
  OBVIOUS
<1>1. CASE Lock \/ UNCHANGED vars
  <2>1. UNCHANGED <<disk, cmd, moved, raced>>
    BY <1>1 DEF Lock, vars, history
  <2> QED BY <2>1, MoveFrame DEF SameCopies, SameLoad, Endures, WholeStays, RowsStay, RacedStep
<1>2. CASE Crash
  BY <1>2, AbandonMove DEF Crash
<1>3. ASSUME NEW s \in Slots, Fails(s) PROVE MoveInv'
  BY <1>3, AbandonMove DEF Fails
<1> QED BY <1>1, <1>2, <1>3, StepKinds, CallMove, WriteMove, WorkMove, CopyMove

LEMMA MovesHold ==
  ASSUME Patient
  PROVE  Spec => []MoveInv
<1>1. Init => MoveInv
  BY InitMove
<1>2. TypeInv /\ KeyInv /\ IdentityInv /\ MoveInv /\ [Next]_vars => MoveInv'
  BY NextMove
<1> QED BY <1>1, <1>2, IdentityHolds, PTL DEF Spec

\* A vault that sync_move_vault has moved is whole at its new place, whatever ran while its files
\* were copied and since, and whatever crashed or failed: the key and, unless two commands were
\* creating one, the identity, and every row index.db had when the move began, unless it
\* changed, or a command was folding its log, between the beginning and the end of its copy.
THEOREM MoveBringsAll ==
  ASSUME Patient
  PROVE  Spec => []MoveComplete
<1>1. MoveInv => MoveComplete
  BY DEF MoveInv, MovedOK, ArrivedOK, MoveComplete, HasKey, RowsStay
<1> QED BY <1>1, MovesHold, PTL
-----------------------------------------------------------------------------
(* Backups and their rotation.                                              *)

Past(X) == \A x \in X : x <= now
\* Of the backups X of r, those no snapshot of r has begun (a move brought them) are older
\* than those begun, and than those about to be.
Older(r, X) ==
  \A x \in X \ begun[r] :
    /\ \A b \in begun[r] : x <= b
    /\ \A u \in Slots : cmd[u].pc = "backup" /\ cmd[u].root = r => x <= cmd[u].ts
SnapshotOK(s) ==
  /\ cmd[s].pc = "backup" => cmd[s].ts <= now
  /\ cmd[s].pc = "fill" => cmd[s].ts \in begun[cmd[s].root]
  /\ cmd[s].pc = "rotate" => Past(cmd[s].old) /\ Older(cmd[s].root, cmd[s].old)
  /\ cmd[s].pc \in Moving => begun[cmd[s].to] = {}
FolderOK(r) == Past(disk[r].backups) /\ Older(r, disk[r].backups)

Newer(B, b) == {x \in B : x > b}
\* Written or broken off, the newest Keep of the backups begun are there.
KeptOK(r) ==
  /\ taken[r] \subseteq begun[r]
  /\ \A b \in begun[r] : Cardinality(Newer(begun[r], b)) < Keep => b \in disk[r].backups
BackInv == (\A r \in Roots : KeptOK(r) /\ FolderOK(r)) /\ (\A s \in Slots : SnapshotOK(s))

LEMMA NewerCount ==
  ASSUME NEW A \in SUBSET Times, NEW B \in SUBSET Times, NEW b, Newer(A, b) \subseteq Newer(B, b)
  PROVE  /\ Cardinality(Newer(A, b)) \in Nat /\ Cardinality(Newer(B, b)) \in Nat
         /\ Cardinality(Newer(A, b)) <= Cardinality(Newer(B, b))
<1>1. IsFiniteSet(Times)
  BY ConstantFacts, FS_Interval DEF Times
<1>2. IsFiniteSet(Newer(B, b))
  <2>1. Newer(B, b) \subseteq Times
    BY DEF Newer
  <2> QED BY <1>1, <2>1, FS_Subset
<1> QED BY <1>2, FS_Subset, FS_CardinalityType

\* A snapshot or a rotation that is under way stays so, or ends; a target stays one.
SameSnapshot(u) ==
  /\ \A pc \in {"backup", "fill"} :
       cmd'[u].pc = pc => cmd[u].pc = pc /\ cmd'[u].root = cmd[u].root /\ cmd'[u].ts = cmd[u].ts
  /\ cmd'[u].pc = "rotate" => cmd[u].pc = "rotate" /\ cmd'[u].root = cmd[u].root /\ cmd'[u].old = cmd[u].old
  /\ cmd'[u].pc \in Moving => cmd[u].pc \in Moving /\ cmd'[u].to = cmd[u].to

LEMMA SnapshotSame ==
  ASSUME NEW u \in Slots,
         \/ cmd'[u] = cmd[u]
         \/ cmd'[u].pc \notin {"backup", "fill", "rotate"} \cup Moving
         \/ cmd[u].pc \in Moving /\ cmd'[u].pc \in Moving /\ cmd'[u].to = cmd[u].to
  PROVE  SameSnapshot(u)
BY DEF SameSnapshot, Moving

LEMMA BackFrame ==
  ASSUME TypeInv, BackInv, begun' = begun,
         taken' = taken \/ (\A r \in Roots : taken'[r] \subseteq begun[r]),
         now' \in Times, now <= now',
         \A q \in Roots : disk'[q].backups = disk[q].backups,
         \A u \in Slots : SameSnapshot(u)
  PROVE  BackInv'
<1>1. now \in Nat /\ now' \in Nat /\ \A x \in Times : x \in Nat
  BY ConstantFacts DEF TypeInv, ClockOK, Times
<1>2. \A X \in SUBSET Times : Past(X) => Past(X)'
  BY <1>1 DEF Past
<1>3. \A r : \A X \in SUBSET Times : Older(r, X) => Older(r, X)'
  BY DEF Older, SameSnapshot
<1>4. ASSUME NEW r \in Roots PROVE KeptOK(r)'
  BY DEF BackInv, KeptOK, Newer
<1>5. ASSUME NEW r \in Roots PROVE FolderOK(r)'
  <2>1. disk[r].backups \in SUBSET Times
    BY DEF TypeInv, DiskOK, Dir, Times
  <2> QED BY <1>2, <1>3, <2>1 DEF BackInv, FolderOK, Past, Older
<1>6. ASSUME NEW u \in Slots PROVE SnapshotOK(u)'
  <2>1. cmd[u].old \in SUBSET Times /\ (cmd[u].pc = "backup" => cmd[u].ts \in Times)
    BY DEF TypeInv, CommandsOK, CommandOK, Command
  <2>2. cmd'[u].pc = "backup" => cmd'[u].ts <= now'
    BY <1>1, <2>1 DEF BackInv, SnapshotOK, SameSnapshot
  <2>3. cmd'[u].pc = "rotate" => Past(cmd[u].old)' /\ Older(cmd[u].root, cmd[u].old)'
    BY <1>2, <1>3, <2>1 DEF BackInv, SnapshotOK, SameSnapshot, Past, Older
  <2> QED BY <2>2, <2>3 DEF BackInv, SnapshotOK, SameSnapshot, Past, Older
<1> QED BY <1>4, <1>5, <1>6 DEF BackInv

LEMMA InitBack == Init => BackInv
BY IdleOK DEF Init, BackInv, KeptOK, FolderOK, SnapshotOK, Past, Older, Empty, Moving

\* A snapshot is called: it will be the newest.
LEMMA SnapshotBack ==
  ASSUME TypeInv, BackInv, NEW s \in Slots, Snapshot(s)
  PROVE  BackInv'
<1> DEFINE c == [Idle EXCEPT !.pc = "backup", !.root = vault.root, !.ts = now']
<1>1. Call(s, "snapshot", c)
  BY DEF Snapshot
<1>2. c.pc = "backup" /\ c.root = vault.root /\ c.ts = now'
  BY DEF Idle
<1> HIDE DEF c
<1>3. cmd'[s].pc = "backup" /\ cmd'[s].root = vault.root /\ cmd'[s].ts = now'
  BY <1>1, <1>2 DEF Call, TypeInv, CommandsOK
<1>4. /\ \A u \in Slots \ {s} : cmd'[u] = cmd[u]
      /\ begun' = begun /\ taken' = taken /\ now' \in Times /\ now \in Times /\ now <= now'
      /\ \A q \in Roots : disk'[q].backups = disk[q].backups
  BY BeginFacts DEF Begins, TypeInv, ClockOK
<1>5. now \in Nat /\ now' \in Nat /\ \A x \in Times : x \in Nat
  BY <1>4 DEF Times
<1>6. ASSUME NEW X \in SUBSET Times, Past(X)
      PROVE  /\ Past(X)'
             /\ \A r : Older(r, X) =>
                  \A x \in X \ begun'[r] :
                    /\ \A b \in begun'[r] : x <= b
                    /\ \A u \in Slots : cmd'[u].pc = "backup" /\ cmd'[u].root = r => x <= cmd'[u].ts
  <2>1. \A x \in X : x \in Nat /\ x <= now /\ x <= now'
    BY <1>4, <1>5, <1>6 DEF Past
  <2> QED BY <1>3, <1>4, <2>1 DEF Past, Older
<1>7. ASSUME NEW r \in Roots PROVE KeptOK(r)' /\ FolderOK(r)'
  <2>1. disk[r].backups \in SUBSET Times
    BY DEF TypeInv, DiskOK, Dir, Times
  <2>2. FolderOK(r)'
    BY <1>4, <1>6, <2>1 DEF BackInv, FolderOK, Past, Older
  <2>3. KeptOK(r)'
    BY <1>4 DEF BackInv, KeptOK, Newer
  <2> QED BY <2>2, <2>3
<1>8. ASSUME NEW u \in Slots PROVE SnapshotOK(u)'
  <2>1. CASE u = s
    BY <1>3, <1>5, <2>1 DEF SnapshotOK, Moving
  <2>2. CASE u # s
    <3>1. SnapshotOK(u) /\ cmd'[u] = cmd[u] /\ cmd[u].old \in SUBSET Times
      BY <1>4, <2>2 DEF BackInv, TypeInv, CommandsOK, CommandOK, Command
    <3>2. cmd[u].pc = "backup" => cmd[u].ts \in Nat
      BY <1>5 DEF TypeInv, CommandsOK, CommandOK
    <3>3. cmd[u].pc = "backup" => cmd[u].ts <= now'
      BY <1>4, <1>5, <3>1, <3>2 DEF SnapshotOK
    <3>4. cmd[u].pc = "rotate" => Past(cmd[u].old)' /\ Older(cmd[u].root, cmd[u].old)'
      BY <1>6, <3>1 DEF SnapshotOK, Past, Older
    <3> QED BY <1>4, <3>1, <3>3, <3>4 DEF SnapshotOK, Past, Older
  <2> QED BY <2>1, <2>2
<1> QED BY <1>7, <1>8 DEF BackInv

LEMMA CallBack ==
  ASSUME TypeInv, BackInv, NEW s \in Slots, Begins(s)
  PROVE  BackInv'
<1>1. /\ \A u \in Slots \ {s} : cmd'[u] = cmd[u]
      /\ begun' = begun /\ taken' = taken /\ now' \in Times /\ now <= now'
      /\ \A q \in Roots : disk'[q].backups = disk[q].backups
  BY BeginFacts
<1>2. \A u \in Slots \ {s} : SameSnapshot(u)
  BY <1>1, SnapshotSame
<1>3. CASE cmd'[s].pc \notin {"backup", "fill", "rotate"} \cup Moving
  BY <1>1, <1>2, <1>3, SnapshotSame, BackFrame
<1>4. ASSUME NEW t \in Roots, Move(s, t) PROVE BackInv'
  <2>1. cmd'[s].pc = "copy" /\ cmd'[s].to = t
    BY <1>4, MoveFacts
  <2>2. begun[t] = {} /\ now' = now
    BY <1>4 DEF Move, TypeInv, MadeOK
  <2>3. \A X : /\ Past(X) => Past(X)'
               /\ \A r : Older(r, X) => Older(r, X)'
    BY <1>1, <2>1, <2>2 DEF Past, Older
  <2>4. ASSUME NEW r \in Roots PROVE KeptOK(r)' /\ FolderOK(r)'
    <3>1. KeptOK(r)'
      BY <1>1 DEF BackInv, KeptOK, Newer
    <3>2. FolderOK(r)
      BY DEF BackInv
    <3>3. Past(disk[r].backups)' /\ Older(r, disk[r].backups)'
      BY <1>1, <2>1, <2>2, <3>2 DEF FolderOK, Past, Older
    <3> QED BY <3>1, <3>3 DEF FolderOK
  <2>5. ASSUME NEW u \in Slots PROVE SnapshotOK(u)'
    <3>1. CASE u = s
      BY <1>1, <2>1, <2>2, <3>1 DEF SnapshotOK
    <3>2. CASE u # s
      <4>1. SnapshotOK(u) /\ cmd'[u] = cmd[u]
        BY <1>1, <3>2 DEF BackInv
      <4> QED BY <1>1, <2>2, <2>3, <4>1 DEF SnapshotOK, Past, Older
    <3> QED BY <3>1, <3>2
  <2> QED BY <2>4, <2>5 DEF BackInv
<1>5. \A kind, c : Call(s, kind, c) => cmd'[s] = c
  BY DEF Call, TypeInv, CommandsOK
<1>6. ASSUME NEW r \in Roots, Create(s, r) \/ Unlock(s, r)
      PROVE  cmd'[s].pc \notin {"backup", "fill", "rotate"} \cup Moving
  <2>1. \A k : /\ [Idle EXCEPT !.pc = "manifest", !.root = r, !.key = k].pc = "manifest"
               /\ [Idle EXCEPT !.pc = "open", !.root = r, !.key = k].pc = "open"
    BY DEF Idle
  <2> QED BY <1>5, <1>6, <2>1 DEF Create, Unlock, Moving
<1>7. ASSUME Ensure(s) PROVE cmd'[s].pc \notin {"backup", "fill", "rotate"} \cup Moving
  BY <1>5, <1>7, EnsureFacts DEF Moving
<1>8. ASSUME FileCommand(s) PROVE cmd'[s].pc \notin {"backup", "fill", "rotate"} \cup Moving
  <2>1. \A r : [Idle EXCEPT !.pc = "row", !.root = r].pc = "row"
    BY DEF Idle
  <2> QED BY <1>5, <1>8, <2>1 DEF FileCommand, Moving
<1> QED BY <1>3, <1>4, <1>6, <1>7, <1>8, SnapshotBack DEF Begins

LEMMA WriteBack ==
  ASSUME TypeInv, BackInv, NEW s \in Slots, Writes(s)
  PROVE  BackInv'
<1>1. /\ cmd[s].root \in Roots /\ disk \in [Roots -> Dir]
      /\ begun' = begun /\ taken' = taken /\ now' = now /\ now \in Times
  BY AtFacts, PCFacts DEF Writes, WriteManifest, WriteIdentity, WritePublic, At, TypeInv, DiskOK,
                          Written, history, backupsMade, ClockOK
<1>2. \A q \in Roots : disk'[q].backups = disk[q].backups
  BY <1>1 DEF Writes, WriteManifest, WriteIdentity, WritePublic, Dir
<1>3. /\ cmd'[s].pc \notin {"backup", "fill", "rotate"} \cup Moving
      /\ \A u \in Slots \ {s} : cmd'[u] = cmd[u]
  BY GotoCopies DEF Writes, WriteManifest, WriteIdentity, WritePublic, Moving
<1> QED BY <1>1, <1>2, <1>3, SnapshotSame, BackFrame, ConstantFacts DEF Times

\* The copy of index.db begins: it has its name, that of the newest backup of all.
LEMMA BackupBack ==
  ASSUME TypeInv, KeyInv, BackInv, NEW s \in Slots, Backup(s)
  PROVE  BackInv'
<1> DEFINE q == cmd[s].root
           ts == cmd[s].ts
<1>1. /\ cmd[s].pc = "backup" /\ q \in Roots /\ ts \in Times /\ disk \in [Roots -> Dir]
      /\ begun \in [Roots -> SUBSET Times] /\ taken' = taken /\ now' = now /\ ts <= now
  BY AtFacts, PCFacts DEF Backup, At, CommandOK, TypeInv, DiskOK, HistoryOK, BackInv, SnapshotOK
<1>2. /\ disk'[q].backups = disk[q].backups \cup {ts} /\ begun'[q] = begun[q] \cup {ts}
      /\ \A r \in Roots \ {q} : disk'[r] = disk[r] /\ begun'[r] = begun[r]
  BY <1>1 DEF Backup, Dir
<1>3. /\ cmd'[s].pc = "fill" /\ cmd'[s].root = q /\ cmd'[s].ts = ts
      /\ \A u \in Slots \ {s} : cmd'[u] = cmd[u]
  BY GotoCopies DEF Backup, SameCopies
<1>4. \A x \in Times : x \in Nat
  BY DEF Times
<1>5. ASSUME NEW r \in Roots, NEW b \in begun'[r], Cardinality(Newer(begun'[r], b)) < Keep
      PROVE  b \in disk'[r].backups
  <2>1. CASE b \in begun[r]
    <3>1. begun[r] \in SUBSET Times /\ begun'[r] \in SUBSET Times
      BY <1>1, <1>2
    <3>2. Newer(begun[r], b) \subseteq Newer(begun'[r], b)
      BY <1>2 DEF Newer
    <3>3. Cardinality(Newer(begun[r], b)) < Keep
      BY <1>5, <3>1, <3>2, NewerCount, SessionAssumption
    <3>4. b \in disk[r].backups
      BY <2>1, <3>3 DEF BackInv, KeptOK
    <3> QED BY <1>2, <3>4
  <2>2. CASE b \notin begun[r]
    BY <1>2, <2>2
  <2> QED BY <2>1, <2>2
<1>6. ASSUME NEW r \in Roots PROVE KeptOK(r)'
  <2>1. taken'[r] \subseteq begun'[r]
    BY <1>1, <1>2 DEF BackInv, KeptOK
  <2> QED BY <1>5, <2>1 DEF KeptOK, Newer
<1>7. ASSUME NEW r \in Roots, NEW X \in SUBSET Times, Older(r, X)
      PROVE  \A x \in X \ begun'[r] :
               /\ \A b \in begun'[r] : x <= b
               /\ \A u \in Slots : cmd'[u].pc = "backup" /\ cmd'[u].root = r => x <= cmd'[u].ts
  BY <1>1, <1>2, <1>3, <1>7 DEF Older
<1>8. ASSUME NEW r \in Roots PROVE FolderOK(r)'
  <2>1. disk[r].backups \in SUBSET Times /\ Past(disk[r].backups) /\ Older(r, disk[r].backups)
    BY <1>1 DEF BackInv, FolderOK, Dir, Times
  <2>2. Past(disk[r].backups)'
    BY <1>1, <1>2, <2>1 DEF Past
  <2>3. Older(r, disk[r].backups)'
    BY <1>1, <1>2, <1>7, <2>1, ZenonT(40) DEF Older
  <2> QED BY <2>2, <2>3 DEF FolderOK
<1>9. ASSUME NEW u \in Slots PROVE SnapshotOK(u)'
  <2>1. CASE u = s
    BY <1>2, <1>3, <2>1 DEF SnapshotOK, Moving
  <2>2. CASE u # s
    <3>1. cmd'[u] = cmd[u] /\ SnapshotOK(u) /\ cmd[u].old \in SUBSET Times
      BY <1>3, <2>2 DEF BackInv, TypeInv, CommandsOK, CommandOK, Command
    <3>2. cmd[u].pc \in {"fill", "rotate"} => cmd[u].root \in Roots
      BY AtFacts, PCFacts
    <3>3. cmd[u].pc = "rotate" => Past(cmd[u].old)' /\ Older(cmd[u].root, cmd[u].old)'
      BY <1>1, <1>7, <3>1, <3>2 DEF SnapshotOK, Past, Older
    <3>4. cmd[u].pc \in Moving => cmd[u].to \in Roots /\ cmd[u].to # q
      BY <1>1, PCFacts DEF KeyInv, TargetOK, TypeInv, CommandsOK, CommandOK
    <3>5. cmd[u].pc = "fill" => cmd[u].ts \in begun'[cmd[u].root]
      BY <1>2, <3>1, <3>2 DEF SnapshotOK
    <3> QED BY <1>1, <1>2, <3>1, <3>3, <3>4, <3>5 DEF SnapshotOK, Past, Older
  <2> QED BY <2>1, <2>2
<1> QED BY <1>6, <1>8, <1>9 DEF BackInv

\* The copy ends: a backup that was begun is written.
LEMMA FillBack ==
  ASSUME TypeInv, BackInv, NEW s \in Slots, Fill(s)
  PROVE  BackInv'
<1>1. /\ cmd[s].pc = "fill" /\ cmd[s].root \in Roots /\ cmd[s].ts \in begun[cmd[s].root]
      /\ taken \in [Roots -> SUBSET Times] /\ now \in Times
      /\ UNCHANGED <<disk, begun, now>>
      /\ taken' = [taken EXCEPT ![cmd[s].root] = @ \cup {cmd[s].ts}]
  BY AtFacts, PCFacts DEF Fill, At, TypeInv, HistoryOK, ClockOK, BackInv, SnapshotOK
<1>2. \A r \in Roots : taken'[r] \subseteq begun[r]
  BY <1>1 DEF BackInv, KeptOK
<1>3. cmd'[s].pc = "list" /\ \A u \in Slots \ {s} : cmd'[u] = cmd[u]
  BY GotoCopies DEF Fill
<1>4. \A u \in Slots : SameSnapshot(u)
  BY <1>3, SnapshotSame DEF Moving
<1> QED BY <1>1, <1>2, <1>4, BackFrame, ConstantFacts DEF Times

\* The names to remove are chosen among those that were there.
LEMMA ListBack ==
  ASSUME TypeInv, BackInv, NEW s \in Slots, List(s)
  PROVE  BackInv'
<1>1. /\ cmd[s].pc = "list" /\ cmd[s].root \in Roots /\ cmd[s] \in Command /\ DOMAIN cmd = Slots
      /\ disk' = disk /\ begun' = begun /\ taken' = taken /\ now' = now
  BY AtFacts, PCFacts DEF List, At, history, backupsMade, TypeInv, CommandsOK
<1>2. /\ cmd'[s].pc = "rotate" /\ cmd'[s].root = cmd[s].root
      /\ cmd'[s].old = disk[cmd[s].root].backups
      /\ \A u \in Slots \ {s} : cmd'[u] = cmd[u]
  BY <1>1 DEF List, Command
<1>3. \A r : \A X : Past(X) /\ Older(r, X) => Past(X)' /\ Older(r, X)'
  BY <1>1, <1>2 DEF Past, Older
<1>4. ASSUME NEW r \in Roots PROVE KeptOK(r)' /\ FolderOK(r)'
  <2>1. FolderOK(r)
    BY DEF BackInv
  <2>2. KeptOK(r)'
    BY <1>1 DEF BackInv, KeptOK, Newer
  <2> QED BY <1>1, <1>2, <2>1, <2>2 DEF FolderOK, Past, Older
<1>5. ASSUME NEW u \in Slots PROVE SnapshotOK(u)'
  <2>1. CASE u = s
    <3>1. Past(disk[cmd[s].root].backups) /\ Older(cmd[s].root, disk[cmd[s].root].backups)
      BY <1>1 DEF BackInv, FolderOK
    <3> QED BY <1>1, <1>2, <2>1, <3>1 DEF SnapshotOK, Past, Older, Moving
  <2>2. CASE u # s
    BY <1>1, <1>2, <1>3, <2>2 DEF BackInv, SnapshotOK, Past, Older
  <2> QED BY <2>1, <2>2
<1> QED BY <1>4, <1>5 DEF BackInv

\* None of the newest of a vault is among the names removed, although the listing may be old
\* and may have other names in it.
LEMMA RotateBack ==
  ASSUME TypeInv, BackInv, NEW s \in Slots, Rotate(s)
  PROVE  BackInv'
<1> DEFINE q == cmd[s].root
           old == cmd[s].old
<1>1. /\ cmd[s].pc = "rotate" /\ q \in Roots /\ old \in SUBSET Times /\ disk \in [Roots -> Dir]
      /\ begun \in [Roots -> SUBSET Times] /\ now' = now /\ begun' = begun /\ taken' = taken
      /\ Older(q, old)
  BY AtFacts, PCFacts DEF Rotate, At, Command, history, backupsMade, TypeInv, DiskOK, HistoryOK, BackInv,
                          SnapshotOK
<1>2. /\ disk'[q].backups = disk[q].backups \ Excess(old)
      /\ \A r \in Roots \ {q} : disk'[r] = disk[r]
  BY <1>1 DEF Rotate, Dir
<1>3. cmd'[s].pc = "idle" /\ \A u \in Slots \ {s} : cmd'[u] = cmd[u]
  BY ReturnStep DEF Rotate, TypeInv
<1>4. ASSUME NEW b \in begun[q], Cardinality(Newer(begun[q], b)) < Keep PROVE b \notin Excess(old)
  <2>1. Newer(old, b) \subseteq Newer(begun[q], b)
    BY <1>1 DEF Newer, Older, Times
  <2>2. Cardinality(Newer(old, b)) < Keep /\ Cardinality(Newer(old, b)) \in Nat
    BY <1>1, <1>4, <2>1, NewerCount, SessionAssumption
  <2> QED BY <2>2, SessionAssumption DEF Excess, Newer
<1>5. ASSUME NEW r \in Roots PROVE KeptOK(r)'
  BY <1>1, <1>2, <1>4 DEF BackInv, KeptOK, Newer
<1>6. \A r : \A X : /\ Past(X) => Past(X)'
                    /\ Older(r, X) => Older(r, X)'
  BY <1>1, <1>3 DEF Past, Older
<1>7. ASSUME NEW r \in Roots PROVE FolderOK(r)'
  <2>1. disk'[r].backups \subseteq disk[r].backups
    BY <1>2
  <2>2. FolderOK(r)
    BY DEF BackInv
  <2> QED BY <1>1, <1>3, <2>1, <2>2 DEF FolderOK, Past, Older
<1>8. ASSUME NEW u \in Slots PROVE SnapshotOK(u)'
  BY <1>1, <1>3, <1>6 DEF BackInv, SnapshotOK, Past, Older, Moving
<1> QED BY <1>5, <1>7, <1>8 DEF BackInv

LEMMA WorkBack ==
  ASSUME TypeInv, KeyInv, BackInv, NEW s \in Slots, Works(s) \/ Open(s)
  PROVE  BackInv'
<1>1. CASE Backup(s) \/ Fill(s) \/ List(s) \/ Rotate(s)
  BY <1>1, BackupBack, FillBack, ListBack, RotateBack
<1>2. CASE \/ Open(s) \/ MakeTables(s) \/ KeepIdentity(s) \/ Insert(s) \/ Close(s) \/ Fold(s)
           \/ CopyIndex(s) \/ IndexCopied(s) \/ Strip(s) \/ ClearMemory(s)
  <2>1. cmd[s].pc \in Busy
    BY <1>2, PCFacts DEF Open, MakeTables, KeepIdentity, Insert, Close, Fold, CopyIndex, IndexCopied, Strip,
                         ClearMemory, At
  <2>2. /\ begun' = begun /\ taken' = taken /\ now' = now /\ now \in Times
        /\ disk \in [Roots -> Dir] /\ cmd[s].root \in Roots
    BY <1>2, <2>1, AtFacts
       DEF Open, MakeTables, KeepIdentity, Insert, Close, Fold, CopyIndex, IndexCopied, Strip, ClearMemory,
           Written, history, backupsMade, TypeInv, ClockOK, DiskOK
  <2>3. \A q \in Roots : disk'[q].backups = disk[q].backups
    <3>1. CASE MakeTables(s) \/ Insert(s)
      BY <2>2, <3>1 DEF MakeTables, Insert, Dir
    <3>2. CASE Close(s)
      <4>1. disk' = disk \/ disk' = [disk EXCEPT ![cmd[s].root] = [disk[cmd[s].root] EXCEPT !.folding = TRUE]]
        BY <3>2 DEF Close
      <4> QED BY <2>2, <4>1 DEF Dir
    <3>3. CASE Strip(s)
      BY <2>2, <3>3 DEF Strip, Dir
    <3>4. CASE Open(s) \/ KeepIdentity(s) \/ ClearMemory(s)
      BY <3>4 DEF Open, KeepIdentity, ClearMemory
    <3>5. CASE CopyIndex(s) \/ IndexCopied(s)
      BY <3>5, IndexFacts
    <3>6. CASE Fold(s)
      BY <2>2, <3>6 DEF Fold, Folded, Dir
    <3> QED BY <1>2, <3>1, <3>2, <3>3, <3>4, <3>5, <3>6
  <2>4. \A u \in Slots \ {s} : cmd'[u] = cmd[u]
    BY WorkCommands, ReturnStep DEF Open, TypeInv
  <2>5. \/ Works(s) /\ cmd[s].pc \notin {"backup", "fill", "list"}
        \/ Open(s)
    BY <1>2 DEF Works, MakeTables, KeepIdentity, Insert, Close, Fold, CopyIndex, IndexCopied, Strip,
                ClearMemory, At
  <2>6. SameSnapshot(s)
    BY <2>5, WorkCommands, ReturnStep, SnapshotSame DEF Open, TypeInv, Turns, SameCopies, Moving
  <2>7. \A u \in Slots : SameSnapshot(u)
    BY <2>4, <2>6, SnapshotSame
  <2>8. now' \in Times /\ now <= now'
    BY <2>2, ConstantFacts DEF Times
  <2> QED BY <2>2, <2>3, <2>7, <2>8, BackFrame
<1> QED BY <1>1, <1>2 DEF Works

\* Backups come with a move to a folder in which no snapshot has been begun.
LEMMA CopyBack ==
  ASSUME TypeInv, KeyInv, BackInv, NEW s \in Slots, Copy(s)
  PROVE  BackInv'
<1>1. /\ cmd[s].pc \in Moving /\ cmd[s].root \in Roots /\ cmd[s].to \in Roots
      /\ begun' = begun /\ taken' = taken /\ now' = now /\ begun[cmd[s].to] = {}
      /\ \A q \in Roots \ {cmd[s].to} : disk'[q] = disk[q]
  BY CopyFacts DEF Copy, history, backupsMade, Moving, BackInv, SnapshotOK
<1>2. disk'[cmd[s].to].backups \subseteq disk[cmd[s].to].backups \cup disk[cmd[s].root].backups
  BY CopyFacts DEF TakesPart
<1>3. /\ cmd'[s].pc \in {"copy", "strip"} /\ cmd'[s].to = cmd[s].to
      /\ \A u \in Slots \ {s} : cmd'[u] = cmd[u]
  BY CopyFacts
<1>4. \A u \in Slots : cmd[u].pc = "backup" => cmd[u].root # cmd[s].to
  BY <1>1, PCFacts DEF KeyInv, TargetOK
<1>5. ASSUME NEW r \in Roots PROVE FolderOK(r)'
  <2>1. FolderOK(r) /\ FolderOK(cmd[s].root)
    BY <1>1 DEF BackInv
  <2>2. CASE r = cmd[s].to
    BY <1>1, <1>2, <1>3, <1>4, <2>1, <2>2 DEF FolderOK, Past, Older
  <2>3. CASE r # cmd[s].to
    BY <1>1, <1>3, <2>1, <2>3 DEF FolderOK, Past, Older
  <2> QED BY <2>2, <2>3
<1>6. ASSUME NEW u \in Slots PROVE SnapshotOK(u)'
  <2>1. SnapshotOK(u)
    BY DEF BackInv
  <2> QED BY <1>1, <1>3, <2>1 DEF SnapshotOK, Past, Older
<1>7. ASSUME NEW r \in Roots PROVE KeptOK(r)'
  <2>1. begun[r] # {} => disk'[r] = disk[r]
    BY <1>1
  <2>2. KeptOK(r)
    BY DEF BackInv
  <2> QED BY <1>1, <2>1, <2>2 DEF KeptOK, Newer
<1> QED BY <1>5, <1>6, <1>7 DEF BackInv

\* Where a snapshot breaks off, its file stays, and counts.
LEMMA AbandonBack ==
  ASSUME TypeInv, BackInv, NEW S \in SUBSET Slots, Abandon(S),
         begun' = begun, taken' = taken, now' = now
  PROVE  BackInv'
<1>1. \A u \in Slots : cmd'[u].pc = "idle" \/ cmd'[u] = cmd[u]
  BY AbandonFacts
<1>2. CASE disk' = disk
  BY <1>1, <1>2, SnapshotSame, BackFrame, ConstantFacts DEF Moving, TypeInv, ClockOK, Times
<1>3. CASE disk' # disk
  <2> PICK s \in {p \in S : At(p, "copy")} : \E f \in cmd[s].todo :
                 /\ f \in Parts
                 /\ cmd[s].to \in Roots => LosesPart(f, disk'[cmd[s].to], disk[cmd[s].to])
                 /\ \A q \in Roots \ {cmd[s].to} : disk'[q] = disk[q]
    BY <1>3, AbandonFacts
  <2>1. \A q \in Roots : disk'[q].backups = disk[q].backups
    BY DEF LosesPart
  <2> QED BY <1>1, <2>1, SnapshotSame, BackFrame, ConstantFacts DEF Moving, TypeInv, ClockOK, Times
<1> QED BY <1>2, <1>3

LEMMA NextBack == TypeInv /\ KeyInv /\ BackInv /\ [Next]_vars => BackInv'
<1> SUFFICES ASSUME TypeInv, KeyInv, BackInv, [Next]_vars PROVE BackInv'
  OBVIOUS
<1>1. CASE Lock \/ UNCHANGED vars
  <2>1. UNCHANGED <<disk, cmd, begun, taken, now>> /\ now \in Times
    BY <1>1 DEF Lock, vars, history, backupsMade, TypeInv, ClockOK
  <2>2. now' \in Times /\ now <= now'
    BY <2>1, ConstantFacts DEF Times
  <2> QED BY <2>1, <2>2, SnapshotSame, BackFrame
<1>2. CASE Crash
  BY <1>2, AbandonBack DEF Crash, backupsMade
<1>3. ASSUME NEW s \in Slots, Fails(s) PROVE BackInv'
  BY <1>3, AbandonBack DEF Fails, backupsMade
<1> QED BY <1>1, <1>2, <1>3, StepKinds, CallBack, WriteBack, WorkBack, CopyBack

LEMMA BackupsHold ==
  ASSUME Patient
  PROVE  Spec => []BackInv
<1>1. Init => BackInv
  BY InitBack
<1>2. TypeInv /\ KeyInv /\ BackInv /\ [Next]_vars => BackInv'
  BY NextBack
<1> QED BY <1>1, <1>2, KeysHold, PTL DEF Spec

\* rotate_backups never removes a finished backup of the vault it runs for before Keep newer
\* ones were at least begun there: neither a snapshot that overlaps it, nor a listing grown old,
\* nor the backups that came with a move (fs::copy keeps their names) take the place of a newer
\* one.  A copy that broke off (sync.rs:208) does take a place: it counts as begun.
THEOREM NewestBackupsStay ==
  ASSUME Patient
  PROVE  Spec => []BackupsKept
<1>1. BackInv => BackupsKept
  <2> SUFFICES ASSUME BackInv, NEW r \in Roots, NEW b \in taken[r],
                      Cardinality({x \in begun[r] : x > b}) < Keep
               PROVE  b \in disk[r].backups
    BY DEF BackupsKept
  <2> QED BY DEF BackInv, KeptOK, Newer
<1> QED BY <1>1, BackupsHold, PTL
-----------------------------------------------------------------------------
(* What is written once.                                                    *)

\* No step overwrites a whole manifest, or a whole identity of a root that is not raced.
SecretsKept == \A r \in Roots : WholeStays(r)

LEMMA StepKeepsSecrets == TypeInv /\ KeyInv /\ IdentityInv /\ [Next]_vars => SecretsKept
<1> SUFFICES ASSUME TypeInv, KeyInv, IdentityInv, [Next]_vars PROVE SecretsKept
  OBVIOUS
<1>1. CASE Lock \/ UNCHANGED vars
  BY <1>1 DEF Lock, vars, SecretsKept, WholeStays
<1>2. CASE Crash
  BY <1>2, AbandonStays DEF Crash, SecretsKept
<1>3. ASSUME NEW s \in Slots, Fails(s) PROVE SecretsKept
  BY <1>3, AbandonStays DEF Fails, SecretsKept
<1>4. ASSUME NEW s \in Slots, Begins(s) \/ Writes(s) PROVE SecretsKept
  BY <1>4, BeginEndures, WriteEndures DEF Endures, SecretsKept
<1>5. ASSUME NEW s \in Slots, Works(s) \/ Open(s) PROVE SecretsKept
  BY <1>5, WorkFiles DEF Open, SameFiles, WholeStays, SecretsKept
<1> QED BY <1>1, <1>2, <1>3, <1>4, <1>5, StepKinds, CopyStays DEF SecretsKept

\* vault.json and identity.enc are written once: no command, however many run and wherever they
\* fail, replaces the key of a vault by another, nor the identity in it, except where two
\* identity_ensure calls were creating one together.  What was sealed for them can be opened for
\* as long as the folder is there.
THEOREM SecretsAreFinal ==
  ASSUME Patient
  PROVE  Spec => [][SecretsKept]_vars
<1>1. TypeInv /\ KeyInv /\ IdentityInv /\ [Next]_vars => [SecretsKept]_vars
  BY StepKeepsSecrets
<1> QED BY <1>1, IdentityHolds, PTL DEF Spec
=============================================================================
