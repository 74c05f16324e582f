---------------------------- MODULE JournalAnchor ----------------------------
(***************************************************************************)
(* The journal and its off-database anchor, as several processes sharing   *)
(* one store run them (src/packages/core/src/journal/service.ts).          *)
(*                                                                         *)
(* The database holds the journal rows and a checkpoint of them (`meta`),  *)
(* and one SQLite transaction commits both.  A second copy of the          *)
(* checkpoint lives in a file outside the database (`ext`).  The copies    *)
(* cannot commit together: an append commits the database and mirrors the  *)
(* file afterwards.  Each ordinary append therefore first verifies the     *)
(* journal under the writer lock, moves a lagging file forward, and        *)
(* refuses if it cannot.                                                   *)
(*                                                                         *)
(* ABSTRACTIONS.  A row is a label no other row ever gets.  A checkpoint   *)
(* commits to its whole history through the hash chain, so it IS that      *)
(* history: a sequence of labels.  `Forged` is anything that does not      *)
(* parse or authenticate.  Replacing the file is one step, which is what   *)
(* CheckpointFile is shown to implement; `jammed` makes it throw.  Every   *)
(* other read of the database or of the file is a step of its own.         *)
(***************************************************************************)
EXTENDS Integers, SequencesExt

CONSTANTS
  Procs,         \* processes sharing the store
  Absent,        \* getMeta()/read() answer undefined
  Forged,        \* bytes that do not authenticate under the vault key
  Unreadable,    \* read() throws
  Commands,      \* the commands run: a subset of AllCommands
  Faults,        \* the faults that happen: a subset of AllFaults
  Starts,        \* how the store may begin: a subset of AllStarts
  MaxEntries,    \* bound: journal rows ever committed
  MaxFaults      \* bound: faults that happen

AllCommands == {"append", "verify", "reseal"}
AllStarts   == {"sealed", "pristine"}
AllFaults   == {"crash", "jam", "restore", "lose", "forge", "unreadable"}

ASSUME ConstantsAssumption ==
  /\ Commands \subseteq AllCommands
  /\ Faults \subseteq AllFaults
  /\ Starts \subseteq AllStarts
  /\ MaxEntries \in Nat \ {0}
  /\ MaxFaults \in Nat
  /\ Absent # Forged /\ Absent # Unreadable /\ Forged # Unreadable
  /\ {Absent, Forged, Unreadable} \cap Seq(1..MaxEntries) = {}

HealConflictAttempts == 3

VARIABLES
  rows,      \* the journal rows
  meta,      \* the checkpoint committed with them
  ext,       \* what the checkpoint file path holds
  jammed,    \* replacing the file throws (a stray lock, a full disk)
  pc,        \* what each process does next
  mode,      \* why each process verifies or confirms
  seen,      \* what each process has read and still relies on
  attempt,   \* which pass of verify() this is
  outcome,   \* what each idle process reported last
  entry,     \* the row each process has just committed
  minted,    \* rows ever committed
  start,     \* how the store began
  faults,    \* faults so far
  hurt,      \* the kinds of fault that happened
  vouched,   \* rows some process reported as anchored
  witnessed  \* rows the program has ever written into the file

db    == <<rows, meta, minted>>
files == <<ext, jammed, witnessed>>
local == <<pc, mode, seen, attempt, outcome, entry, vouched>>
hurts == <<start, faults, hurt>>
vars  == <<db, files, local, hurts>>

Nothing == [version |-> Absent, rows |-> <<>>, meta |-> Absent, ext |-> Absent]

VerifySteps == {"version", "rows", "meta", "file", "version again",
                "heal", "heal threw", "read back", "committed"}
MirrorSteps == {"mirror", "mirror file", "guards", "swap"}
PCs   == {"idle", "insert", "confirm", "confirm file"} \cup VerifySteps \cup MirrorSteps
Modes == {"none", "gate", "receipt", "command", "seal receipt", "seal"}

\* What a command reports, by why it verified last and by the verdict.
Good == [receipt |-> "anchored", command |-> "green", seal |-> "sealed"]
Bad  == [gate |-> "refused", receipt |-> "unanchored", command |-> "red",
         seal |-> "partial"]
Outcomes == {"none"} \cup {Good[m] : m \in DOMAIN Good}
                     \cup {Bad[m] : m \in DOMAIN Bad}

\* A store that was sealed before these processes opened it carries
\* prior-install evidence: its key file exists.
PriorInstall == start = "sealed"
FirstRows    == IF PriorInstall THEN <<1>> ELSE <<>>

Init ==
  /\ start \in Starts
  /\ rows = FirstRows
  /\ meta = IF FirstRows = <<>> THEN Absent ELSE FirstRows
  /\ ext = meta
  /\ jammed = FALSE
  /\ pc = [p \in Procs |-> "idle"]
  /\ mode = [p \in Procs |-> "none"]
  /\ seen = [p \in Procs |-> Nothing]
  /\ attempt = [p \in Procs |-> 0]
  /\ outcome = [p \in Procs |-> "none"]
  /\ entry = [p \in Procs |-> 0]
  /\ minted = Len(FirstRows)
  /\ faults = 0
  /\ hurt = {}
  /\ vouched = {}
  /\ witnessed = ToSet(FirstRows)

-----------------------------------------------------------------------------
(* Moving a process along.                                                 *)

Authentic(c) == c \notin {Absent, Forged, Unreadable}
Goto(p, at)  == pc' = [pc EXCEPT ![p] = at]

\* A step that reads one thing, or nothing, and moves on.
Learn(p, field, value, next) ==
  /\ seen' = [seen EXCEPT ![p][field] = value]
  /\ Goto(p, next)
  /\ UNCHANGED <<db, files, hurts, mode, attempt, outcome, entry, vouched>>

Continue(p, next) ==
  /\ Goto(p, next)
  /\ UNCHANGED <<db, files, hurts, mode, seen, attempt, outcome, entry, vouched>>

\* p goes on at `next`, on behalf of `why`, having forgotten what it read.
Turn(p, next, why, pass) ==
  /\ Goto(p, next)
  /\ mode' = [mode EXCEPT ![p] = why]
  /\ seen' = [seen EXCEPT ![p] = Nothing]
  /\ attempt' = [attempt EXCEPT ![p] = pass]

\* p leaves its command and reports.
Report(p, what) ==
  /\ Turn(p, "idle", "none", 0)
  /\ outcome' = [outcome EXCEPT ![p] = what]
  /\ entry' = [entry EXCEPT ![p] = 0]

\* verify() starts its first pass, on behalf of `why`.
StartVerify(p, why) ==
  /\ Turn(p, "version", why, 1)
  /\ outcome' = [outcome EXCEPT ![p] = "none"]

\* The answer of a confirmation or of a verify(), by who asked.  The gate goes
\* on to insert, or throws, which rolls its transaction back.  A sealing
\* append has two readers: the receipt of its entry and the result of seal(),
\* which asks again from scratch.
Verdict(p, ok) ==
  /\ vouched' = IF ok /\ mode[p] \in {"receipt", "seal receipt"}
                THEN vouched \cup {entry[p]} ELSE vouched
  /\ \/ /\ mode[p] = "gate" /\ ok
        /\ Turn(p, "insert", "gate", 0)
        /\ UNCHANGED <<outcome, entry>>
     \/ /\ mode[p] = "seal receipt"
        /\ Turn(p, "confirm", "seal", 0)
        /\ UNCHANGED <<outcome, entry>>
     \/ ok /\ mode[p] \in DOMAIN Good /\ Report(p, Good[mode[p]])
     \/ ~ok /\ mode[p] \in DOMAIN Bad /\ Report(p, Bad[mode[p]])
  /\ UNCHANGED <<db, hurts>>

Pass(p) == Verdict(p, TRUE) /\ UNCHANGED files
Fail(p) == Verdict(p, FALSE) /\ UNCHANGED files

\* The pass saw no single state: look again from scratch, a bounded number of
\* times, then let the red verdict stand.
Unsettled(p) ==
  \/ attempt[p] >= HealConflictAttempts /\ Fail(p)
  \/ /\ attempt[p] < HealConflictAttempts
     /\ Turn(p, "version", mode[p], attempt[p] + 1)
     /\ UNCHANGED <<db, files, hurts, outcome, entry, vouched>>

-----------------------------------------------------------------------------
(* Commands.                                                               *)

\* BEGIN IMMEDIATE: one gate at a time, from its first read to its commit.
WriterFree == \A q \in Procs : mode[q] # "gate"

\* append(): the gate runs verify() inside the write transaction.
AppendBegin(p) ==
  /\ "append" \in Commands
  /\ WriterFree
  /\ minted < MaxEntries
  /\ StartVerify(p, "gate")
  /\ UNCHANGED <<db, files, hurts, entry, vouched>>

\* `sthayi journal --verify`: a healing verify(), outside any transaction.
VerifyCommand(p) ==
  /\ "verify" \in Commands
  /\ StartVerify(p, "command")
  /\ UNCHANGED <<db, files, hurts, entry, vouched>>

\* Mutant: the mirror is left to the gate of the next append.
CommitUnmirrored(p, checkpoint, why) ==
  /\ rows' = Append(rows, minted + 1)
  /\ meta' = checkpoint
  /\ minted' = minted + 1
  /\ Report(p, "anchored")
  /\ UNCHANGED <<files, hurts, vouched>>

\* The entry commits; its mirror follows.
Commit(p, checkpoint, why) ==
  /\ rows' = Append(rows, minted + 1)
  /\ meta' = checkpoint
  /\ minted' = minted + 1
  /\ entry' = [entry EXCEPT ![p] = minted + 1]
  /\ outcome' = [outcome EXCEPT ![p] = "none"]
  /\ Turn(p, "mirror", why, 0)
  /\ UNCHANGED <<files, hurts, vouched>>

\* seal(): the explicit trust decision accepts the rows as they are.
Reseal(p) ==
  /\ "reseal" \in Commands
  /\ WriterFree
  /\ minted < MaxEntries
  /\ Commit(p, Append(rows, minted + 1), "seal receipt")

\* An idle process takes a command.
StartCommand(p) ==
  /\ pc[p] = "idle"
  /\ AppendBegin(p) \/ VerifyCommand(p) \/ Reseal(p)

\* updateMetaCheckpoint(): extend the checkpoint only along the chain it
\* commits to; mint one only for the first entry of a store nothing survives of.
NextMeta ==
  IF meta = rows \/ (meta = Absent /\ rows = <<>> /\ ~PriorInstall
                       /\ ext \in {Absent, Forged})
  THEN Append(rows, minted + 1) ELSE meta

Insert(p) ==
  /\ pc[p] = "insert"
  /\ Commit(p, NextMeta, "receipt")

-----------------------------------------------------------------------------
(* verifyPass(), read by read.                                             *)

ReadVersion(p) == pc[p] = "version" /\ Learn(p, "version", meta, "rows")
ReadRows(p)    == pc[p] = "rows" /\ Learn(p, "rows", rows, "meta")

\* (3) Rows and checkpoint commit together, so a checkpoint that moved across
\* the row read proves the pair was not read from one state.
ReadMeta(p) ==
  /\ pc[p] = "meta"
  /\ \/ meta # seen[p].version /\ Unsettled(p)
     \/ meta = seen[p].version /\ Learn(p, "meta", meta, "file")

ReadFile(p) ==
  /\ pc[p] = "file"
  /\ \/ ext = Unreadable /\ Fail(p)
     \/ ext # Unreadable /\ Learn(p, "ext", ext, "version again")

\* (4) No checkpoint anywhere is a store never used before.
Pristine(p) ==
  /\ seen[p].meta = Absent /\ seen[p].ext = Absent
  /\ seen[p].rows = <<>> /\ ~PriorInstall /\ attempt[p] = 1

\* (5) The database copy is the checkpoint of the live chain.
Live(p) == seen[p].meta = seen[p].rows /\ seen[p].rows # <<>>

\* Mutant: a file that is an authentic ancestor is good enough.
MatchesAncestor(p) ==
  Live(p) /\ Authentic(seen[p].ext) /\ IsPrefix(seen[p].ext, seen[p].meta)

\* Both copies are that checkpoint.
Matches(p) == Live(p) /\ seen[p].ext = seen[p].meta

\* Mutant: any authentic checkpoint counts as one the file lags with.
BehindAnyAuthentic(p) ==
  IF seen[p].ext = Absent THEN attempt[p] = 1 ELSE Authentic(seen[p].ext)

\* (6) The file is behind on this chain, or was never there: a restarted pass
\* takes an absent file for one that was removed.
Behind(p) ==
  IF seen[p].ext = Absent THEN attempt[p] = 1
  ELSE /\ Authentic(seen[p].ext)
       /\ IsStrictPrefix(seen[p].ext, seen[p].rows)

\* Mutant: only a verify command heals.
MayHealOnCommand(p) == mode[p] = "command"

\* (7) Only a verify command may create the file.
MayHeal(p) == seen[p].ext # Absent \/ mode[p] = "command"

\* (3b) Reading the file is part of the snapshot; then the ladder decides.
ReadVersionAgain(p) ==
  /\ pc[p] = "version again"
  /\ IF meta # seen[p].meta THEN Unsettled(p)
     ELSE IF Pristine(p) \/ Matches(p) THEN Pass(p)
     ELSE IF Live(p) /\ Behind(p) /\ MayHeal(p) THEN Continue(p, "heal")
     ELSE Fail(p)

\* replaceCheckpoint(): the file takes `next` if it still holds `expected`.
Swap(next) ==
  /\ ext' = next
  /\ witnessed' = witnessed \cup ToSet(next)
  /\ UNCHANGED jammed
SwapThrows == jammed \/ ext = Unreadable

Heal(p) ==
  /\ pc[p] = "heal"
  /\ \/ SwapThrows /\ Continue(p, "heal threw")
     \/ /\ ~SwapThrows
        /\ ext \in {seen[p].ext, seen[p].meta}
        /\ Swap(seen[p].meta)
        /\ Goto(p, "read back")
        /\ UNCHANGED <<db, hurts, mode, seen, attempt, outcome, entry, vouched>>
     \/ ~SwapThrows /\ ext \notin {seen[p].ext, seen[p].meta} /\ Unsettled(p)

\* Mutant: a heal that threw is tried again.
HealThrewRetries(p) ==
  /\ pc[p] = "heal threw"
  /\ IF ext # Absent /\ ext \in {seen[p].meta, seen[p].ext}
     THEN Continue(p, "heal") ELSE Fail(p)

\* failureAfterHealThrew(): what is at the path now?
HealThrew(p) ==
  /\ pc[p] = "heal threw"
  /\ IF ext # Absent /\ ext \in {seen[p].meta, seen[p].ext}
     THEN Continue(p, "read back") ELSE Fail(p)

\* Bytes nobody validated may still be a peer's newer checkpoint.
ReadBack(p) ==
  /\ pc[p] = "read back"
  /\ IF ext = seen[p].meta THEN Pass(p)
     ELSE IF ext \in {seen[p].ext, Unreadable, Absent} THEN Fail(p)
     ELSE Learn(p, "ext", ext, "committed")

ReadCommitted(p) ==
  /\ pc[p] = "committed"
  /\ \/ meta = seen[p].ext /\ Unsettled(p)
     \/ meta # seen[p].ext /\ Fail(p)

VerifyPass(p) ==
  \/ ReadVersion(p) \/ ReadRows(p) \/ ReadMeta(p) \/ ReadFile(p)
  \/ ReadVersionAgain(p) \/ Heal(p) \/ HealThrew(p) \/ ReadBack(p)
  \/ ReadCommitted(p)

-----------------------------------------------------------------------------
(* mirrorExternal() and the confirmation by read-back.                     *)

MirrorMeta(p) ==
  /\ pc[p] = "mirror"
  /\ \/ ~Authentic(meta) /\ Continue(p, "confirm")
     \/ Authentic(meta) /\ Learn(p, "meta", meta, "mirror file")

Forced(p) == mode[p] = "seal receipt"

MirrorFile(p) ==
  /\ pc[p] = "mirror file"
  /\ \/ ext \in {Unreadable, seen[p].meta} /\ Continue(p, "confirm")
     \/ /\ ext \notin {Unreadable, seen[p].meta}
        /\ Learn(p, "ext", ext, IF Forced(p) THEN "swap" ELSE "guards")

\* Mutant: the destination is overwritten whatever it holds.
MirrorGuardsSourceOnly(p) ==
  /\ pc[p] = "guards"
  /\ Continue(p, IF rows = seen[p].meta THEN "swap" ELSE "confirm")

\* (1) the source is the live checkpoint, (2) the destination is absent or an
\* authentic ancestor of it.
MirrorGuards(p) ==
  /\ pc[p] = "guards"
  /\ IF /\ rows = seen[p].meta
        /\ \/ seen[p].ext = Absent
           \/ Authentic(seen[p].ext) /\ IsPrefix(seen[p].ext, seen[p].meta)
     THEN Continue(p, "swap") ELSE Continue(p, "confirm")

\* (4) the compare-and-swap; `force` skips the comparison.
MirrorSwap(p) ==
  /\ pc[p] = "swap"
  /\ \/ /\ ~SwapThrows
        /\ Forced(p) \/ ext \in {seen[p].ext, seen[p].meta}
        /\ Swap(seen[p].meta)
        /\ Goto(p, "confirm")
        /\ UNCHANGED <<db, hurts, mode, seen, attempt, outcome, entry, vouched>>
     \/ /\ SwapThrows \/ (~Forced(p) /\ ext \notin {seen[p].ext, seen[p].meta})
        /\ Continue(p, "confirm")

\* externalShortfall() and confirmExternalSealed() read both copies again; on a
\* shortfall verify() decides, as the next append's gate would.
AskVerify(p) ==
  /\ StartVerify(p, mode[p])
  /\ UNCHANGED <<db, files, hurts, entry, vouched>>

ConfirmMeta(p) ==
  /\ pc[p] = "confirm"
  /\ \/ meta = Absent /\ AskVerify(p)
     \/ meta # Absent /\ Learn(p, "meta", meta, "confirm file")

\* Mutant: the mirror is believed without reading the file back.
ConfirmFileUnread(p) == pc[p] = "confirm file" /\ Pass(p)

ConfirmFile(p) ==
  /\ pc[p] = "confirm file"
  /\ \/ ext = seen[p].meta /\ Pass(p)
     \/ ext # seen[p].meta /\ AskVerify(p)

MirrorAndConfirm(p) ==
  \/ MirrorMeta(p) \/ MirrorFile(p) \/ MirrorGuards(p) \/ MirrorSwap(p)
  \/ ConfirmMeta(p) \/ ConfirmFile(p)

-----------------------------------------------------------------------------
(* The environment.                                                        *)

Fault(kind) ==
  /\ kind \in Faults
  /\ faults < MaxFaults
  /\ faults' = faults + 1
  /\ hurt' = hurt \cup {kind}
  /\ UNCHANGED start

\* A process dies; SQLite rolls an open transaction back.
Crash(p) ==
  /\ Fault("crash")
  /\ pc[p] # "idle"
  /\ Report(p, "none")
  /\ UNCHANGED <<db, files, vouched>>

Jam ==
  /\ Fault("jam")
  /\ ~jammed
  /\ jammed' = TRUE
  /\ UNCHANGED <<db, ext, witnessed, local>>

Unjam ==
  /\ jammed
  /\ jammed' = FALSE
  /\ UNCHANGED <<db, ext, witnessed, local, hurts>>

\* The database is restored from an older snapshot, offline.
Restore ==
  /\ Fault("restore")
  /\ \A p \in Procs : pc[p] = "idle"
  /\ \E n \in 1..(Len(rows) - 1) :
       rows' = SubSeq(rows, 1, n) /\ meta' = rows'
  /\ UNCHANGED <<minted, files, local>>

\* The checkpoint file disappears, is replaced, or becomes unreadable.
Damage ==
  /\ \/ Fault("lose") /\ ext' = Absent
     \/ Fault("forge") /\ ext' = Forged
     \/ Fault("unreadable") /\ ext' = Unreadable
  /\ ext' # ext
  /\ UNCHANGED <<db, jammed, witnessed, local>>

Step(p) == Insert(p) \/ VerifyPass(p) \/ MirrorAndConfirm(p)

Next ==
  \/ \E p \in Procs : StartCommand(p) \/ Step(p) \/ Crash(p)
  \/ Jam \/ Unjam \/ Restore \/ Damage

Spec == Init /\ [][Next]_vars

\* The journal service is synchronous: a process inside a command goes on.
\* Nothing obliges anyone to start one, and no fault has to happen.
Fairness == \A p \in Procs : WF_vars(Step(p))

-----------------------------------------------------------------------------
(* Properties.                                                             *)

Chain == Seq(1..MaxEntries)

TypeOK ==
  /\ rows \in Chain
  /\ meta \in Chain \cup {Absent}
  /\ ext \in Chain \cup {Absent, Forged, Unreadable}
  /\ jammed \in BOOLEAN
  /\ pc \in [Procs -> PCs]
  /\ mode \in [Procs -> Modes]
  /\ seen \in [Procs -> [version : Chain \cup {Absent}, rows : Chain,
                         meta : Chain \cup {Absent},
                         ext : Chain \cup {Absent, Forged}]]
  /\ attempt \in [Procs -> 0..HealConflictAttempts]
  /\ outcome \in [Procs -> Outcomes]
  /\ entry \in [Procs -> 0..MaxEntries]
  /\ minted \in 0..MaxEntries
  /\ start \in AllStarts /\ faults \in 0..MaxFaults /\ hurt \subseteq AllFaults
  /\ vouched \subseteq 1..MaxEntries
  /\ witnessed \subseteq 1..MaxEntries

\* At most one committed row was never written into the file, whatever crashed,
\* jammed, was restored, lost or replaced: a frozen anchor stops the journal
\* after one write (the point of the gate, assertAppendable()).
OneUnwitnessedRow == Cardinality(ToSet(rows) \ witnessed) <= 1

\* Nobody but the program has touched the checkpoint file.
FileUntouched == hurt \subseteq {"crash", "jam", "restore"}

\* A receipt that said "anchored" stays true: while nobody else touches the
\* file, the row is in it, however late and in whatever order the mirrors and
\* heals of the other processes land, and whatever was restored.
AnchoredIsWitnessed ==
  FileUntouched => vouched \subseteq (IF Authentic(ext) THEN ToSet(ext) ELSE {})

\* The anchor never falls behind by more than the one write the gate allows, nor
\* ever below a row some caller was told is anchored.
AnchorInv == TypeOK /\ OneUnwitnessedRow /\ AnchoredIsWitnessed

\* Between the gate's verdict and the commit it allows, the file holds the
\* checkpoint of the very rows the commit extends: no peer's late mirror or
\* heal takes it away again.
GateMeansAnchored ==
  FileUntouched =>
    \A p \in Procs :
      pc[p] = "insert" => ext = rows \/ (rows = <<>> /\ ext = Absent)

\* The program's own writes only ever move the file forward along the chain it
\* already commits to; bytes that do not authenticate are evidence and stay.
FileOnlyAdvances ==
  [][(faults' = faults /\ ext' # ext) =>
       ext = Absent \/ (Authentic(ext) /\ IsStrictPrefix(ext, ext'))]_vars

\* A restored database that lacks a row some receipt called anchored takes no
\* further entry while the file that remembers the row is left alone.
RestoreIsCaught ==
  [][minted' # minted /\ FileUntouched => vouched \subseteq ToSet(rows)]_vars

\* Ordinary concurrency, and a process dying anywhere, never makes the gate of a
\* sealed store refuse: it advances whatever lag a peer left behind.
HealthyAppendNeverRefused ==
  hurt \subseteq {"crash"} /\ PriorInstall => \A p \in Procs : outcome[p] # "refused"

\* With nothing broken, once every command has returned the file holds the
\* checkpoint of the journal: no interleaving of mirrors leaves it behind.
QuietIsAnchored ==
  (hurt = {} /\ \A p \in Procs : pc[p] = "idle") => ext = meta

\* A lag is never silent, a jammed file and reseals included: once every command
\* has returned, the file holds the checkpoint of the journal, or the last thing
\* some process reported is that something is wrong.
LagIsTold ==
  (hurt \subseteq {"jam"} /\ \A p \in Procs : pc[p] = "idle") =>
    ext = meta \/ \E p \in Procs : outcome[p] \in {Bad[m] : m \in DOMAIN Bad}

\* domain/journal.ts says of an "unanchored" receipt that the store has stopped
\* accepting mutations: the next write will refuse until the anchor is fixed.
\* Where nothing ever broke, no append follows such a receipt.
UnanchoredMeansBlocked ==
  [][minted' # minted => \A p \in Procs : outcome[p] # "unanchored"]_vars

\* Every command returns: restarts of verify() are bounded, and a jammed file
\* makes a command fail, not wait.
CommandsReturn == \A p \in Procs : pc[p] # "idle" ~> pc[p] = "idle"

=============================================================================
