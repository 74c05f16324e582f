---------------------------- MODULE ClientWiring ----------------------------
(***************************************************************************)
(* `wire` and `unwire` (clients/json-adapter.ts, toml-adapter.ts, state.ts):*)
(* commands that put the sthayi entry into client configs and take it out  *)
(* again, each remembering in one shared ledger file what a config was     *)
(* before.  Nothing locks a config or the ledger: the client rewrites its  *)
(* config whenever it likes, two commands may overlap, and a command may   *)
(* die between its file operations.                                        *)
(*                                                                         *)
(* A config is the set of the user's own edits and the state of the entry; *)
(* equal contents are equal hashes.  copyFileSync(), which restores a      *)
(* backup, truncates the config and then fills it: what another command,   *)
(* or everybody after a crash, finds meanwhile is a remnant of the backup, *)
(* a text like any other to whoever reads it.                              *)
(***************************************************************************)
EXTENDS FiniteSets, Naturals

CONSTANTS JsonClients, TomlClients, Edits, Commands,
          NoFile,                  \* no config, no backup
          NoRecord,                \* the ledger has no record of a client
          MaxRuns, MaxOutside, MaxDeaths   \* bounds on commands, edits and crashes

Clients == JsonClients \cup TomlClients

VARIABLES
  config,    \* config[c]: content of the client's config file
  ledger,    \* ledger[c]: what the ledger file records of the client
  cmd,       \* cmd[p]: the command's locals
  runs, outside, deaths,
  kept,      \* kept[c]: the edits as the client and its user made them (ghost)
  clouded,   \* clouded[c]: one was made between a command's read and its write (ghost)
  prior,     \* prior[c]: the config before the last completed wire write (ghost)
  touched,   \* touched[c]: the config or its backups changed since that write (ghost)
  saved,     \* saved[c]: the edits in the backups made, which no command deletes (ghost)
  torn,      \* torn[c]: a command took a remnant for the config (ghost)
  moved      \* moved[c]: the user has put backups elsewhere

edited == <<kept, clouded>>
copies == <<saved, torn, moved>>
wiringVars == <<config, ledger, cmd, runs, outside, deaths, edited, prior, touched, copies>>

(* "stuck": an inline or dotted TOML entry the line stripper cannot remove.*)
(* Not whole: a remnant.                                                   *)
Texts == [edits : SUBSET Edits, entry : {"none", "good", "bad", "stuck"}, whole : BOOLEAN]
Files == Texts \cup {NoFile}
EditsIn(f) == IF f = NoFile THEN {} ELSE f.edits
Entry(f) == IF f = NoFile THEN "none" ELSE f.entry
Whole(f) == f = NoFile \/ f.whole
(* The entry may be cut in two as well.                                    *)
Remnants(f) == [edits : SUBSET EditsIn(f), whole : {FALSE},
                entry : IF Entry(f) = "none" THEN {"none"} ELSE {"none", "bad", Entry(f)}]
Records == [backup : Files, existed : BOOLEAN, hash : Texts]

ASSUME WiringAssumption ==
  /\ Clients # {}
  /\ NoFile \notin Texts /\ NoRecord \notin Records
  /\ MaxRuns \in Nat /\ MaxOutside \in Nat /\ MaxDeaths \in Nat

Sleeping == [op |-> "none", client |-> CHOOSE c \in Clients : TRUE, at |-> "idle",
             broken |-> FALSE, text |-> NoFile, backup |-> NoFile, record |-> NoRecord,
             book |-> [c \in Clients |-> NoRecord]]

WiringTypeOK ==
  /\ config \in [Clients -> Files] /\ prior \in [Clients -> Files]
  /\ ledger \in [Clients -> Records \cup {NoRecord}]
  /\ \A p \in Commands :
       /\ cmd[p].op \in {"none", "wire", "unwire"} /\ cmd[p].client \in Clients
       /\ cmd[p].at \in {"idle", "inspect", "read", "backup", "write", "record", "recall",
                         "current", "act", "restore", "openLedger", "writeLedger"}
       /\ {cmd[p].text, cmd[p].backup} \subseteq Files
  /\ kept \in [Clients -> SUBSET Edits] /\ clouded \in [Clients -> BOOLEAN]
  /\ touched \in [Clients -> BOOLEAN] /\ saved \in [Clients -> SUBSET Edits]
  /\ torn \in [Clients -> BOOLEAN] /\ moved \in [Clients -> BOOLEAN]
  /\ runs \in 0..MaxRuns /\ outside \in 0..MaxOutside /\ deaths \in 0..MaxDeaths

WiringInit ==
  /\ config \in [Clients -> {NoFile} \cup [edits : SUBSET Edits, entry : {"none"}, whole : {TRUE}]]
  /\ ledger = [c \in Clients |-> NoRecord]
  /\ cmd = [p \in Commands |-> Sleeping]
  /\ runs = 0 /\ outside = 0 /\ deaths = 0
  /\ kept = [c \in Clients |-> EditsIn(config[c])] /\ clouded = [c \in Clients |-> FALSE]
  /\ prior = config /\ touched = [c \in Clients |-> TRUE]
  /\ saved = [c \in Clients |-> {}]
  /\ torn = [c \in Clients |-> FALSE] /\ moved = [c \in Clients |-> FALSE]

-----------------------------------------------------------------------------
At(p, s) == cmd[p].at = s
On(p) == cmd[p].client
Set(p, r) == cmd' = [cmd EXCEPT ![p] = r]
Step(p, s) == Set(p, [cmd[p] EXCEPT !.at = s])
Return(p) == Set(p, Sleeping)
FilesUnchanged == UNCHANGED <<config, ledger, edited, prior, touched>>
Bounded == UNCHANGED <<runs, outside, deaths>>
(* A command reads f where the config of c is.                             *)
Sees(c, f) == torn' = [torn EXCEPT ![c] = @ \/ ~Whole(f)] /\ UNCHANGED moved

Begin(p, op, c) ==
  /\ At(p, "idle") /\ runs < MaxRuns
  /\ runs' = runs + 1
  /\ Set(p, [Sleeping EXCEPT !.op = op, !.client = c, !.at = "inspect"])
  /\ FilesUnchanged /\ UNCHANGED <<outside, deaths, copies>>

(* inspect(): wire stops at a good entry, unwire where there is none.      *)
Inspect(p) ==
  /\ At(p, "inspect") /\ FilesUnchanged /\ Bounded /\ UNCHANGED copies
  /\ LET f == config[On(p)]
     IN  IF Entry(f) = (IF cmd[p].op = "wire" THEN "good" ELSE "none")
           THEN Return(p)
           ELSE Set(p, [cmd[p] EXCEPT !.at = IF cmd[p].op = "wire" THEN "read" ELSE "recall",
                                      !.broken = Entry(f) \in {"bad", "stuck"}])

-----------------------------------------------------------------------------
(* wire()                                                                  *)

(* What the TOML adapter refuses: an entry it cannot strip, or one that    *)
(* appeared since it looked and that a second table would redefine.  A     *)
(* remnant may not parse: TOML refuses it, an edit of JSON throws.         *)
Unwirable(p, f) ==
  /\ On(p) \in TomlClients
  /\ \/ Entry(f) = "stuck"
     \/ Entry(f) \in {"good", "bad"} /\ ~cmd[p].broken

ReadConfig(p) ==
  /\ At(p, "read") /\ FilesUnchanged /\ Bounded
  /\ LET f == config[On(p)] IN
     \/ (Unwirable(p, f) \/ ~Whole(f)) /\ Return(p) /\ UNCHANGED copies
     \/ /\ ~Unwirable(p, f)
        /\ Set(p, [cmd[p] EXCEPT !.text = f, !.at = IF f = NoFile THEN "write" ELSE "backup"])
        /\ Sees(On(p), f) /\ UNCHANGED saved

(* createBackup() copies the file as it is now, not the text read.         *)
BackUp(p) ==
  /\ At(p, "backup") /\ FilesUnchanged /\ Bounded
  /\ IF config[On(p)] = NoFile
       THEN Return(p) /\ UNCHANGED copies
       ELSE /\ Set(p, [cmd[p] EXCEPT !.backup = config[On(p)], !.at = "write"])
            /\ saved' = [saved EXCEPT ![On(p)] = @ \cup EditsIn(config[On(p)])]
            /\ Sees(On(p), config[On(p)])

Wired(f) == [edits |-> EditsIn(f), entry |-> "good", whole |-> TRUE]

WriteConfig(p) ==
  /\ At(p, "write")
  /\ LET c == On(p) IN
     /\ config' = [config EXCEPT ![c] = Wired(cmd[p].text)]
     /\ prior' = [prior EXCEPT ![c] = cmd[p].text]
     /\ touched' = [touched EXCEPT ![c] = config[c] # cmd[p].text]
  /\ Step(p, "openLedger") /\ UNCHANGED <<ledger, edited, copies>> /\ Bounded

-----------------------------------------------------------------------------
(* unwire()                                                                *)

Recall(p) ==
  /\ At(p, "recall") /\ FilesUnchanged /\ Bounded /\ UNCHANGED copies
  /\ Set(p, [cmd[p] EXCEPT !.record = ledger[On(p)], !.at = "current"])

ReadCurrent(p) ==
  /\ At(p, "current") /\ FilesUnchanged /\ Bounded
  /\ IF config[On(p)] = NoFile
       THEN Return(p) /\ UNCHANGED copies
       ELSE /\ Set(p, [cmd[p] EXCEPT !.text = config[On(p)], !.at = "act"])
            /\ Sees(On(p), config[On(p)]) /\ UNCHANGED saved

(* Mutant: what the user changed since the wiring is not looked at.        *)
PristineEvenIfEdited(p) == cmd[p].record # NoRecord
Pristine(p) == cmd[p].record # NoRecord /\ cmd[p].text = cmd[p].record.hash

Becomes(c, f) ==
  /\ config' = [config EXCEPT ![c] = f]
  /\ touched' = [touched EXCEPT ![c] = TRUE]
  /\ UNCHANGED <<ledger, prior>>

RemoveCreated(p) ==
  /\ At(p, "act") /\ Pristine(p) /\ ~cmd[p].record.existed
  /\ Becomes(On(p), NoFile) /\ Step(p, "openLedger")
  /\ UNCHANGED <<edited, copies>> /\ Bounded

Truncate(p) ==
  /\ At(p, "act") /\ Pristine(p) /\ cmd[p].record.existed
  /\ \E f \in Remnants(cmd[p].record.backup) : Becomes(On(p), f)
  /\ Step(p, "restore")
  /\ UNCHANGED <<edited, copies>> /\ Bounded

(* The descriptor copied into: where another command has renamed a file    *)
(* over the path since, or unlinked it, it is not what the path holds.     *)
CopyBackup(p) ==
  /\ At(p, "restore")
  /\ \/ config[On(p)] # NoFile /\ Becomes(On(p), cmd[p].record.backup)
     \/ Whole(config[On(p)]) /\ UNCHANGED <<config, ledger, prior, touched>>
  /\ Step(p, "openLedger")
  /\ UNCHANGED <<edited, copies>> /\ Bounded

Unremovable(p) == On(p) \in TomlClients /\ cmd[p].text.entry = "stuck"

(* Drifted, no record, or no backup where the record has it: only the      *)
(* entry goes, from the text read.                                         *)
RemoveEntry(p) ==
  /\ At(p, "act")
  /\ Pristine(p) => cmd[p].record.existed /\ moved[On(p)]
  /\ UNCHANGED <<edited, copies>> /\ Bounded
  /\ \/ /\ Unremovable(p) \/ ~cmd[p].text.whole
        /\ Return(p) /\ UNCHANGED <<config, ledger, prior, touched>>
     \/ /\ ~Unremovable(p)
        /\ Becomes(On(p), [cmd[p].text EXCEPT !.entry = "none", !.whole = TRUE])
        /\ Step(p, "openLedger")

-----------------------------------------------------------------------------
(* setClientState() and clearClientState(): the whole ledger is read,      *)
(* changed and written back.                                               *)

OpenLedger(p) ==
  /\ At(p, "openLedger") /\ FilesUnchanged /\ Bounded /\ UNCHANGED copies
  /\ IF cmd[p].op = "unwire" /\ ledger[On(p)] = NoRecord
       THEN Return(p)
       ELSE Set(p, [cmd[p] EXCEPT !.book = ledger, !.at = "writeLedger"])

WriteLedger(p) ==
  /\ At(p, "writeLedger")
  /\ ledger' = [cmd[p].book EXCEPT ![On(p)] =
                  IF cmd[p].op = "unwire" THEN NoRecord
                  ELSE [backup |-> cmd[p].backup, existed |-> cmd[p].text # NoFile,
                        hash |-> Wired(cmd[p].text)]]
  /\ Return(p) /\ UNCHANGED <<config, edited, prior, touched, copies>> /\ Bounded

Die(p) ==
  /\ ~At(p, "idle") /\ deaths < MaxDeaths
  /\ deaths' = deaths + 1 /\ Return(p)
  /\ FilesUnchanged /\ UNCHANGED <<runs, outside, copies>>

-----------------------------------------------------------------------------
(* The client and its user                                                 *)

(* A command has read the config and not yet written it.                   *)
BetweenReadAndWrite(c) ==
  \E p \in Commands : On(p) = c /\ cmd[p].at \in {"backup", "write", "act", "restore"}

Outside(c, f) ==
  /\ outside < MaxOutside /\ outside' = outside + 1
  /\ config[c] # f
  /\ config' = [config EXCEPT ![c] = f] /\ touched' = [touched EXCEPT ![c] = TRUE]
  /\ UNCHANGED <<ledger, prior, cmd, runs, deaths, copies>>

Edited(c, edits) ==
  /\ kept' = [kept EXCEPT ![c] = edits]
  /\ clouded' = [clouded EXCEPT ![c] = @ \/ BetweenReadAndWrite(c)]

EditConfig(c, e) ==
  /\ Outside(c, [edits |-> EditsIn(config[c]) \cup {e}, entry |-> Entry(config[c]),
                 whole |-> Whole(config[c])])
  /\ Edited(c, kept[c] \cup {e})

UndoEdit(c, e) ==
  /\ config[c] # NoFile
  /\ Outside(c, [config[c] EXCEPT !.edits = @ \ {e}])
  /\ Edited(c, kept[c] \ {e})

(* The user changes the entry.                                             *)
SpoilEntry(c, s) ==
  /\ config[c] # NoFile
  /\ s = "stuck" => c \in TomlClients
  /\ Outside(c, [config[c] EXCEPT !.entry = s]) /\ UNCHANGED edited

MoveBackups(c) ==
  /\ outside < MaxOutside /\ outside' = outside + 1
  /\ ~moved[c] /\ moved' = [moved EXCEPT ![c] = TRUE]
  /\ touched' = [touched EXCEPT ![c] = TRUE]
  /\ UNCHANGED <<config, ledger, cmd, runs, deaths, edited, prior, saved, torn>>

WiringNext ==
  \/ \E p \in Commands, op \in {"wire", "unwire"}, c \in Clients : Begin(p, op, c)
  \/ \E p \in Commands :
       \/ Inspect(p) \/ ReadConfig(p) \/ BackUp(p) \/ WriteConfig(p)
       \/ Recall(p) \/ ReadCurrent(p) \/ RemoveCreated(p) \/ Truncate(p) \/ CopyBackup(p)
       \/ RemoveEntry(p) \/ OpenLedger(p) \/ WriteLedger(p) \/ Die(p)
  \/ \E c \in Clients :
       \/ \E e \in Edits : EditConfig(c, e) \/ UndoEdit(c, e)
       \/ \E s \in {"none", "bad", "stuck"} : SpoilEntry(c, s)
       \/ MoveBackups(c)

WiringSpec == WiringInit /\ [][WiringNext]_wiringVars

-----------------------------------------------------------------------------
(* No edit of the client or its user is ever lost to wire or unwire, also  *)
(* when commands overlap, die, read half-restored configs or lose each     *)
(* other's ledger records: it is in the config or in a backup.  It is in   *)
(* the config itself unless a restore was cut short there, or a command    *)
(* took such a remnant for the config.  Excepted is what is edited between *)
(* a command's read and its write (json-adapter.ts, unwire: post-wire      *)
(* changes must survive).                                                  *)
EditsSurvive ==
  \A c \in Clients : ~clouded[c] =>
    /\ kept[c] \subseteq EditsIn(config[c]) \cup saved[c]
    /\ ~torn[c] /\ Whole(config[c]) => kept[c] \subseteq EditsIn(config[c])

(* "untouched-since-wire configs come back byte-exact" (README.md:240).    *)
UntouchedComesBack ==
  [][\A p \in Commands :
       LET c == On(p)
       IN  (At(p, "act") \/ At(p, "restore")) /\ cmd'[p].at = "openLedger" /\ config'[c] # config[c]
             /\ (~touched[c] \/ At(p, "restore"))
           => config'[c] = prior[c]]_wiringVars
=============================================================================
