------------------------ MODULE ClientWiring_proofs ------------------------
(***************************************************************************)
(* EditsSurvive holds for any clients and commands, and any number of      *)
(* runs, outside changes and crashes: the bounds of the model play no part.*)
(*                                                                         *)
(* The argument: as long as no edit falls between a command's read of a    *)
(* config and its write, the edits of the user are in the config or in the *)
(* backups, and so are those of every text a command holds.  Every record, *)
(* in the ledger, in a copy of the ledger that is about to overwrite it,   *)
(* or about to be written, names a text and a backup whose edits are in    *)
(* the backups: a config that equals that text may go.  While no command   *)
(* has taken a remnant for the config, all these are the very same edits.  *)
(***************************************************************************)
EXTENDS ClientWiring, TLAPS

Places == {"idle", "inspect", "read", "backup", "write", "recall", "current", "act",
           "restore", "openLedger", "writeLedger"}

MaybeRecord == Records \cup {NoRecord}

\* The locals of a running command.
Locals == [op : {"wire", "unwire"}, client : Clients, at : Places, broken : BOOLEAN,
           text : Files, backup : Files, record : MaybeRecord,
           book : [Clients -> MaybeRecord]]

Shapes ==
  /\ config \in [Clients -> Files]
  /\ ledger \in [Clients -> MaybeRecord]
  /\ kept \in [Clients -> SUBSET Edits]
  /\ clouded \in [Clients -> BOOLEAN]
  /\ DOMAIN cmd = Commands
  /\ \A p \in Commands : cmd[p] = Sleeping \/ cmd[p] \in Locals

Copies ==
  /\ saved \in [Clients -> SUBSET Edits]
  /\ torn \in [Clients -> BOOLEAN] /\ moved \in [Clients -> BOOLEAN]

\* Only unwire gets past recall, and has what it is to write back.
HasWhatItNeeds(l) ==
  /\ l.at \in {"recall", "current", "act", "restore"} => l.op = "unwire"
  /\ l.at = "act" => l.text \in Texts
  /\ l.at = "restore" => l.record \in Records

Recalled == \A p \in Commands : HasWhatItNeeds(cmd[p])

(* K stands for the edits of the user, S for those in the backups, and t   *)
(* for whether a remnant was taken for the config.                         *)

FileIsSafe(f, K, S, t) ==
  /\ K \subseteq EditsIn(f) \cup S /\ EditsIn(f) \subseteq K \cup S
  /\ ~t /\ Whole(f) => EditsIn(f) = K

RecordIsSafe(r, S, t) ==
  r # NoRecord =>
    /\ r.existed => EditsIn(r.backup) \subseteq S /\ r.hash.edits \subseteq S
    /\ r.existed /\ ~t => EditsIn(r.backup) = r.hash.edits
    /\ ~r.existed => r.hash.edits = {}

\* What a command holds.
Recovers(l, K, S) ==
  /\ l.at \in {"backup", "write", "act"} =>
       K \subseteq EditsIn(l.text) \cup S /\ EditsIn(l.text) \subseteq K \cup S
  /\ l.at = "restore" => K \subseteq S /\ EditsIn(l.record.backup) \subseteq S
  /\ l.text # NoFile /\ (l.at = "write" \/ (l.at \in {"openLedger", "writeLedger"} /\ l.op = "wire"))
       => EditsIn(l.text) \subseteq S /\ EditsIn(l.backup) \subseteq S

HoldsEdits(l, K) ==
  /\ l.at \in {"backup", "write", "act"} => EditsIn(l.text) = K
  /\ l.at = "restore" => EditsIn(l.record.backup) = K
  /\ l.text # NoFile /\ (l.at = "write" \/ (l.at \in {"openLedger", "writeLedger"} /\ l.op = "wire"))
       => EditsIn(l.backup) = EditsIn(l.text)

LocalsAreSafe(l, c, K, S, t) ==
  /\ l.at # "idle" /\ l.client = c =>
       Recovers(l, K, S) /\ (~t => HoldsEdits(l, K)) /\ RecordIsSafe(l.record, S, t)
  /\ l.at = "writeLedger" => RecordIsSafe(l.book[c], S, t)

ClientIsSafe(c) ==
  ~clouded[c] =>
    /\ FileIsSafe(config[c], kept[c], saved[c], torn[c])
    /\ RecordIsSafe(ledger[c], saved[c], torn[c])
    /\ \A p \in Commands : LocalsAreSafe(cmd[p], c, kept[c], saved[c], torn[c])

Safe == Recalled /\ \A c \in Clients : ClientIsSafe(c)
Inv == Shapes /\ Copies /\ Safe

-----------------------------------------------------------------------------
(* Files.                                                                 *)

LEMMA FileFacts ==
  /\ NoFile \in Files /\ Texts \subseteq Files /\ NoFile \notin Texts
  /\ NoRecord \notin Records
  /\ \A f \in Files : f = NoFile \/ f \in Texts
  /\ EditsIn(NoFile) = {} /\ Whole(NoFile)
BY WiringAssumption DEF Files, EditsIn, Whole

LEMMA TextFacts ==
  ASSUME NEW f \in Texts
  PROVE  /\ EditsIn(f) = f.edits /\ f.edits \subseteq Edits /\ Entry(f) = f.entry
         /\ Whole(f) = f.whole /\ f.whole \in BOOLEAN
         /\ f.entry \in {"none", "good", "bad", "stuck"}
BY WiringAssumption DEF Texts, EditsIn, Entry, Whole

LEMMA EntryFacts ==
  ASSUME NEW f \in Texts, NEW e \in {"none", "good", "bad", "stuck"}
  PROVE  /\ [f EXCEPT !.entry = e] \in Texts
         /\ EditsIn([f EXCEPT !.entry = e]) = EditsIn(f)
         /\ Whole([f EXCEPT !.entry = e]) = Whole(f)
         /\ [f EXCEPT !.entry = e, !.whole = TRUE] \in Texts
         /\ EditsIn([f EXCEPT !.entry = e, !.whole = TRUE]) = EditsIn(f)
<1> DEFINE g == [f EXCEPT !.entry = e]
           h == [f EXCEPT !.entry = e, !.whole = TRUE]
<1>1. g \in Texts /\ g.edits = f.edits /\ g.whole = f.whole
  BY DEF Texts
<1>2. h \in Texts /\ h.edits = f.edits
  BY DEF Texts
<1> HIDE DEF g, h
<1>3. /\ EditsIn(g) = EditsIn(f) /\ Whole(g) = Whole(f) /\ EditsIn(h) = EditsIn(f)
  BY <1>1, <1>2, TextFacts
<1>4. QED
  BY <1>1, <1>2, <1>3 DEF g, h

LEMMA EditFacts ==
  ASSUME NEW f \in Texts, NEW x \in SUBSET Edits
  PROVE  /\ [f EXCEPT !.edits = x] \in Texts
         /\ EditsIn([f EXCEPT !.edits = x]) = x
         /\ Whole([f EXCEPT !.edits = x]) = Whole(f)
<1> DEFINE g == [f EXCEPT !.edits = x]
<1>1. g \in Texts /\ g.edits = x /\ g.whole = f.whole
  BY DEF Texts
<1> HIDE DEF g
<1>2. EditsIn(g) = x /\ Whole(g) = Whole(f)
  BY <1>1, TextFacts
<1>3. QED
  BY <1>1, <1>2 DEF g

LEMMA AllEdits ==
  ASSUME NEW f \in Files
  PROVE  EditsIn(f) \in SUBSET Edits /\ Entry(f) \in {"none", "good", "bad", "stuck"}
         /\ Whole(f) \in BOOLEAN
<1>1. CASE f = NoFile
  BY <1>1 DEF EditsIn, Entry, Whole
<1>2. CASE f \in Texts
  BY <1>2, TextFacts
<1>3. QED
  BY <1>1, <1>2, FileFacts

LEMMA WiredFacts ==
  ASSUME NEW f \in Files
  PROVE  /\ Wired(f) \in Texts
         /\ EditsIn(Wired(f)) = EditsIn(f) /\ Wired(f).edits = EditsIn(f)
<1>1. Wired(f) \in Texts /\ Wired(f).edits = EditsIn(f)
  BY AllEdits DEF Wired, Texts
<1>2. QED
  BY <1>1, TextFacts

LEMMA RemnantFacts ==
  ASSUME NEW b \in Files, NEW f \in Remnants(b)
  PROVE  f \in Texts /\ EditsIn(f) \subseteq EditsIn(b) /\ ~Whole(f)
<1>1. f.edits \subseteq EditsIn(b) /\ f.whole = FALSE
  BY DEF Remnants
<1>2. f \in Texts
  BY AllEdits DEF Remnants, Texts
<1>3. QED
  BY <1>1, <1>2, TextFacts

-----------------------------------------------------------------------------
(* The steps.                                                              *)

LEMMA Running ==
  ASSUME Shapes, NEW p \in Commands, cmd[p].at # "idle"
  PROVE  cmd[p] \in Locals
BY DEF Shapes, Sleeping

LEMMA LocalsMove ==
  ASSUME NEW l \in Locals, NEW a \in Places
  PROVE  /\ [l EXCEPT !.at = a] \in Locals
         /\ \A b \in BOOLEAN : [l EXCEPT !.at = a, !.broken = b] \in Locals
         /\ \A f \in Files : [l EXCEPT !.text = f, !.at = a] \in Locals
         /\ \A f \in Files : [l EXCEPT !.backup = f, !.at = a] \in Locals
         /\ \A r \in MaybeRecord : [l EXCEPT !.record = r, !.at = a] \in Locals
         /\ \A k \in [Clients -> MaybeRecord] : [l EXCEPT !.book = k, !.at = a] \in Locals
<1>1. [l EXCEPT !.at = a] \in Locals
  BY DEF Locals
<1>2. ASSUME NEW b \in BOOLEAN PROVE [l EXCEPT !.at = a, !.broken = b] \in Locals
  BY DEF Locals
<1>3. ASSUME NEW f \in Files PROVE [l EXCEPT !.text = f, !.at = a] \in Locals
  BY DEF Locals
<1>4. ASSUME NEW f \in Files PROVE [l EXCEPT !.backup = f, !.at = a] \in Locals
  BY DEF Locals
<1>5. ASSUME NEW r \in MaybeRecord PROVE [l EXCEPT !.record = r, !.at = a] \in Locals
  BY DEF Locals
<1>6. ASSUME NEW k \in [Clients -> MaybeRecord]
      PROVE  [l EXCEPT !.book = k, !.at = a] \in Locals
  BY DEF Locals
<1>7. QED
  BY <1>1, <1>2, <1>3, <1>4, <1>5, <1>6, Zenon

LEMMA SetShape ==
  ASSUME Shapes, NEW p \in Commands, NEW x, x = Sleeping \/ x \in Locals, Set(p, x)
  PROVE  DOMAIN cmd' = Commands /\ \A q \in Commands : cmd'[q] = Sleeping \/ cmd'[q] \in Locals
BY DEF Shapes, Set

LEMMA OnFacts ==
  ASSUME Shapes, NEW p \in Commands, cmd[p].at # "idle"
  PROVE  /\ cmd[p] \in Locals /\ On(p) \in Clients
         /\ config[On(p)] \in Files /\ ledger[On(p)] \in MaybeRecord
BY Running DEF Shapes, On, Locals

LEMMA ShapesStep == Shapes /\ Recalled /\ [WiringNext]_wiringVars => Shapes'
<1> SUFFICES ASSUME Shapes /\ Recalled, [WiringNext]_wiringVars PROVE Shapes'
  OBVIOUS
<1>1. ASSUME NEW p \in Commands, NEW op \in {"wire", "unwire"}, NEW c \in Clients,
             Begin(p, op, c)
      PROVE  Shapes'
  <2>1. \E x \in Locals : Set(p, x)
    <3>1. [Sleeping EXCEPT !.op = op, !.client = c, !.at = "inspect"] \in Locals
      BY FileFacts DEF Sleeping, Locals, Places, MaybeRecord
    <3>2. QED
      BY <1>1, <3>1 DEF Begin
  <2>2. QED
    BY <1>1, <2>1, SetShape DEF Begin, FilesUnchanged, edited, Shapes
<1>2. ASSUME NEW p \in Commands, Inspect(p) PROVE Shapes'
  <2>1. /\ cmd[p] \in Locals /\ On(p) \in Clients
        /\ config[On(p)] \in Files /\ ledger[On(p)] \in MaybeRecord
    BY <1>2, OnFacts DEF Inspect, At
  <2>2. \/ Return(p)
        \/ \E a \in {"read", "recall"}, b \in BOOLEAN : Set(p, [cmd[p] EXCEPT !.at = a, !.broken = b])
    <3> DEFINE e == Entry(config[On(p)])
               a == IF cmd[p].op = "wire" THEN "read" ELSE "recall"
    <3>1. \/ Return(p)
          \/ Set(p, [cmd[p] EXCEPT !.at = a, !.broken = (e \in {"bad", "stuck"})])
      BY <1>2 DEF Inspect
    <3>2. a \in {"read", "recall"} /\ (e \in {"bad", "stuck"}) \in BOOLEAN
      OBVIOUS
    <3> HIDE DEF e, a
    <3>3. QED
      BY <3>1, <3>2, Zenon
  <2>3. DOMAIN cmd' = Commands /\ \A q \in Commands : cmd'[q] = Sleeping \/ cmd'[q] \in Locals
    BY <2>1, <2>2, SetShape, LocalsMove DEF Return, Places, Shapes
  <2>4. /\ config' \in [Clients -> Files] /\ ledger' \in [Clients -> MaybeRecord]
        /\ UNCHANGED <<kept, clouded>>
    BY <1>2, <2>1 DEF Inspect, Shapes, FilesUnchanged, edited
  <2>5. QED
    BY <2>3, <2>4 DEF Shapes
<1>3. ASSUME NEW p \in Commands, ReadConfig(p) PROVE Shapes'
  <2>1. /\ cmd[p] \in Locals /\ On(p) \in Clients
        /\ config[On(p)] \in Files /\ ledger[On(p)] \in MaybeRecord
    BY <1>3, OnFacts DEF ReadConfig, At
  <2>2. \/ Return(p)
        \/ \E a \in {"backup", "write"} : Set(p, [cmd[p] EXCEPT !.text = config[On(p)], !.at = a])
    BY <1>3 DEF ReadConfig, Step
  <2>3. DOMAIN cmd' = Commands /\ \A q \in Commands : cmd'[q] = Sleeping \/ cmd'[q] \in Locals
    BY <2>1, <2>2, SetShape, LocalsMove DEF Return, Places, Shapes
  <2>4. /\ config' \in [Clients -> Files] /\ ledger' \in [Clients -> MaybeRecord]
        /\ UNCHANGED <<kept, clouded>>
    BY <1>3, <2>1 DEF ReadConfig, Shapes, FilesUnchanged, edited
  <2>5. QED
    BY <2>3, <2>4 DEF Shapes
<1>4. ASSUME NEW p \in Commands, BackUp(p) PROVE Shapes'
  <2>1. /\ cmd[p] \in Locals /\ On(p) \in Clients
        /\ config[On(p)] \in Files /\ ledger[On(p)] \in MaybeRecord
    BY <1>4, OnFacts DEF BackUp, At
  <2>2. \/ Return(p)
        \/ Set(p, [cmd[p] EXCEPT !.backup = config[On(p)], !.at = "write"])
    BY <1>4 DEF BackUp, Step
  <2>3. DOMAIN cmd' = Commands /\ \A q \in Commands : cmd'[q] = Sleeping \/ cmd'[q] \in Locals
    BY <2>1, <2>2, SetShape, LocalsMove DEF Return, Places, Shapes
  <2>4. /\ config' \in [Clients -> Files] /\ ledger' \in [Clients -> MaybeRecord]
        /\ UNCHANGED <<kept, clouded>>
    BY <1>4, <2>1 DEF BackUp, Shapes, FilesUnchanged, edited
  <2>5. QED
    BY <2>3, <2>4 DEF Shapes
<1>5. ASSUME NEW p \in Commands, WriteConfig(p) PROVE Shapes'
  <2>1. /\ cmd[p] \in Locals /\ On(p) \in Clients
        /\ config[On(p)] \in Files /\ ledger[On(p)] \in MaybeRecord
    BY <1>5, OnFacts DEF WriteConfig, At
  <2>2. Set(p, [cmd[p] EXCEPT !.at = "openLedger"])
    BY <1>5 DEF WriteConfig, Step
  <2>3. DOMAIN cmd' = Commands /\ \A q \in Commands : cmd'[q] = Sleeping \/ cmd'[q] \in Locals
    BY <2>1, <2>2, SetShape, LocalsMove DEF Return, Places, Shapes
  <2>4. /\ config' \in [Clients -> Files] /\ ledger' \in [Clients -> MaybeRecord]
        /\ UNCHANGED <<kept, clouded>>
    BY <1>5, <2>1, FileFacts, WiredFacts
    DEF WriteConfig, Locals, Shapes, FilesUnchanged, edited, At
  <2>5. QED
    BY <2>3, <2>4 DEF Shapes
<1>6. ASSUME NEW p \in Commands, Recall(p) PROVE Shapes'
  <2>1. /\ cmd[p] \in Locals /\ On(p) \in Clients
        /\ config[On(p)] \in Files /\ ledger[On(p)] \in MaybeRecord
    BY <1>6, OnFacts DEF Recall, At
  <2>2. Set(p, [cmd[p] EXCEPT !.record = ledger[On(p)], !.at = "current"])
    BY <1>6 DEF Recall, Step
  <2>3. DOMAIN cmd' = Commands /\ \A q \in Commands : cmd'[q] = Sleeping \/ cmd'[q] \in Locals
    BY <2>1, <2>2, SetShape, LocalsMove DEF Return, Places, Shapes
  <2>4. /\ config' \in [Clients -> Files] /\ ledger' \in [Clients -> MaybeRecord]
        /\ UNCHANGED <<kept, clouded>>
    BY <1>6, <2>1 DEF Recall, Shapes, FilesUnchanged, edited
  <2>5. QED
    BY <2>3, <2>4 DEF Shapes
<1>7. ASSUME NEW p \in Commands, ReadCurrent(p) PROVE Shapes'
  <2>1. /\ cmd[p] \in Locals /\ On(p) \in Clients
        /\ config[On(p)] \in Files /\ ledger[On(p)] \in MaybeRecord
    BY <1>7, OnFacts DEF ReadCurrent, At
  <2>2. \/ Return(p)
        \/ Set(p, [cmd[p] EXCEPT !.text = config[On(p)], !.at = "act"])
    BY <1>7 DEF ReadCurrent, Step
  <2>3. DOMAIN cmd' = Commands /\ \A q \in Commands : cmd'[q] = Sleeping \/ cmd'[q] \in Locals
    BY <2>1, <2>2, SetShape, LocalsMove DEF Return, Places, Shapes
  <2>4. /\ config' \in [Clients -> Files] /\ ledger' \in [Clients -> MaybeRecord]
        /\ UNCHANGED <<kept, clouded>>
    BY <1>7, <2>1 DEF ReadCurrent, Shapes, FilesUnchanged, edited
  <2>5. QED
    BY <2>3, <2>4 DEF Shapes
<1>8. ASSUME NEW p \in Commands, RemoveCreated(p) PROVE Shapes'
  <2>1. /\ cmd[p] \in Locals /\ On(p) \in Clients
        /\ config[On(p)] \in Files /\ ledger[On(p)] \in MaybeRecord
    BY <1>8, OnFacts DEF RemoveCreated, At
  <2>2. Set(p, [cmd[p] EXCEPT !.at = "openLedger"])
    BY <1>8 DEF RemoveCreated, Step
  <2>3. DOMAIN cmd' = Commands /\ \A q \in Commands : cmd'[q] = Sleeping \/ cmd'[q] \in Locals
    BY <2>1, <2>2, SetShape, LocalsMove DEF Return, Places, Shapes
  <2>4. /\ config' \in [Clients -> Files] /\ ledger' \in [Clients -> MaybeRecord]
        /\ UNCHANGED <<kept, clouded>>
    BY <1>8, <2>1, FileFacts
    DEF RemoveCreated, Becomes, Shapes, FilesUnchanged, edited, At
  <2>5. QED
    BY <2>3, <2>4 DEF Shapes
<1>9. ASSUME NEW p \in Commands, Truncate(p) PROVE Shapes'
  <2>1. /\ cmd[p] \in Locals /\ On(p) \in Clients
        /\ config[On(p)] \in Files /\ ledger[On(p)] \in MaybeRecord
    BY <1>9, OnFacts DEF Truncate, At
  <2>2. Set(p, [cmd[p] EXCEPT !.at = "restore"])
    BY <1>9 DEF Truncate, Step
  <2>3. DOMAIN cmd' = Commands /\ \A q \in Commands : cmd'[q] = Sleeping \/ cmd'[q] \in Locals
    BY <2>1, <2>2, SetShape, LocalsMove DEF Return, Places, Shapes
  <2>4. /\ config' \in [Clients -> Files] /\ ledger' \in [Clients -> MaybeRecord]
        /\ UNCHANGED <<kept, clouded>>
    <3>1. cmd[p].record \in Records /\ cmd[p].record.backup \in Files
      BY <1>9, <2>1 DEF Truncate, Pristine, Locals, MaybeRecord, Records
    <3>2. PICK f \in Remnants(cmd[p].record.backup) : Becomes(On(p), f)
      BY <1>9 DEF Truncate
    <3>3. f \in Files
      BY <3>1, RemnantFacts, FileFacts
    <3>4. QED
      BY <1>9, <2>1, <3>2, <3>3 DEF Truncate, Becomes, Shapes, edited
  <2>5. QED
    BY <2>3, <2>4 DEF Shapes
<1>10. ASSUME NEW p \in Commands, CopyBackup(p) PROVE Shapes'
  <2>1. /\ cmd[p] \in Locals /\ On(p) \in Clients
        /\ config[On(p)] \in Files /\ ledger[On(p)] \in MaybeRecord
    BY <1>10, OnFacts DEF CopyBackup, At
  <2>2. Set(p, [cmd[p] EXCEPT !.at = "openLedger"])
    BY <1>10 DEF CopyBackup, Step
  <2>3. DOMAIN cmd' = Commands /\ \A q \in Commands : cmd'[q] = Sleeping \/ cmd'[q] \in Locals
    BY <2>1, <2>2, SetShape, LocalsMove DEF Return, Places, Shapes
  <2>4. /\ config' \in [Clients -> Files] /\ ledger' \in [Clients -> MaybeRecord]
        /\ UNCHANGED <<kept, clouded>>
    BY <1>10, <2>1
    DEF CopyBackup, Becomes, Recalled, HasWhatItNeeds, Records, Shapes, FilesUnchanged, edited, At
  <2>5. QED
    BY <2>3, <2>4 DEF Shapes
<1>11. ASSUME NEW p \in Commands, RemoveEntry(p) PROVE Shapes'
  <2>1. /\ cmd[p] \in Locals /\ On(p) \in Clients
        /\ config[On(p)] \in Files /\ ledger[On(p)] \in MaybeRecord
    BY <1>11, OnFacts DEF RemoveEntry, At
  <2>2. \/ Return(p)
        \/ Set(p, [cmd[p] EXCEPT !.at = "openLedger"])
    BY <1>11 DEF RemoveEntry, Step
  <2>3. DOMAIN cmd' = Commands /\ \A q \in Commands : cmd'[q] = Sleeping \/ cmd'[q] \in Locals
    BY <2>1, <2>2, SetShape, LocalsMove DEF Return, Places, Shapes
  <2>4. /\ config' \in [Clients -> Files] /\ ledger' \in [Clients -> MaybeRecord]
        /\ UNCHANGED <<kept, clouded>>
    BY <1>11, <2>1, FileFacts, EntryFacts
    DEF RemoveEntry, Becomes, Recalled, HasWhatItNeeds, Shapes, edited, At
  <2>5. QED
    BY <2>3, <2>4 DEF Shapes
<1>12. ASSUME NEW p \in Commands, OpenLedger(p) PROVE Shapes'
  <2>1. /\ cmd[p] \in Locals /\ On(p) \in Clients
        /\ config[On(p)] \in Files /\ ledger[On(p)] \in MaybeRecord
    BY <1>12, OnFacts DEF OpenLedger, At
  <2>2. \/ Return(p)
        \/ Set(p, [cmd[p] EXCEPT !.book = ledger, !.at = "writeLedger"])
    BY <1>12 DEF OpenLedger, Step
  <2>3. DOMAIN cmd' = Commands /\ \A q \in Commands : cmd'[q] = Sleeping \/ cmd'[q] \in Locals
    BY <2>1, <2>2, SetShape, LocalsMove DEF Return, Places, Shapes
  <2>4. /\ config' \in [Clients -> Files] /\ ledger' \in [Clients -> MaybeRecord]
        /\ UNCHANGED <<kept, clouded>>
    BY <1>12, <2>1 DEF OpenLedger, Shapes, FilesUnchanged, edited
  <2>5. QED
    BY <2>3, <2>4 DEF Shapes
<1>13. ASSUME NEW p \in Commands, WriteLedger(p) PROVE Shapes'
  <2>1. cmd[p] \in Locals /\ On(p) \in Clients
    BY <1>13, OnFacts DEF WriteLedger, At
  <2>2. Set(p, Sleeping)
    BY <1>13 DEF WriteLedger, Return
  <2>3. /\ cmd[p].backup \in Files /\ cmd[p].text \in Files
        /\ cmd[p].book \in [Clients -> MaybeRecord]
    BY <2>1 DEF Locals
  <2>4. PICK r \in MaybeRecord : ledger' = [cmd[p].book EXCEPT ![On(p)] = r]
    <3>1. NoRecord \in MaybeRecord
      BY DEF MaybeRecord
    <3>2. [backup |-> cmd[p].backup, existed |-> cmd[p].text # NoFile,
           hash |-> Wired(cmd[p].text)] \in MaybeRecord
      BY <2>3, WiredFacts DEF MaybeRecord, Records
    <3>3. QED
      BY <1>13, <3>1, <3>2 DEF WriteLedger
  <2>5. UNCHANGED <<config, kept, clouded>>
    BY <1>13 DEF WriteLedger, edited
  <2>6. QED
    BY <2>2, <2>3, <2>4, <2>5, SetShape DEF Shapes
<1>14. ASSUME NEW p \in Commands, Die(p) PROVE Shapes'
  <2>1. Set(p, Sleeping)
    BY <1>14 DEF Die, Return
  <2>2. QED
    BY <1>14, <2>1, SetShape DEF Die, FilesUnchanged, edited, Shapes
<1>15. ASSUME NEW c \in Clients, NEW e \in Edits, EditConfig(c, e) PROVE Shapes'
  <2>1. UNCHANGED <<cmd, ledger>>
    BY <1>15 DEF EditConfig, Outside
  <2>2. config' \in [Clients -> Files]
    <3>1. /\ EditsIn(config[c]) \in SUBSET Edits /\ Whole(config[c]) \in BOOLEAN
          /\ Entry(config[c]) \in {"none", "good", "bad", "stuck"}
      BY AllEdits DEF Shapes
    <3>2. [edits |-> EditsIn(config[c]) \cup {e}, entry |-> Entry(config[c]),
           whole |-> Whole(config[c])] \in Files
      BY <3>1, FileFacts DEF Texts
    <3>3. QED
      BY <1>15, <3>2 DEF EditConfig, Outside, Shapes
  <2>3. kept' \in [Clients -> SUBSET Edits] /\ clouded' \in [Clients -> BOOLEAN]
    BY <1>15 DEF EditConfig, Edited, edited, Shapes
  <2>4. QED
    BY <2>1, <2>2, <2>3 DEF Shapes
<1>16. ASSUME NEW c \in Clients, NEW e \in Edits, UndoEdit(c, e) PROVE Shapes'
  <2>1. UNCHANGED <<cmd, ledger>>
    BY <1>16 DEF UndoEdit, Outside
  <2>2. config' \in [Clients -> Files]
    <3>1. config[c] \in Texts /\ config[c].edits \ {e} \in SUBSET Edits
      BY <1>16, FileFacts, TextFacts DEF UndoEdit, Shapes
    <3>2. [config[c] EXCEPT !.edits = @ \ {e}] \in Files
      BY <3>1, FileFacts, EditFacts
    <3>3. QED
      BY <1>16, <3>2 DEF UndoEdit, Outside, Shapes
  <2>3. kept' \in [Clients -> SUBSET Edits] /\ clouded' \in [Clients -> BOOLEAN]
    BY <1>16 DEF UndoEdit, Edited, edited, Shapes
  <2>4. QED
    BY <2>1, <2>2, <2>3 DEF Shapes
<1>17. ASSUME NEW c \in Clients, NEW s \in {"none", "bad", "stuck"}, SpoilEntry(c, s)
       PROVE  Shapes'
  <2>1. UNCHANGED <<cmd, ledger>>
    BY <1>17 DEF SpoilEntry, Outside
  <2>2. config' \in [Clients -> Files]
    <3>1. config[c] \in Texts
      BY <1>17, FileFacts DEF SpoilEntry, Shapes
    <3>2. [config[c] EXCEPT !.entry = s] \in Files
      BY <3>1, FileFacts, EntryFacts
    <3>3. QED
      BY <1>17, <3>2 DEF SpoilEntry, Outside, Shapes
  <2>3. kept' \in [Clients -> SUBSET Edits] /\ clouded' \in [Clients -> BOOLEAN]
    BY <1>17 DEF SpoilEntry, Edited, edited, Shapes
  <2>4. QED
    BY <2>1, <2>2, <2>3 DEF Shapes
<1>18. ASSUME NEW c \in Clients, MoveBackups(c) PROVE Shapes'
  BY <1>18 DEF MoveBackups, edited, Shapes
<1>19. CASE UNCHANGED wiringVars
  BY <1>19 DEF wiringVars, edited, Shapes
<1>20. QED
  BY <1>1, <1>2, <1>3, <1>4, <1>5, <1>6, <1>7, <1>8, <1>9, <1>10, <1>11, <1>12, <1>13,
     <1>14, <1>15, <1>16, <1>17, <1>18, <1>19
  DEF WiringNext


LEMMA CopiesStep == Shapes /\ Copies /\ [WiringNext]_wiringVars => Copies'
<1> SUFFICES ASSUME Shapes, Copies, [WiringNext]_wiringVars PROVE Copies'
  OBVIOUS
<1>1. ASSUME NEW c, NEW f, Sees(c, f), UNCHANGED saved PROVE Copies'
  BY <1>1 DEF Sees, Copies
<1>2. ASSUME NEW p \in Commands, BackUp(p) PROVE Copies'
  <2>1. On(p) \in Clients /\ EditsIn(config[On(p)]) \in SUBSET Edits
    BY <1>2, OnFacts, AllEdits DEF BackUp, At
  <2>2. CASE UNCHANGED copies
    BY <2>2 DEF copies, Copies
  <2>3. CASE /\ saved' = [saved EXCEPT ![On(p)] = @ \cup EditsIn(config[On(p)])]
             /\ Sees(On(p), config[On(p)])
    BY <2>1, <2>3 DEF Sees, Copies
  <2>4. QED
    BY <1>2, <2>2, <2>3 DEF BackUp
<1>3. ASSUME NEW c \in Clients, MoveBackups(c) PROVE Copies'
  BY <1>3 DEF MoveBackups, Copies
<1>4. CASE UNCHANGED copies
  BY <1>4 DEF copies, Copies
<1>5. QED
  BY <1>1, <1>2, <1>3, <1>4
  DEF WiringNext, wiringVars, Begin, Inspect, ReadConfig, WriteConfig, Recall, ReadCurrent,
      RemoveCreated, Truncate, CopyBackup, RemoveEntry, OpenLedger, WriteLedger, Die,
      EditConfig, UndoEdit, SpoilEntry, Outside

\* What is safe stays safe when more is backed up, and a remnant was read.
LEMMA MoreSaved ==
  ASSUME NEW K, NEW S, NEW S2, S \subseteq S2, NEW t, NEW t2, t => t2
  PROVE  /\ \A f : FileIsSafe(f, K, S, t) => FileIsSafe(f, K, S2, t2)
         /\ \A r : RecordIsSafe(r, S, t) => RecordIsSafe(r, S2, t2)
         /\ \A l, c : LocalsAreSafe(l, c, K, S, t) => LocalsAreSafe(l, c, K, S2, t2)
<1>1. \A f : FileIsSafe(f, K, S, t) => FileIsSafe(f, K, S2, t2)
  BY DEF FileIsSafe
<1>2. \A r : RecordIsSafe(r, S, t) => RecordIsSafe(r, S2, t2)
  BY DEF RecordIsSafe
<1>3. \A l : Recovers(l, K, S) => Recovers(l, K, S2)
  BY DEF Recovers
<1>4. QED
  BY <1>1, <1>2, <1>3 DEF LocalsAreSafe

\* A client whose config, edits and ledger record stay, and no command moves.
LEMMA UnmovedIsSafe ==
  ASSUME NEW c, ClientIsSafe(c), UNCHANGED <<cmd, ledger, saved, torn>>,
         config'[c] = config[c], kept'[c] = kept[c], clouded'[c] = clouded[c]
  PROVE  ClientIsSafe(c)'
BY DEF ClientIsSafe

LEMMA SafeIf ==
  ASSUME Inv, NEW p \in Commands, NEW x, Set(p, x), UNCHANGED <<kept, clouded>>,
         HasWhatItNeeds(x),
         \A c \in Clients : ~clouded[c] =>
           /\ saved[c] \subseteq saved'[c] /\ (torn[c] => torn'[c])
           /\ FileIsSafe(config'[c], kept[c], saved'[c], torn'[c])
           /\ RecordIsSafe(ledger'[c], saved'[c], torn'[c])
           /\ LocalsAreSafe(x, c, kept[c], saved'[c], torn'[c])
  PROVE  Safe'
<1>1. \A q \in Commands : cmd'[q] = IF q = p THEN x ELSE cmd[q]
  BY DEF Set, Inv, Shapes
<1>2. Recalled'
  BY <1>1 DEF Inv, Safe, Recalled
<1>3. ASSUME NEW c \in Clients, ~clouded[c], NEW q \in Commands
      PROVE  LocalsAreSafe(cmd'[q], c, kept[c], saved'[c], torn'[c])
  <2>1. LocalsAreSafe(cmd[q], c, kept[c], saved[c], torn[c])
    BY <1>3 DEF Inv, Safe, ClientIsSafe
  <2>2. LocalsAreSafe(cmd[q], c, kept[c], saved'[c], torn'[c])
    BY <1>3, <2>1, MoreSaved
  <2>3. QED
    BY <1>1, <1>3, <2>2
<1>4. ASSUME NEW c \in Clients PROVE ClientIsSafe(c)'
  BY <1>3 DEF ClientIsSafe
<1>5. QED
  BY <1>2, <1>4 DEF Safe

LEMMA ClientFacts ==
  ASSUME Inv, NEW c \in Clients, ~clouded[c]
  PROVE  /\ FileIsSafe(config[c], kept[c], saved[c], torn[c])
         /\ RecordIsSafe(ledger[c], saved[c], torn[c])
         /\ \A q \in Commands : LocalsAreSafe(cmd[q], c, kept[c], saved[c], torn[c])
BY DEF Inv, Safe, ClientIsSafe

\* A step of a command that changes no file, and reads no config.
LEMMA SafeIfNoFileMoves ==
  ASSUME Inv, NEW p \in Commands, NEW x, Set(p, x), UNCHANGED <<config, ledger, kept, clouded>>,
         UNCHANGED <<saved, torn>>, HasWhatItNeeds(x),
         \A c \in Clients : ~clouded[c] => LocalsAreSafe(x, c, kept[c], saved[c], torn[c])
  PROVE  Safe'
BY SafeIf, ClientFacts

\* A step of a command that rewrites its config.
LEMMA SafeIfConfigMoves ==
  ASSUME Inv, NEW p \in Commands, On(p) \in Clients, NEW x, Set(p, x), NEW f,
         config' = [config EXCEPT ![On(p)] = f],
         UNCHANGED <<ledger, kept, clouded, saved, torn>>, HasWhatItNeeds(x),
         ~clouded[On(p)] => FileIsSafe(f, kept[On(p)], saved[On(p)], torn[On(p)]),
         \A c \in Clients : ~clouded[c] => LocalsAreSafe(x, c, kept[c], saved[c], torn[c])
  PROVE  Safe'
<1>1. \A c \in Clients : config'[c] = IF c = On(p) THEN f ELSE config[c]
  BY DEF Inv, Shapes
<1>2. \A c \in Clients : ~clouded[c] => FileIsSafe(config'[c], kept[c], saved[c], torn[c])
  BY <1>1, ClientFacts
<1>3. QED
  BY <1>2, SafeIf, ClientFacts

LEMMA SleepingIsSafe ==
  HasWhatItNeeds(Sleeping) /\ \A c, K, S, t : LocalsAreSafe(Sleeping, c, K, S, t)
BY DEF HasWhatItNeeds, LocalsAreSafe, Sleeping

\* A command that ends, and leaves the files as they are.
LEMMA ReturnIsSafe ==
  ASSUME Inv, NEW p \in Commands, Return(p), UNCHANGED <<config, ledger, kept, clouded>>,
         UNCHANGED <<saved, torn>>
  PROVE  Safe'
BY SafeIfNoFileMoves, SleepingIsSafe DEF Return

LEMMA RunningFacts ==
  ASSUME Inv, NEW p \in Commands, cmd[p].at # "idle"
  PROVE  /\ cmd[p] \in Locals /\ On(p) \in Clients /\ cmd[p].client = On(p)
         /\ config[On(p)] \in Files /\ ledger[On(p)] \in MaybeRecord
         /\ HasWhatItNeeds(cmd[p])
         /\ ~clouded[On(p)] =>
              /\ FileIsSafe(config[On(p)], kept[On(p)], saved[On(p)], torn[On(p)])
              /\ Recovers(cmd[p], kept[On(p)], saved[On(p)])
              /\ ~torn[On(p)] => HoldsEdits(cmd[p], kept[On(p)])
              /\ RecordIsSafe(cmd[p].record, saved[On(p)], torn[On(p)])
<1>1. /\ cmd[p] \in Locals /\ On(p) \in Clients /\ cmd[p].client = On(p)
      /\ config[On(p)] \in Files /\ ledger[On(p)] \in MaybeRecord
  BY OnFacts DEF Inv, On
<1>2. HasWhatItNeeds(cmd[p])
  BY DEF Inv, Safe, Recalled
<1>3. ~clouded[On(p)] =>
        /\ FileIsSafe(config[On(p)], kept[On(p)], saved[On(p)], torn[On(p)])
        /\ LocalsAreSafe(cmd[p], On(p), kept[On(p)], saved[On(p)], torn[On(p)])
  BY <1>1, ClientFacts
<1>4. QED
  BY <1>1, <1>2, <1>3 DEF LocalsAreSafe

LEMMA SafeStep == Inv /\ [WiringNext]_wiringVars => Safe'
<1> SUFFICES ASSUME Inv, [WiringNext]_wiringVars PROVE Safe'
  OBVIOUS
<1>1. ASSUME NEW p \in Commands, NEW op \in {"wire", "unwire"}, NEW d \in Clients,
             Begin(p, op, d)
      PROVE  Safe'
  <2> DEFINE x == [Sleeping EXCEPT !.op = op, !.client = d, !.at = "inspect"]
  <2>1. x.at = "inspect" /\ x.record = NoRecord
    BY DEF Sleeping
  <2> HIDE DEF x
  <2>2. Set(p, x) /\ UNCHANGED <<config, ledger, kept, clouded, saved, torn>>
    BY <1>1 DEF Begin, FilesUnchanged, edited, copies, x
  <2>3. HasWhatItNeeds(x) /\ \A c, K, S, t : LocalsAreSafe(x, c, K, S, t)
    BY <2>1 DEF HasWhatItNeeds, LocalsAreSafe, Recovers, HoldsEdits, RecordIsSafe
  <2>4. QED
    BY <2>2, <2>3, SafeIfNoFileMoves
<1>2. ASSUME NEW p \in Commands, Inspect(p) PROVE Safe'
  <2>1. cmd[p].at = "inspect" /\ cmd[p] \in Locals /\ cmd[p].client = On(p) /\ HasWhatItNeeds(cmd[p])
    BY <1>2, RunningFacts DEF Inspect, At
  <2>2. UNCHANGED <<config, ledger, kept, clouded, saved, torn>>
    BY <1>2 DEF Inspect, FilesUnchanged, edited, copies
  <2>3. CASE Return(p)
    BY <2>2, <2>3, ReturnIsSafe
  <2>4. ASSUME NEW a \in {"read", "recall"}, NEW b \in BOOLEAN,
               a = "recall" => cmd[p].op = "unwire",
               Set(p, [cmd[p] EXCEPT !.at = a, !.broken = b])
        PROVE  Safe'
    <3> DEFINE x == [cmd[p] EXCEPT !.at = a, !.broken = b]
    <3>1. x.client = On(p) /\ x.op = cmd[p].op /\ x.at = a /\ x.record = cmd[p].record
      BY <2>1, <2>4 DEF Locals
    <3> HIDE DEF x
    <3>2. HasWhatItNeeds(x)
      BY <2>4, <3>1 DEF HasWhatItNeeds
    <3>3. ASSUME NEW c \in Clients, ~clouded[c] PROVE LocalsAreSafe(x, c, kept[c], saved[c], torn[c])
      <4>1. LocalsAreSafe(cmd[p], c, kept[c], saved[c], torn[c])
        BY <3>3, ClientFacts
      <4>2. QED
        BY <2>1, <3>1, <4>1 DEF LocalsAreSafe, Recovers, HoldsEdits
    <3>4. QED
      BY <2>2, <2>4, <3>2, <3>3, SafeIfNoFileMoves DEF x
  <2>5. \/ Return(p)
        \/ \E a \in {"read", "recall"}, b \in BOOLEAN :
             /\ Set(p, [cmd[p] EXCEPT !.at = a, !.broken = b])
             /\ a = "recall" => cmd[p].op = "unwire"
    <3> DEFINE e == Entry(config[On(p)])
               a == IF cmd[p].op = "wire" THEN "read" ELSE "recall"
    <3>1. \/ Return(p)
          \/ Set(p, [cmd[p] EXCEPT !.at = a, !.broken = (e \in {"bad", "stuck"})])
      BY <1>2 DEF Inspect
    <3>2. /\ a \in {"read", "recall"} /\ (e \in {"bad", "stuck"}) \in BOOLEAN
          /\ a = "recall" => cmd[p].op = "unwire"
      BY <2>1 DEF Locals
    <3> HIDE DEF e, a
    <3>3. QED
      BY <3>1, <3>2, Zenon
  <2>6. QED
    BY <2>3, <2>4, <2>5
<1>3. ASSUME NEW p \in Commands, NEW a \in {"backup", "write", "act"}, cmd[p].at \in {"read", "current"},
             a = "act" => cmd[p].op = "unwire" /\ config[On(p)] # NoFile,
             a = "write" => config[On(p)] = NoFile,
             Set(p, [cmd[p] EXCEPT !.text = config[On(p)], !.at = a]), Sees(On(p), config[On(p)]),
             UNCHANGED <<config, ledger, kept, clouded, saved>>
      PROVE  Safe'
  <2>1. /\ cmd[p] \in Locals /\ On(p) \in Clients /\ cmd[p].client = On(p) /\ HasWhatItNeeds(cmd[p])
        /\ config[On(p)] \in Files
    BY <1>3, RunningFacts
  <2> DEFINE x == [cmd[p] EXCEPT !.text = config[On(p)], !.at = a]
  <2>2. /\ x.client = On(p) /\ x.op = cmd[p].op /\ x.at = a /\ x.text = config[On(p)]
        /\ x.record = cmd[p].record
    BY <1>3, <2>1 DEF Locals
  <2> HIDE DEF x
  <2>3. HasWhatItNeeds(x)
    BY <1>3, <2>1, <2>2, FileFacts DEF HasWhatItNeeds
  <2>4. /\ \A c \in Clients : torn[c] => torn'[c]
        /\ ~torn'[On(p)] => ~torn[On(p)] /\ Whole(config[On(p)])
    BY <1>3, <2>1 DEF Sees, Inv, Copies
  <2>5. ASSUME NEW c \in Clients, ~clouded[c]
        PROVE  LocalsAreSafe(x, c, kept[c], saved'[c], torn'[c])
    <3>1. CASE c # On(p)
      BY <1>3, <2>2, <3>1 DEF LocalsAreSafe
    <3>2. CASE c = On(p)
      <4>1. /\ FileIsSafe(config[c], kept[c], saved[c], torn[c])
            /\ RecordIsSafe(cmd[p].record, saved[c], torn[c])
        BY <1>3, <2>5, <3>2, RunningFacts
      <4>2. Recovers(x, kept[c], saved'[c])
        BY <1>3, <2>2, <3>2, <4>1 DEF Recovers, FileIsSafe
      <4>3. ~torn'[c] => HoldsEdits(x, kept[c])
        BY <1>3, <2>2, <2>4, <3>2, <4>1 DEF HoldsEdits, FileIsSafe
      <4>4. RecordIsSafe(x.record, saved'[c], torn'[c])
        BY <1>3, <2>2, <2>4, <3>2, <4>1 DEF RecordIsSafe
      <4>5. QED
        BY <1>3, <2>2, <4>2, <4>3, <4>4 DEF LocalsAreSafe
    <3>3. QED
      BY <3>1, <3>2
  <2>6. ASSUME NEW c \in Clients, ~clouded[c]
        PROVE  /\ FileIsSafe(config'[c], kept[c], saved'[c], torn'[c])
               /\ RecordIsSafe(ledger'[c], saved'[c], torn'[c])
    BY <1>3, <2>4, <2>6, ClientFacts, MoreSaved
  <2>7. Set(p, x)
    BY <1>3 DEF x
  <2>8. QED
    BY <1>3, <2>3, <2>4, <2>5, <2>6, <2>7, SafeIf
<1>4. ASSUME NEW p \in Commands, ReadConfig(p) PROVE Safe'
  <2>1. UNCHANGED <<config, ledger, kept, clouded>> /\ cmd[p].at = "read"
    BY <1>4 DEF ReadConfig, FilesUnchanged, edited, At
  <2>2. CASE Return(p) /\ UNCHANGED copies
    BY <2>1, <2>2, ReturnIsSafe DEF copies
  <2>3. CASE /\ \E a \in {"backup", "write"} :
                  /\ Set(p, [cmd[p] EXCEPT !.text = config[On(p)], !.at = a])
                  /\ a = "write" => config[On(p)] = NoFile
             /\ Sees(On(p), config[On(p)]) /\ UNCHANGED saved
    BY <1>3, <2>1, <2>3
  <2>4. QED
    BY <1>4, <2>2, <2>3 DEF ReadConfig
<1>5. ASSUME NEW p \in Commands, ReadCurrent(p) PROVE Safe'
  <2>1. UNCHANGED <<config, ledger, kept, clouded>> /\ cmd[p].at = "current"
    BY <1>5 DEF ReadCurrent, FilesUnchanged, edited, At
  <2>2. CASE Return(p) /\ UNCHANGED copies
    BY <2>1, <2>2, ReturnIsSafe DEF copies
  <2>3. cmd[p].op = "unwire"
    BY <2>1, RunningFacts DEF HasWhatItNeeds
  <2>4. CASE /\ Set(p, [cmd[p] EXCEPT !.text = config[On(p)], !.at = "act"])
             /\ config[On(p)] # NoFile
             /\ Sees(On(p), config[On(p)]) /\ UNCHANGED saved
    BY <1>3, <2>1, <2>3, <2>4
  <2>5. QED
    BY <1>5, <2>2, <2>4 DEF ReadCurrent
<1>6. ASSUME NEW p \in Commands, BackUp(p) PROVE Safe'
  <2>1. UNCHANGED <<config, ledger, kept, clouded>> /\ cmd[p].at = "backup"
    BY <1>6 DEF BackUp, FilesUnchanged, edited, At
  <2>2. /\ cmd[p] \in Locals /\ On(p) \in Clients /\ cmd[p].client = On(p)
    BY <2>1, RunningFacts
  <2>3. CASE Return(p) /\ UNCHANGED copies
    BY <2>1, <2>3, ReturnIsSafe DEF copies
  <2>4. ASSUME Set(p, [cmd[p] EXCEPT !.backup = config[On(p)], !.at = "write"]),
               saved' = [saved EXCEPT ![On(p)] = @ \cup EditsIn(config[On(p)])],
               Sees(On(p), config[On(p)])
        PROVE  Safe'
    <3> DEFINE x == [cmd[p] EXCEPT !.backup = config[On(p)], !.at = "write"]
    <3>1. /\ x.client = On(p) /\ x.op = cmd[p].op /\ x.at = "write" /\ x.text = cmd[p].text
          /\ x.backup = config[On(p)] /\ x.record = cmd[p].record
      BY <2>2 DEF Locals
    <3> HIDE DEF x
    <3>2. HasWhatItNeeds(x)
      BY <3>1 DEF HasWhatItNeeds
    <3>3. /\ \A c \in Clients : (torn[c] => torn'[c]) /\ saved[c] \subseteq saved'[c]
          /\ ~torn'[On(p)] => ~torn[On(p)] /\ Whole(config[On(p)])
          /\ saved'[On(p)] = saved[On(p)] \cup EditsIn(config[On(p)])
      BY <2>2, <2>4 DEF Sees, Inv, Copies
    <3>4. ASSUME NEW c \in Clients, ~clouded[c]
          PROVE  LocalsAreSafe(x, c, kept[c], saved'[c], torn'[c])
      <4>1. CASE c # On(p)
        BY <3>1, <4>1 DEF LocalsAreSafe
      <4>2. CASE c = On(p)
        <5>1. /\ FileIsSafe(config[c], kept[c], saved[c], torn[c])
              /\ Recovers(cmd[p], kept[c], saved[c])
              /\ ~torn[c] => HoldsEdits(cmd[p], kept[c])
              /\ RecordIsSafe(cmd[p].record, saved[c], torn[c])
          BY <2>1, <3>4, <4>2, RunningFacts
        <5>2. Recovers(x, kept[c], saved'[c])
          BY <2>1, <3>1, <3>3, <4>2, <5>1 DEF Recovers, FileIsSafe
        <5>3. ~torn'[c] => HoldsEdits(x, kept[c])
          BY <2>1, <3>1, <3>3, <4>2, <5>1 DEF HoldsEdits, FileIsSafe
        <5>4. RecordIsSafe(x.record, saved'[c], torn'[c])
          BY <3>1, <3>3, <4>2, <5>1, MoreSaved
        <5>5. QED
          BY <3>1, <5>2, <5>3, <5>4 DEF LocalsAreSafe
      <4>3. QED
        BY <4>1, <4>2
    <3>5. ASSUME NEW c \in Clients, ~clouded[c]
          PROVE  /\ FileIsSafe(config'[c], kept[c], saved'[c], torn'[c])
                 /\ RecordIsSafe(ledger'[c], saved'[c], torn'[c])
      BY <2>1, <3>3, <3>5, ClientFacts, MoreSaved
    <3>6. Set(p, x)
      BY <2>4 DEF x
    <3>7. QED
      BY <2>1, <3>2, <3>3, <3>4, <3>5, <3>6, SafeIf
  <2>5. QED
    BY <1>6, <2>3, <2>4 DEF BackUp
<1>7. ASSUME NEW p \in Commands, Recall(p) PROVE Safe'
  <2>1. cmd[p].at = "recall" /\ cmd[p] \in Locals /\ cmd[p].client = On(p) /\ HasWhatItNeeds(cmd[p])
    BY <1>7, RunningFacts DEF Recall, At
  <2>2. UNCHANGED <<config, ledger, kept, clouded, saved, torn>>
    BY <1>7 DEF Recall, FilesUnchanged, edited, copies
  <2> DEFINE x == [cmd[p] EXCEPT !.record = ledger[On(p)], !.at = "current"]
  <2>3. x.client = On(p) /\ x.op = cmd[p].op /\ x.at = "current" /\ x.record = ledger[On(p)]
    BY <2>1 DEF Locals
  <2> HIDE DEF x
  <2>4. HasWhatItNeeds(x)
    BY <2>1, <2>3 DEF HasWhatItNeeds
  <2>5. ASSUME NEW c \in Clients, ~clouded[c] PROVE LocalsAreSafe(x, c, kept[c], saved[c], torn[c])
    BY <2>3, <2>5, ClientFacts DEF LocalsAreSafe, Recovers, HoldsEdits
  <2>6. QED
    BY <1>7, <2>2, <2>4, <2>5, SafeIfNoFileMoves DEF Recall, x
<1>8. ASSUME NEW p \in Commands, OpenLedger(p) PROVE Safe'
  <2>1. cmd[p].at = "openLedger" /\ cmd[p] \in Locals /\ cmd[p].client = On(p)
    BY <1>8, RunningFacts DEF OpenLedger, At
  <2>2. UNCHANGED <<config, ledger, kept, clouded, saved, torn>>
    BY <1>8 DEF OpenLedger, FilesUnchanged, edited, copies
  <2>3. CASE Return(p)
    BY <2>2, <2>3, ReturnIsSafe
  <2>4. ASSUME Set(p, [cmd[p] EXCEPT !.book = ledger, !.at = "writeLedger"]) PROVE Safe'
    <3> DEFINE x == [cmd[p] EXCEPT !.book = ledger, !.at = "writeLedger"]
    <3>1. /\ x.client = On(p) /\ x.op = cmd[p].op /\ x.at = "writeLedger" /\ x.book = ledger
          /\ x.text = cmd[p].text /\ x.backup = cmd[p].backup /\ x.record = cmd[p].record
      BY <2>1 DEF Locals
    <3> HIDE DEF x
    <3>2. HasWhatItNeeds(x)
      BY <3>1 DEF HasWhatItNeeds
    <3>3. ASSUME NEW c \in Clients, ~clouded[c] PROVE LocalsAreSafe(x, c, kept[c], saved[c], torn[c])
      <4>1. /\ LocalsAreSafe(cmd[p], c, kept[c], saved[c], torn[c])
            /\ RecordIsSafe(ledger[c], saved[c], torn[c])
        BY <3>3, ClientFacts
      <4>2. QED
        BY <2>1, <3>1, <4>1 DEF LocalsAreSafe, Recovers, HoldsEdits
    <3>4. QED
      BY <2>2, <2>4, <3>2, <3>3, SafeIfNoFileMoves DEF x
  <2>5. QED
    BY <1>8, <2>3, <2>4 DEF OpenLedger
<1>9. ASSUME NEW p \in Commands, NEW f, Step(p, "openLedger"), cmd[p].at # "idle",
             config' = [config EXCEPT ![On(p)] = f],
             UNCHANGED <<ledger, kept, clouded, saved, torn>>,
             ~clouded[On(p)] => FileIsSafe(f, kept[On(p)], saved[On(p)], torn[On(p)]),
             cmd[p].at = "write" \/ cmd[p].op = "unwire"
      PROVE  Safe'
  <2>1. cmd[p] \in Locals /\ On(p) \in Clients /\ cmd[p].client = On(p)
    BY <1>9, RunningFacts
  <2> DEFINE x == [cmd[p] EXCEPT !.at = "openLedger"]
  <2>2. /\ x.client = On(p) /\ x.at = "openLedger" /\ x.op = cmd[p].op /\ x.text = cmd[p].text
        /\ x.backup = cmd[p].backup /\ x.record = cmd[p].record
    BY <2>1 DEF Locals
  <2> HIDE DEF x
  <2>3. HasWhatItNeeds(x)
    BY <2>2 DEF HasWhatItNeeds
  <2>4. ASSUME NEW c \in Clients, ~clouded[c] PROVE LocalsAreSafe(x, c, kept[c], saved[c], torn[c])
    <3>1. LocalsAreSafe(cmd[p], c, kept[c], saved[c], torn[c])
      BY <2>4, ClientFacts
    <3>2. QED
      BY <1>9, <2>1, <2>2, <3>1 DEF LocalsAreSafe, Recovers, HoldsEdits
  <2>5. QED
    BY <1>9, <2>1, <2>3, <2>4, SafeIfConfigMoves DEF Step, x
<1>10. ASSUME NEW p \in Commands, WriteConfig(p) PROVE Safe'
  <2>1. /\ cmd[p].at = "write" /\ cmd[p].text \in Files
        /\ ~clouded[On(p)] =>
              /\ Recovers(cmd[p], kept[On(p)], saved[On(p)])
              /\ ~torn[On(p)] => HoldsEdits(cmd[p], kept[On(p)])
    BY <1>10, RunningFacts DEF WriteConfig, At, Locals
  <2>2. ~clouded[On(p)] =>
          FileIsSafe(Wired(cmd[p].text), kept[On(p)], saved[On(p)], torn[On(p)])
    BY <2>1, WiredFacts DEF FileIsSafe, Recovers, HoldsEdits
  <2>3. QED
    BY <1>9, <1>10, <2>1, <2>2 DEF WriteConfig, edited, copies
<1>11. ASSUME NEW p \in Commands, RemoveCreated(p) PROVE Safe'
  <2>1. /\ cmd[p].at = "act" /\ HasWhatItNeeds(cmd[p])
        /\ ~clouded[On(p)] =>
              /\ Recovers(cmd[p], kept[On(p)], saved[On(p)])
              /\ ~torn[On(p)] => HoldsEdits(cmd[p], kept[On(p)])
              /\ RecordIsSafe(cmd[p].record, saved[On(p)], torn[On(p)])
    BY <1>11, RunningFacts DEF RemoveCreated, At
  <2>2. cmd[p].text \in Texts /\ cmd[p].op = "unwire" /\ EditsIn(cmd[p].text) = cmd[p].text.edits
    BY <2>1, TextFacts DEF HasWhatItNeeds
  <2>3. ~clouded[On(p)] => FileIsSafe(NoFile, kept[On(p)], saved[On(p)], torn[On(p)])
    BY <1>11, <2>1, <2>2, FileFacts
    DEF RemoveCreated, Pristine, FileIsSafe, Recovers, HoldsEdits, RecordIsSafe
  <2>4. QED
    BY <1>9, <1>11, <2>1, <2>2, <2>3 DEF RemoveCreated, Becomes, edited, copies
<1>12. ASSUME NEW p \in Commands, Truncate(p) PROVE Safe'
  <2>1. /\ cmd[p].at = "act" /\ HasWhatItNeeds(cmd[p]) /\ cmd[p] \in Locals
        /\ On(p) \in Clients /\ cmd[p].client = On(p)
        /\ ~clouded[On(p)] =>
              /\ Recovers(cmd[p], kept[On(p)], saved[On(p)])
              /\ ~torn[On(p)] => HoldsEdits(cmd[p], kept[On(p)])
              /\ RecordIsSafe(cmd[p].record, saved[On(p)], torn[On(p)])
    BY <1>12, RunningFacts DEF Truncate, At
  <2>2. /\ cmd[p].text \in Texts /\ cmd[p].op = "unwire"
        /\ EditsIn(cmd[p].text) = cmd[p].text.edits
        /\ cmd[p].record \in Records /\ cmd[p].record # NoRecord /\ cmd[p].record.backup \in Files
    BY <1>12, <2>1, TextFacts DEF HasWhatItNeeds, Truncate, Pristine, Locals, MaybeRecord, Records
  <2>3. PICK f \in Remnants(cmd[p].record.backup) : config' = [config EXCEPT ![On(p)] = f]
    BY <1>12 DEF Truncate, Becomes
  <2>4. EditsIn(f) \subseteq EditsIn(cmd[p].record.backup) /\ ~Whole(f)
    BY <2>2, RemnantFacts
  <2>5. ~clouded[On(p)] =>
          /\ kept[On(p)] \subseteq saved[On(p)]
          /\ EditsIn(cmd[p].record.backup) \subseteq saved[On(p)]
          /\ ~torn[On(p)] => EditsIn(cmd[p].record.backup) = kept[On(p)]
    BY <1>12, <2>1, <2>2 DEF Truncate, Pristine, Recovers, HoldsEdits, RecordIsSafe
  <2>6. ~clouded[On(p)] => FileIsSafe(f, kept[On(p)], saved[On(p)], torn[On(p)])
    BY <2>4, <2>5 DEF FileIsSafe
  <2> DEFINE x == [cmd[p] EXCEPT !.at = "restore"]
  <2>7. /\ x.client = On(p) /\ x.at = "restore" /\ x.op = "unwire" /\ x.record = cmd[p].record
    BY <2>1, <2>2 DEF Locals
  <2>8. Set(p, x)
    BY <1>12 DEF Truncate, Step
  <2> HIDE DEF x
  <2>9. HasWhatItNeeds(x)
    BY <2>2, <2>7 DEF HasWhatItNeeds
  <2>10. ASSUME NEW c \in Clients, ~clouded[c] PROVE LocalsAreSafe(x, c, kept[c], saved[c], torn[c])
    <3>1. CASE c # On(p)
      BY <2>7, <3>1 DEF LocalsAreSafe
    <3>2. CASE c = On(p)
      BY <2>1, <2>5, <2>7, <2>10, <3>2 DEF LocalsAreSafe, Recovers, HoldsEdits
    <3>3. QED
      BY <3>1, <3>2
  <2>11. UNCHANGED <<ledger, kept, clouded, saved, torn>>
    BY <1>12 DEF Truncate, Becomes, edited, copies
  <2>12. QED
    BY <2>1, <2>3, <2>6, <2>8, <2>9, <2>10, <2>11, SafeIfConfigMoves
<1>13. ASSUME NEW p \in Commands, CopyBackup(p) PROVE Safe'
  <2>1. /\ cmd[p].at = "restore" /\ cmd[p].op = "unwire" /\ On(p) \in Clients
        /\ ~clouded[On(p)] =>
              /\ FileIsSafe(config[On(p)], kept[On(p)], saved[On(p)], torn[On(p)])
              /\ Recovers(cmd[p], kept[On(p)], saved[On(p)])
              /\ ~torn[On(p)] => HoldsEdits(cmd[p], kept[On(p)])
    BY <1>13, RunningFacts DEF CopyBackup, At, HasWhatItNeeds
  <2>2. ~clouded[On(p)] =>
          FileIsSafe(cmd[p].record.backup, kept[On(p)], saved[On(p)], torn[On(p)])
    BY <2>1 DEF FileIsSafe, Recovers, HoldsEdits
  <2>3. UNCHANGED <<ledger, kept, clouded, saved, torn>> /\ Step(p, "openLedger")
    BY <1>13 DEF CopyBackup, Becomes, edited, copies
  <2>4. CASE config' = [config EXCEPT ![On(p)] = cmd[p].record.backup]
    BY <1>9, <2>1, <2>2, <2>3, <2>4
  <2>5. CASE config' = config
    <3>1. config' = [config EXCEPT ![On(p)] = config[On(p)]]
      BY <2>1, <2>5 DEF Inv, Shapes
    <3>2. QED
      BY <1>9, <2>1, <2>3, <3>1
  <2>6. QED
    BY <1>13, <2>4, <2>5 DEF CopyBackup, Becomes
<1>14. ASSUME NEW p \in Commands, RemoveEntry(p) PROVE Safe'
  <2>1. /\ cmd[p].at = "act" /\ cmd[p].op = "unwire" /\ cmd[p].text \in Texts
        /\ ~clouded[On(p)] =>
              /\ Recovers(cmd[p], kept[On(p)], saved[On(p)])
              /\ ~torn[On(p)] => HoldsEdits(cmd[p], kept[On(p)])
    BY <1>14, RunningFacts DEF RemoveEntry, At, HasWhatItNeeds
  <2>2. UNCHANGED <<ledger, kept, clouded, saved, torn>>
    BY <1>14 DEF RemoveEntry, Becomes, edited, copies
  <2>3. CASE Return(p) /\ UNCHANGED config
    BY <2>2, <2>3, ReturnIsSafe
  <2>4. ~clouded[On(p)] =>
          FileIsSafe([cmd[p].text EXCEPT !.entry = "none", !.whole = TRUE],
                     kept[On(p)], saved[On(p)], torn[On(p)])
    BY <2>1, EntryFacts DEF FileIsSafe, Recovers, HoldsEdits
  <2>5. CASE /\ config' = [config EXCEPT ![On(p)] =
                              [cmd[p].text EXCEPT !.entry = "none", !.whole = TRUE]]
             /\ Step(p, "openLedger")
    BY <1>9, <2>1, <2>2, <2>4, <2>5
  <2>6. QED
    BY <1>14, <2>3, <2>5 DEF RemoveEntry, Becomes
<1>15. ASSUME NEW p \in Commands, WriteLedger(p) PROVE Safe'
  <2>1. /\ cmd[p] \in Locals /\ On(p) \in Clients /\ cmd[p].client = On(p)
        /\ cmd[p].at = "writeLedger"
    BY <1>15, RunningFacts DEF WriteLedger, At
  <2>2. /\ cmd[p].book \in [Clients -> MaybeRecord] /\ cmd[p].text \in Files
        /\ cmd[p].op \in {"wire", "unwire"}
    BY <2>1 DEF Locals
  <2>3. Set(p, Sleeping) /\ UNCHANGED <<config, kept, clouded, saved, torn>>
    BY <1>15 DEF WriteLedger, Return, edited, copies
  <2> DEFINE r == [backup |-> cmd[p].backup, existed |-> cmd[p].text # NoFile,
                  hash |-> Wired(cmd[p].text)]
  <2>4. ASSUME NEW c \in Clients, ~clouded[c] PROVE RecordIsSafe(ledger'[c], saved[c], torn[c])
    <3>0. LocalsAreSafe(cmd[p], c, kept[c], saved[c], torn[c])
      BY <2>4, ClientFacts
    <3>1. CASE c # On(p)
      <4>1. ledger'[c] = cmd[p].book[c]
        BY <1>15, <2>2, <3>1 DEF WriteLedger
      <4>2. QED
        BY <2>1, <3>0, <4>1 DEF LocalsAreSafe
    <3>2. CASE c = On(p) /\ cmd[p].op = "unwire"
      <4>1. ledger'[c] = NoRecord
        BY <1>15, <2>2, <3>2 DEF WriteLedger
      <4>2. QED
        BY <4>1 DEF RecordIsSafe
    <3>3. CASE c = On(p) /\ cmd[p].op = "wire"
      <4>1. ledger'[c] = r
        BY <1>15, <2>2, <3>3 DEF WriteLedger
      <4>2. cmd[p].text # NoFile =>
              /\ EditsIn(cmd[p].text) \subseteq saved[c] /\ EditsIn(cmd[p].backup) \subseteq saved[c]
              /\ ~torn[c] => EditsIn(cmd[p].backup) = EditsIn(cmd[p].text)
        BY <2>1, <3>0, <3>3 DEF LocalsAreSafe, Recovers, HoldsEdits
      <4>3. /\ r.existed = (cmd[p].text # NoFile) /\ r.backup = cmd[p].backup
            /\ r.hash.edits = EditsIn(cmd[p].text)
        BY <2>2, WiredFacts
      <4>4. cmd[p].text = NoFile => r.hash.edits = {}
        BY <4>3, FileFacts
      <4> HIDE DEF r
      <4>5. QED
        BY <4>1, <4>2, <4>3, <4>4 DEF RecordIsSafe
    <3>4. QED
      BY <2>2, <3>1, <3>2, <3>3
  <2>5. QED
    BY <2>3, <2>4, SafeIf, SleepingIsSafe, ClientFacts
<1>16. ASSUME NEW p \in Commands, Die(p) PROVE Safe'
  BY <1>16, ReturnIsSafe DEF Die, FilesUnchanged, edited, copies
<1>17. ASSUME NEW d \in Clients, NEW K \in SUBSET Edits, NEW f, Edited(d, K),
              config' = [config EXCEPT ![d] = f], UNCHANGED <<cmd, ledger, saved, torn>>,
              FileIsSafe(config[d], kept[d], saved[d], torn[d]) =>
                FileIsSafe(f, K, saved[d], torn[d])
       PROVE  Safe'
  <2>1. /\ \A c \in Clients \ {d} : config'[c] = config[c] /\ kept'[c] = kept[c] /\ clouded'[c] = clouded[c]
        /\ config'[d] = f /\ kept'[d] = K /\ (clouded'[d] <=> clouded[d] \/ BetweenReadAndWrite(d))
    BY <1>17 DEF Edited, Inv, Shapes
  <2>2. Recalled'
    BY <1>17 DEF Inv, Safe, Recalled
  <2>3. ASSUME NEW c \in Clients, c # d PROVE ClientIsSafe(c)'
    BY <1>17, <2>1, <2>3, UnmovedIsSafe DEF Inv, Safe
  <2>4. ASSUME ~clouded'[d], NEW q \in Commands
        PROVE  LocalsAreSafe(cmd[q], d, K, saved[d], torn[d])
    <3>1. LocalsAreSafe(cmd[q], d, kept[d], saved[d], torn[d])
      BY <2>1, <2>4, ClientFacts
    <3>2. cmd[q].client = d => cmd[q].at \notin {"backup", "write", "act", "restore"}
      BY <2>1, <2>4 DEF BetweenReadAndWrite, On
    <3>3. QED
      BY <3>1, <3>2 DEF LocalsAreSafe, Recovers, HoldsEdits
  <2>5. ~clouded'[d] => /\ FileIsSafe(f, K, saved[d], torn[d])
                        /\ RecordIsSafe(ledger[d], saved[d], torn[d])
    BY <1>17, <2>1, ClientFacts
  <2>6. ClientIsSafe(d)'
    BY <1>17, <2>1, <2>4, <2>5 DEF ClientIsSafe
  <2>7. QED
    BY <2>2, <2>3, <2>6 DEF Safe
<1>18. ASSUME NEW d \in Clients, NEW e \in Edits, EditConfig(d, e) PROVE Safe'
  <2> DEFINE f == [edits |-> EditsIn(config[d]) \cup {e}, entry |-> Entry(config[d]),
                  whole |-> Whole(config[d])]
  <2>1. /\ config' = [config EXCEPT ![d] = f] /\ Edited(d, kept[d] \cup {e})
        /\ UNCHANGED <<cmd, ledger, saved, torn>> /\ kept[d] \cup {e} \in SUBSET Edits
    BY <1>18 DEF EditConfig, Outside, copies, Inv, Shapes
  <2>2. f \in Texts
    BY AllEdits DEF Inv, Shapes, Texts
  <2>3. f.edits = EditsIn(config[d]) \cup {e} /\ f.whole = Whole(config[d])
    OBVIOUS
  <2> HIDE DEF f
  <2>4. EditsIn(f) = EditsIn(config[d]) \cup {e} /\ Whole(f) = Whole(config[d])
    BY <2>2, <2>3, TextFacts
  <2>5. FileIsSafe(config[d], kept[d], saved[d], torn[d]) =>
          FileIsSafe(f, kept[d] \cup {e}, saved[d], torn[d])
    BY <2>4 DEF FileIsSafe
  <2>6. QED
    BY <1>17, <2>1, <2>5
<1>19. ASSUME NEW d \in Clients, NEW e \in Edits, UndoEdit(d, e) PROVE Safe'
  <2> DEFINE f == [config[d] EXCEPT !.edits = @ \ {e}]
  <2>1. /\ config' = [config EXCEPT ![d] = f] /\ Edited(d, kept[d] \ {e})
        /\ UNCHANGED <<cmd, ledger, saved, torn>> /\ kept[d] \ {e} \in SUBSET Edits
    BY <1>19 DEF UndoEdit, Outside, copies, Inv, Shapes
  <2>2. config[d] \in Texts
    BY <1>19, FileFacts DEF UndoEdit, Inv, Shapes
  <2>3. EditsIn(f) = EditsIn(config[d]) \ {e} /\ Whole(f) = Whole(config[d])
    <3>1. config[d].edits = EditsIn(config[d]) /\ config[d].edits \ {e} \in SUBSET Edits
      BY <2>2, TextFacts
    <3>2. QED
      BY <2>2, <3>1, EditFacts
  <2> HIDE DEF f
  <2>4. FileIsSafe(config[d], kept[d], saved[d], torn[d]) =>
          FileIsSafe(f, kept[d] \ {e}, saved[d], torn[d])
    BY <2>3 DEF FileIsSafe
  <2>5. QED
    BY <1>17, <2>1, <2>4
<1>20. ASSUME NEW d \in Clients, NEW s \in {"none", "bad", "stuck"}, SpoilEntry(d, s)
       PROVE  Safe'
  <2>1. /\ UNCHANGED <<cmd, ledger, kept, clouded, saved, torn>> /\ config[d] \in Texts
        /\ config' = [config EXCEPT ![d] = [config[d] EXCEPT !.entry = s]]
    BY <1>20, FileFacts DEF SpoilEntry, Outside, edited, copies, Inv, Shapes
  <2>2. \A c \in Clients : EditsIn(config'[c]) = EditsIn(config[c]) /\ Whole(config'[c]) = Whole(config[c])
    BY <2>1, EntryFacts DEF Inv, Shapes
  <2>3. ASSUME NEW c \in Clients PROVE ClientIsSafe(c)'
    BY <2>1, <2>2 DEF Inv, Safe, ClientIsSafe, FileIsSafe
  <2>4. QED
    BY <2>1, <2>3 DEF Inv, Safe, Recalled
<1>21. ASSUME NEW d \in Clients, MoveBackups(d) PROVE Safe'
  BY <1>21, UnmovedIsSafe DEF MoveBackups, edited, Inv, Safe, Recalled
<1>22. CASE UNCHANGED wiringVars
  BY <1>22, UnmovedIsSafe DEF wiringVars, edited, copies, Inv, Safe, Recalled
<1>23. QED
  BY <1>1, <1>2, <1>4, <1>5, <1>6, <1>7, <1>8, <1>10, <1>11, <1>12, <1>13,
     <1>14, <1>15, <1>16, <1>18, <1>19, <1>20, <1>21, <1>22
  DEF WiringNext

-----------------------------------------------------------------------------
(* The theorem.                                                            *)

LEMMA InvInit == WiringInit => Inv
<1> SUFFICES ASSUME WiringInit PROVE Inv
  OBVIOUS
<1> DEFINE Start == {NoFile} \cup [edits : SUBSET Edits, entry : {"none"}, whole : {TRUE}]
<1>1. Start \subseteq Files
  BY DEF Files, Texts
<1>2. config \in [Clients -> Start]
  BY DEF WiringInit
<1> HIDE DEF Start
<1>3. config \in [Clients -> Files] /\ \A c \in Clients : EditsIn(config[c]) \in SUBSET Edits
  BY <1>1, <1>2, AllEdits
<1>4. Shapes /\ Copies
  BY <1>3 DEF WiringInit, Shapes, Copies, MaybeRecord
<1>5. \A p \in Commands : cmd[p] = Sleeping
  BY DEF WiringInit
<1>6. /\ Recalled
      /\ \A p \in Commands, c \in Clients : LocalsAreSafe(cmd[p], c, kept[c], saved[c], torn[c])
  BY <1>5, SleepingIsSafe DEF Recalled
<1>7. \A c \in Clients : /\ RecordIsSafe(ledger[c], saved[c], torn[c])
                         /\ FileIsSafe(config[c], kept[c], saved[c], torn[c])
  BY DEF WiringInit, RecordIsSafe, FileIsSafe
<1>8. QED
  BY <1>4, <1>6, <1>7 DEF Inv, Safe, ClientIsSafe

(* No edit of the client or its user is lost to wire or unwire, however    *)
(* many commands overlap, die, read half-restored configs or lose each     *)
(* other's ledger records, unless it fell between a command's read and its *)
(* write: it is in the config, or, where a restore was cut short or its    *)
(* remnant was taken for the config, at least in a backup (json-adapter.ts,*)
(* unwire).                                                                *)
THEOREM EditsAreKept == WiringSpec => []EditsSurvive
<1>1. Inv /\ [WiringNext]_wiringVars => Inv'
  BY ShapesStep, CopiesStep, SafeStep DEF Inv, Safe
<1>2. Inv => EditsSurvive
  BY DEF Inv, Safe, ClientIsSafe, FileIsSafe, EditsSurvive
<1>3. QED
  BY InvInit, <1>1, <1>2, PTL DEF WiringSpec

-----------------------------------------------------------------------------
(* Types: the shapes above, and what only the model itself keeps.          *)

Counted ==
  /\ prior \in [Clients -> Files] /\ touched \in [Clients -> BOOLEAN]
  /\ runs \in 0..MaxRuns /\ outside \in 0..MaxOutside /\ deaths \in 0..MaxDeaths

LEMMA CountUp ==
  ASSUME NEW n \in Nat, NEW k \in 0..n, k < n PROVE k + 1 \in 0..n
OBVIOUS

LEMMA CountedStep == Shapes /\ Recalled /\ Counted /\ [WiringNext]_wiringVars => Counted'
<1> SUFFICES ASSUME Shapes, Recalled, Counted, [WiringNext]_wiringVars PROVE Counted'
  OBVIOUS
<1>0. MaxRuns \in Nat /\ MaxOutside \in Nat /\ MaxDeaths \in Nat
  BY WiringAssumption
<1>1. ASSUME NEW p \in Commands, NEW op, NEW c, Begin(p, op, c) PROVE Counted'
  <2>1. runs' = runs + 1 /\ runs < MaxRuns /\ UNCHANGED <<prior, touched, outside, deaths>>
    BY <1>1 DEF Begin, FilesUnchanged
  <2>2. runs' \in 0..MaxRuns
    BY <1>0, <2>1, CountUp DEF Counted
  <2>3. QED
    BY <2>1, <2>2 DEF Counted
<1>2. ASSUME NEW p \in Commands,
             \/ Inspect(p) \/ ReadConfig(p) \/ BackUp(p) \/ Recall(p) \/ ReadCurrent(p)
             \/ OpenLedger(p) \/ WriteLedger(p)
      PROVE  Counted'
  <2>1. UNCHANGED <<prior, touched, runs, outside, deaths>>
    BY <1>2 DEF Inspect, ReadConfig, BackUp, Recall, ReadCurrent, OpenLedger, WriteLedger,
                FilesUnchanged, Bounded
  <2>2. QED
    BY <2>1 DEF Counted
<1>3. ASSUME NEW p \in Commands, WriteConfig(p) PROVE Counted'
  <2>1. cmd[p].text \in Files
    BY <1>3, Running DEF WriteConfig, At, Locals
  <2>2. prior' = [prior EXCEPT ![On(p)] = cmd[p].text]
        /\ touched' = [touched EXCEPT ![On(p)] = config[On(p)] # cmd[p].text]
        /\ UNCHANGED <<runs, outside, deaths>>
    BY <1>3 DEF WriteConfig, Bounded
  <2>3. QED
    BY <2>1, <2>2 DEF Counted
<1>4. ASSUME NEW p \in Commands,
             RemoveCreated(p) \/ Truncate(p) \/ CopyBackup(p) \/ RemoveEntry(p)
      PROVE  Counted'
  <2>1. /\ prior' = prior /\ UNCHANGED <<runs, outside, deaths>>
        /\ touched' = touched \/ touched' = [touched EXCEPT ![On(p)] = TRUE]
    BY <1>4 DEF RemoveCreated, Truncate, CopyBackup, RemoveEntry, Becomes, Bounded
  <2>2. QED
    BY <2>1 DEF Counted
<1>5. ASSUME NEW p \in Commands, Die(p) PROVE Counted'
  <2>1. deaths' = deaths + 1 /\ deaths < MaxDeaths /\ UNCHANGED <<prior, touched, runs, outside>>
    BY <1>5 DEF Die, FilesUnchanged
  <2>2. deaths' \in 0..MaxDeaths
    BY <1>0, <2>1, CountUp DEF Counted
  <2>3. QED
    BY <2>1, <2>2 DEF Counted
<1>6. ASSUME NEW c, NEW f, Outside(c, f) PROVE Counted'
  <2>1. /\ outside' = outside + 1 /\ outside < MaxOutside /\ UNCHANGED <<prior, runs, deaths>>
        /\ touched' = [touched EXCEPT ![c] = TRUE]
    BY <1>6 DEF Outside
  <2>2. outside' \in 0..MaxOutside
    BY <1>0, <2>1, CountUp DEF Counted
  <2>3. QED
    BY <2>1, <2>2 DEF Counted
<1>7. ASSUME NEW c \in Clients, MoveBackups(c) PROVE Counted'
  <2>1. outside' = outside + 1 /\ outside < MaxOutside /\ UNCHANGED <<prior, runs, deaths>>
        /\ touched' = [touched EXCEPT ![c] = TRUE]
    BY <1>7 DEF MoveBackups
  <2>2. outside' \in 0..MaxOutside
    BY <1>0, <2>1, CountUp DEF Counted
  <2>3. QED
    BY <2>1, <2>2 DEF Counted
<1>8. CASE UNCHANGED wiringVars
  BY <1>8 DEF wiringVars, Counted
<1>9. QED
  BY <1>1, <1>2, <1>3, <1>4, <1>5, <1>6, <1>7, <1>8
  DEF WiringNext, EditConfig, UndoEdit, SpoilEntry

LEMMA ShapesAreTypes == Shapes /\ Copies /\ Counted => WiringTypeOK
<1> SUFFICES ASSUME Shapes, Copies, Counted PROVE WiringTypeOK
  OBVIOUS
<1>1. ASSUME NEW p \in Commands
      PROVE  /\ cmd[p].op \in {"none", "wire", "unwire"} /\ cmd[p].client \in Clients
             /\ cmd[p].at \in {"idle", "inspect", "read", "backup", "write", "record", "recall",
                               "current", "act", "restore", "openLedger", "writeLedger"}
             /\ {cmd[p].text, cmd[p].backup} \subseteq Files
  <2>1. CASE cmd[p] = Sleeping
    BY <2>1, WiringAssumption, FileFacts DEF Sleeping
  <2>2. CASE cmd[p] \in Locals
    BY <2>2 DEF Locals, Places
  <2>3. QED
    BY <2>1, <2>2 DEF Shapes
<1>2. QED
  BY <1>1 DEF Shapes, Copies, Counted, WiringTypeOK, MaybeRecord

\* The inductive invariant with the types.
WiringInv == Inv /\ Counted

LEMMA WiringInitInv == WiringInit => WiringInv
<1> SUFFICES ASSUME WiringInit PROVE WiringInv
  OBVIOUS
<1>1. Inv
  BY InvInit
<1>2. Counted
  BY <1>1, WiringAssumption DEF WiringInit, Counted, Inv, Shapes
<1>3. QED
  BY <1>1, <1>2 DEF WiringInv

LEMMA WiringStep == WiringInv /\ [WiringNext]_wiringVars => WiringInv'
BY ShapesStep, CopiesStep, SafeStep, CountedStep DEF WiringInv, Inv, Safe

LEMMA WiringInvTypes == WiringInv => WiringTypeOK
BY ShapesAreTypes DEF WiringInv, Inv
=============================================================================
