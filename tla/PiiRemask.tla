----------------------------- MODULE PiiRemask -----------------------------
(***************************************************************************)
(* The two-phase migration of a store written before at-rest masking       *)
(* (store.ts: remaskState, remaskLegacyRows, scrubRemaskRemnants and the   *)
(* end of openStore), run by every process that opens the store.  Phase 1  *)
(* masks the rows in one write transaction and leaves the marker at        *)
(* "rows-done"; phase 2 rebuilds the full-text index, vacuums, truncates   *)
(* the write-ahead log, verifies, and only then stamps "scrubbed".         *)
(*                                                                         *)
(* The data is where plaintext can still be read: in live rows, in         *)
(* superseded index segments, on freed pages, in the bytes of the main     *)
(* file (which only a checkpoint rewrites) and in the frames of the log.   *)
(* The append gate is one bit: the anchor is broken and appends throw.     *)
(***************************************************************************)
CONSTANTS Openers    \* processes of the home, all of a masking build

VARIABLES
  marker,      \* the cell pii_remask_v2
  live,        \* rows that hold plaintext
  segments,    \* superseded index segments that hold plaintext
  freed,       \* "none", "clean" or "plain": the free pages
  dbFile,        \* the main file's bytes hold plaintext
  wal,         \* "empty", "clean" or "plain": the frames of the log
  broken,      \* journal verification fails, so the append gate throws
  noted,       \* the journal has a migrate_masking entry
  stage,       \* stage[p]: where p's openStore() stands
  wants,       \* wants[p]: the command p opened the store for
  needles,     \* needles[p]: p's row pass replaced plaintext
  alone        \* alone[p]: no other connection was open since p opened (ghost)

bytes == <<live, segments, freed, dbFile, wal>>
remaskVars == <<marker, bytes, broken, noted, stage, wants, needles, alone>>

Scrub == {"fts", "vacuum", "truncate", "verify", "stamp"}
Stages == Scrub \cup {"closed", "probe", "rows", "check", "open", "refused"}
Commands == {"write", "reseal"}
Connected(p) == stage[p] \notin {"closed", "refused"}
Others(p) == {q \in Openers \ {p} : Connected(q)}

RemaskTypeOK ==
  /\ marker \in {"absent", "garbage", "rows-done", "scrubbed"}
  /\ live \in BOOLEAN /\ segments \in BOOLEAN /\ dbFile \in BOOLEAN
  /\ freed \in {"none", "clean", "plain"} /\ wal \in {"empty", "clean", "plain"}
  /\ broken \in BOOLEAN /\ noted \in BOOLEAN
  /\ stage \in [Openers -> Stages] /\ wants \in [Openers -> Commands]
  /\ needles \in [Openers -> BOOLEAN] /\ alone \in [Openers -> BOOLEAN]

(* What the database holds once the log is applied. *)
PlainIn == live \/ segments \/ freed = "plain"

(* A write transaction adds frames; a frame may hold any page it leaves.   *)
WritesFrames == wal' = IF wal = "plain" \/ PlainIn' THEN "plain" ELSE "clean"

(* A store of a legacy build: plaintext anywhere, and no marker of ours,   *)
(* or a cell this build never writes.                                      *)
Legacy(m, r, s, f, w) ==
  marker' = m /\ live' = r /\ segments' = s /\ freed' = f /\ dbFile' = (r \/ s \/ f = "plain")
  /\ wal' = w

RemaskInit ==
  /\ marker \in {"absent", "garbage"}
  /\ live \in BOOLEAN /\ segments \in BOOLEAN /\ freed \in {"none", "plain"}
  /\ dbFile \in BOOLEAN /\ wal \in {"empty", "plain"}
  /\ PlainIn => dbFile \/ wal = "plain"
  /\ broken \in BOOLEAN /\ noted = FALSE
  /\ stage = [p \in Openers |-> "closed"] /\ wants = [p \in Openers |-> "write"]
  /\ needles = [p \in Openers |-> FALSE] /\ alone = [p \in Openers |-> FALSE]

Goto(p, s) == stage' = [stage EXCEPT ![p] = s]
Keep == UNCHANGED <<wants, needles, alone>>

-----------------------------------------------------------------------------
(* Opening                                                                 *)

Open(p, c) ==
  /\ stage[p] = "closed"
  /\ Goto(p, "probe")
  /\ wants' = [wants EXCEPT ![p] = c]
  /\ needles' = [needles EXCEPT ![p] = FALSE]
  /\ alone' = [q \in Openers |-> q = p /\ Others(p) = {}]
  /\ UNCHANGED <<marker, bytes, broken, noted>>

(* Anything but the two known values is "rows-pending".                    *)
(* Mutant: an unknown marker is taken for scrubbed.                        *)
RowsPendingIfAbsent(m) == m = "absent"
RowsPending(m) == m \notin {"rows-done", "scrubbed"}

Probe(p) ==
  /\ stage[p] = "probe"
  /\ Goto(p, IF RowsPending(marker) THEN "rows" ELSE "check")
  /\ UNCHANGED <<marker, bytes, broken, noted>> /\ Keep

(* Phase 1, one write transaction.  The marker is read again under the     *)
(* lock.  Masking a row supersedes its index entry and its page bytes.     *)
RowPass(p) ==
  /\ stage[p] = "rows"
  /\ \/ /\ ~RowsPending(marker)
        /\ Goto(p, "check")
        /\ UNCHANGED <<marker, bytes, noted, needles>>
     \/ /\ RowsPending(marker)
        /\ ~(live /\ ~noted /\ broken)
        /\ live' = FALSE
        /\ segments' = (segments \/ live)
        /\ freed' = IF live THEN "plain" ELSE freed
        /\ WritesFrames
        /\ marker' = "rows-done"
        /\ noted' = (noted \/ live)
        /\ needles' = [needles EXCEPT ![p] = live]
        /\ Goto(p, "check")
        /\ UNCHANGED dbFile
     \/ /\ RowsPending(marker)              \* append throws: openStore() throws
        /\ live /\ ~noted /\ broken
        /\ Goto(p, "refused")
        /\ UNCHANGED <<marker, bytes, noted, needles>>
  /\ UNCHANGED <<broken, wants, alone>>

Check(p) ==
  /\ stage[p] = "check"
  /\ Goto(p, IF marker = "scrubbed" THEN "open" ELSE "fts")
  /\ UNCHANGED <<marker, bytes, broken, noted>> /\ Keep

-----------------------------------------------------------------------------
(* Phase 2.  Each step throws when another connection is in its way; the   *)
(* caller warns and the store is opened with the marker as it was.         *)

RebuildMemoryFts(p) ==
  /\ stage[p] = "fts"
  /\ segments' = FALSE
  /\ freed' = IF segments THEN "plain" ELSE IF freed = "none" THEN "clean" ELSE freed
  /\ UNCHANGED <<live, dbFile>>
  /\ WritesFrames
  /\ Goto(p, "vacuum")
  /\ UNCHANGED <<marker, broken, noted>> /\ Keep

AfterVacuum == "truncate"

Vacuum(p) ==
  /\ stage[p] = "vacuum"
  /\ freed' = "none"
  /\ UNCHANGED <<live, segments, dbFile>>
  /\ WritesFrames
  /\ Goto(p, AfterVacuum)
  /\ UNCHANGED <<marker, broken, noted>> /\ Keep

CheckpointTruncate(p) ==
  /\ stage[p] = "truncate"
  /\ dbFile' = PlainIn /\ wal' = "empty"
  /\ Goto(p, "verify")
  /\ UNCHANGED <<marker, live, segments, freed, broken, noted>> /\ Keep

Verified(p) == freed = "none" /\ wal = "empty" /\ ~(needles[p] /\ dbFile)

Verify(p) ==
  /\ stage[p] = "verify"
  /\ Goto(p, IF Verified(p) THEN "stamp" ELSE "open")
  /\ UNCHANGED <<marker, bytes, broken, noted>> /\ Keep

Stamp(p) ==
  /\ stage[p] = "stamp"
  /\ marker' = "scrubbed"
  /\ UNCHANGED <<live, segments, freed, dbFile>>
  /\ WritesFrames
  /\ Goto(p, "open")
  /\ UNCHANGED <<broken, noted>> /\ Keep

ScrubThrows(p) ==
  /\ stage[p] \in Scrub
  /\ Others(p) # {}
  /\ Goto(p, "open")
  /\ UNCHANGED <<marker, bytes, broken, noted>> /\ Keep

-----------------------------------------------------------------------------
(* The open store, and the environment                                     *)

(* A journaled write of masked text: it may free pages, never plaintext.   *)
MaskedWrite(p) ==
  /\ stage[p] = "open" /\ wants[p] = "write" /\ ~broken
  /\ freed' \in {freed, IF freed = "none" THEN "clean" ELSE freed}
  /\ UNCHANGED <<live, segments, dbFile>>
  /\ WritesFrames
  /\ UNCHANGED <<marker, broken, noted, stage>> /\ Keep

(* `sthayi journal reseal`, the command that accepts the history as it is. *)
Reseal(p) ==
  /\ stage[p] = "open" /\ wants[p] = "reseal"
  /\ broken' = FALSE
  /\ UNCHANGED <<live, segments, freed, dbFile>>
  /\ WritesFrames
  /\ UNCHANGED <<marker, noted, stage>> /\ Keep

(* The last connection to close applies the log and removes it.            *)
CloseStore(p) ==
  /\ stage[p] \in {"open", "refused"}
  /\ Goto(p, "closed")
  /\ IF Others(p) = {}
       THEN dbFile' = PlainIn /\ wal' = "empty"
       ELSE UNCHANGED <<dbFile, wal>>
  /\ UNCHANGED <<marker, live, segments, freed, broken, noted>> /\ Keep

CrashOpener(p) ==
  /\ Connected(p)
  /\ Goto(p, "closed")
  /\ UNCHANGED <<marker, bytes, broken, noted>> /\ Keep

(* The anchor is lost or the database restored: the gate refuses.          *)
BreakAnchor ==
  /\ broken' = TRUE
  /\ UNCHANGED <<marker, bytes, noted, stage>> /\ Keep

RestoreLegacyBackup ==
  /\ \A p \in Openers : ~Connected(p)
  /\ \E s \in BOOLEAN, f \in {"none", "plain"} : Legacy("absent", TRUE, s, f, "empty")
  /\ broken' = TRUE /\ noted' = FALSE
  /\ UNCHANGED stage /\ Keep

RemaskNext ==
  \/ \E p \in Openers :
       \/ \E c \in Commands : Open(p, c)
       \/ Probe(p) \/ RowPass(p) \/ Check(p)
       \/ RebuildMemoryFts(p) \/ Vacuum(p) \/ CheckpointTruncate(p)
       \/ Verify(p) \/ Stamp(p) \/ ScrubThrows(p)
       \/ MaskedWrite(p) \/ Reseal(p) \/ CloseStore(p) \/ CrashOpener(p)
  \/ BreakAnchor \/ RestoreLegacyBackup

RemaskSpec == RemaskInit /\ [][RemaskNext]_remaskVars

-----------------------------------------------------------------------------
(* A store whose marker is final holds plaintext nowhere: not in a row, an *)
(* index segment, a free page, the main file or the log, however openings  *)
(* interleave, fail or die, and whatever value an older build or a broken  *)
(* write left in the marker (store.ts: remaskState, the reason the marker  *)
(* is parsed and written last).  And "the scrub will retry on the next     *)
(* open": an opening that no other connection disturbed ends with it so,   *)
(* whatever earlier openings left behind.                                  *)
MarkerTellsTheTruth ==
  /\ marker = "scrubbed" => ~PlainIn /\ ~dbFile /\ wal # "plain"
  /\ \A p \in Openers : stage[p] = "open" /\ alone[p] => marker = "scrubbed"

(* store.ts: "the explicit `sthayi journal reseal` is the only trust       *)
(* decision that can bless it".  Then the command must be able to open the *)
(* store it is for.  It is not: the row pass appends before the command    *)
(* runs, and the gate refuses that append for the reason the reseal is run.*)
ResealCanRun ==
  \A p \in Openers : stage[p] = "refused" => wants[p] # "reseal"
=============================================================================
