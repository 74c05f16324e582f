------------------------- MODULE JournalTransaction -------------------------
(***************************************************************************)
(* Journal appends composed into one caller transaction: the callback      *)
(* frames of the SQLite driver (src/packages/cli/src/drivers/sqlite.ts)    *)
(* and the append handles and mirror exemption of the journal service      *)
(* (src/packages/core/src/journal/service.ts), on one connection.          *)
(*                                                                         *)
(* A transaction may hold savepoints that unwind on their own.  Every      *)
(* append queues callbacks in the innermost open frame; they must share    *)
(* the fate of the rows they describe.  Between the appends of one         *)
(* transaction the checkpoint file legitimately lags, and the exemption    *)
(* says by exactly how much; it must not outlive the transaction.          *)
(*                                                                         *)
(* ABSTRACTIONS.  A row is named by the append that wrote it, and so is    *)
(* its handle and the token armed by it.  The database checkpoint is the   *)
(* visible row sequence, the file holds some such sequence.  BEGIN waits   *)
(* for its lock (a busy BEGIN is retried with nothing queued).  The order  *)
(* of one frame's callbacks is not part of the driver's contract, so a     *)
(* frame holds sets.                                                       *)
(***************************************************************************)
EXTENDS Integers, SequencesExt

CONSTANTS
  None,         \* no exemption, no token
  MaxAppends,   \* bound: appends ever made
  MaxDepth,     \* bound: open savepoints
  MaxTx         \* bound: transactions begun by one process

ASSUME BoundsAssumption ==
  /\ MaxAppends \in Nat \ {0} /\ MaxDepth \in Nat /\ MaxTx \in Nat

Handles == 1..MaxAppends

\* MirrorExemption: the file as it was, and what the transaction has added.
Exemptions == [raw : Seq(Handles), txId : 1..MaxTx, token : Handles, minted : Seq(Handles)]

ASSUME NoneAssumption == None \notin Handles \cup Exemptions

VARIABLES
  durable,    \* the committed database: [rows, token]
  db,         \* what this connection sees
  saves,      \* the database at each open savepoint, outermost first
  frames,     \* callbacks queued, one frame per open transaction or savepoint
  txId,       \* currentTxId, 0 when no transaction is open
  txCount,    \* transactions this process has begun
  exemption,  \* the MirrorExemption the service holds, or None
  handle,     \* what each append's handle answers
  file,       \* the row sequence the checkpoint file commits to
  jammed,     \* replacing the file throws
  minted,     \* appends made so far
  txOf,       \* which transaction each append belongs to
  lost        \* handles whose commit callback was lost to an earlier one's throw

memory == <<frames, txId, txCount, exemption>>
vars == <<durable, db, saves, memory, handle, file, jammed, minted, txOf, lost>>

Callbacks == {"settle", "drop", "restore"} \X Handles
NewFrame  == [after |-> {}, settles |-> {}]
Settled   == {"rolled-back", "anchored", "unanchored"}
Outcomes  == {"unused", "in-flight", "gone"} \cup Settled

\* A store sealed when it was first opened: row 1 is the seal.
Init ==
  /\ durable = [rows |-> <<1>>, token |-> None]
  /\ db = durable
  /\ saves = <<>>
  /\ frames = <<NewFrame>>
  /\ txId = 0
  /\ txCount = 0
  /\ exemption = None
  /\ handle = [h \in Handles |-> IF h = 1 THEN "anchored" ELSE "unused"]
  /\ file = <<1>>
  /\ jammed = FALSE
  /\ minted = 1
  /\ txOf = [h \in Handles |-> 0]
  /\ lost = {}

InTransaction == txId # 0

-----------------------------------------------------------------------------
(* The gate of an append: assertAppendable().                              *)

\* exemptionIsLive(): bound to the open transaction, by identity and by what
\* only that transaction can see.
Live ==
  /\ exemption # None
  /\ InTransaction /\ exemption.txId = txId
  /\ db.token = exemption.token
  /\ db.rows = exemption.minted

\* With one of our appends uncommitted nothing is healed, and the file may
\* still hold what was committed when the transaction began.  Otherwise a
\* lagging file is advanced to the checkpoint this connection sees.
\* Mutant: within a batch the file must hold the uncommitted checkpoint.
ToleratedNever == Live /\ file = db.rows

Tolerated == Live /\ file \in {db.rows, exemption.raw}
Current   == ~Live /\ file = db.rows
Heals     == ~Live /\ IsStrictPrefix(file, db.rows) /\ ~jammed
GateOpens == Tolerated \/ Current \/ Heals

HealedFile == IF Heals THEN db.rows ELSE file

-----------------------------------------------------------------------------
(* Running the callbacks of frames that settle.                            *)

\* mirrorExternal(), then the read-back: the file as it stands afterwards.
Mirrored(queued, checkpoint) ==
  IF queued # {} /\ ~jammed /\ IsPrefix(file, checkpoint) THEN checkpoint ELSE file

\* AppendHandle latches: the first edge it hears of decides.
Latch(hs, outcome) ==
  [h \in Handles |-> IF h \in hs /\ handle[h] = "in-flight" THEN outcome ELSE handle[h]]

\* The settle(false) callbacks of `frame`, once the database is back at `now`.
RolledBack(frame, now) ==
  /\ handle' = Latch({h \in Handles : <<"settle", h>> \in frame.settles}, "rolled-back")
  /\ exemption' =
       IF exemption = None \/ <<"drop", exemption.token>> \in frame.settles THEN None
       ELSE IF <<"restore", exemption.token>> \in frame.settles
            THEN [exemption EXCEPT !.minted = now.rows]
            ELSE exemption

Merge(f, g) == [after |-> f.after \cup g.after, settles |-> f.settles \cup g.settles]

\* settle(): every frame still open settles with the outermost one.
Everything == [after   |-> UNION {frames[i].after : i \in DOMAIN frames},
               settles |-> UNION {frames[i].settles : i \in DOMAIN frames}]
Retire == txId' = 0 /\ frames' = <<NewFrame>> /\ saves' = <<>>

-----------------------------------------------------------------------------
(* The driver.                                                             *)

\* runOutermost(): BEGIN IMMEDIATE.
Begin ==
  /\ ~InTransaction
  /\ txCount < MaxTx
  /\ txCount' = txCount + 1
  /\ txId' = txCount + 1
  /\ UNCHANGED <<durable, db, saves, frames, exemption, handle, file, jammed, minted, txOf, lost>>

\* transaction() inside a transaction: runSavepoint().
Savepoint ==
  /\ InTransaction
  /\ Len(saves) < MaxDepth
  /\ saves' = Append(saves, db)
  /\ frames' = Append(frames, NewFrame)
  /\ UNCHANGED <<durable, db, txId, txCount, exemption, handle, file, jammed, minted, txOf, lost>>

\* RELEASED: the callbacks become the parent's.
Release ==
  /\ saves # <<>>
  /\ saves' = Front(saves)
  /\ LET parent == Front(frames) IN
       frames' = [parent EXCEPT ![Len(parent)] = Merge(@, Last(frames))]
  /\ UNCHANGED <<durable, db, txId, txCount, exemption, handle, file, jammed, minted, txOf, lost>>

\* Mutant: an unwound savepoint's callbacks are handed to the parent.
UnwindKeepsCallbacks ==
  /\ saves # <<>>
  /\ db' = Last(saves)
  /\ saves' = Front(saves)
  /\ LET parent == Front(frames) IN
       frames' = [parent EXCEPT ![Len(parent)] = Merge(@, Last(frames))]
  /\ UNCHANGED <<durable, txId, txCount, exemption, handle, file, jammed, minted, txOf, lost>>

\* Mutant: an unwound savepoint leaves its frame on the stack.
UnwindLeavesFrame ==
  /\ saves # <<>>
  /\ db' = Last(saves)
  /\ saves' = Front(saves)
  /\ RolledBack(Last(frames), Last(saves))
  /\ UNCHANGED <<durable, frames, txId, txCount, file, jammed, minted, txOf, lost>>

\* ROLLED BACK: the body threw.  Its commit callbacks are discarded, its settle
\* callbacks run at once, and the host transaction goes on.
Unwind ==
  /\ saves # <<>>
  /\ db' = Last(saves)
  /\ saves' = Front(saves)
  /\ frames' = Front(frames)
  /\ RolledBack(Last(frames), Last(saves))
  /\ UNCHANGED <<durable, txId, txCount, file, jammed, minted, txOf, lost>>

\* The body of the outermost transaction threw.
Rollback ==
  /\ InTransaction
  /\ db' = durable
  /\ Retire
  /\ RolledBack(Everything, durable)
  /\ UNCHANGED <<durable, txCount, file, jammed, minted, txOf, lost>>

\* COMMIT, then settle(true): each queued append is mirrored, confirmed by
\* read-back, and its handle settled.
Commit ==
  /\ InTransaction /\ saves = <<>>
  /\ durable' = db
  /\ Retire
  /\ file' = Mirrored(Everything.after, db.rows)
  /\ handle' = Latch(Everything.after,
                     IF file' = db.rows THEN "anchored" ELSE "unanchored")
  /\ exemption' = IF Everything.after # {} THEN None ELSE exemption
  /\ UNCHANGED <<db, txCount, jammed, minted, txOf, lost>>

\* The same, but a confirmation finds the file behind, and the verification it
\* then asks for cannot read the rows: the callback throws out of settle(), and
\* it and those after it never report.  Those before it have.
CommitCallbackThrows ==
  /\ InTransaction /\ saves = <<>>
  /\ durable' = db
  /\ Retire
  /\ file' = Mirrored(Everything.after, db.rows)
  /\ file' # db.rows
  /\ \E unheard \in SUBSET Everything.after \ {{}} :
       /\ handle' = Latch(Everything.after \ unheard, "unanchored")
       /\ lost' = lost \cup unheard
  /\ exemption' = None
  /\ UNCHANGED <<db, txCount, jammed, minted, txOf>>

-----------------------------------------------------------------------------
(* The journal service.                                                    *)

\* An append inside a caller transaction: armExemption() at its first row,
\* or a restorer for this frame if the exemption is already ours.
AppendDeferred ==
  /\ InTransaction
  /\ minted < MaxAppends
  /\ GateOpens
  /\ LET h       == minted + 1
         grown   == Append(db.rows, h)
         queue(cb) == [frames EXCEPT ![Len(frames)] =
                         [after   |-> @.after \cup {h},
                          settles |-> @.settles \cup {<<"settle", h>>, cb}]]
     IN /\ minted' = h
        /\ handle' = [handle EXCEPT ![h] = "in-flight"]
        /\ txOf' = [txOf EXCEPT ![h] = txId]
        /\ \/ /\ Live
              /\ db' = [db EXCEPT !.rows = grown]
              /\ exemption' = [exemption EXCEPT !.minted = grown]
              /\ frames' = queue(<<"restore", exemption.token>>)
           \/ /\ ~Live
              /\ db' = [rows |-> grown, token |-> h]
              /\ exemption' = [raw |-> db.rows, txId |-> txId, token |-> h,
                               minted |-> grown]
              /\ frames' = queue(<<"drop", h>>)
  /\ file' = HealedFile
  /\ UNCHANGED <<durable, saves, txId, txCount, jammed, lost>>

\* A top-level append: its own transaction, then the mirror at once.  (Its
\* caller gets no handle when the mirror's confirmation throws.)
AppendAlone ==
  /\ ~InTransaction
  /\ minted < MaxAppends /\ txCount < MaxTx
  /\ GateOpens
  /\ LET h == minted + 1
         grown == Append(db.rows, h)
     IN /\ minted' = h
        /\ db' = [db EXCEPT !.rows = grown]
        /\ durable' = db'
        /\ txOf' = [txOf EXCEPT ![h] = txCount + 1]
        /\ file' = IF jammed THEN file ELSE grown
        /\ handle' = [handle EXCEPT ![h] = IF jammed THEN "unanchored" ELSE "anchored"]
  /\ txCount' = txCount + 1
  /\ exemption' = None
  /\ UNCHANGED <<saves, frames, txId, jammed, lost>>

\* The gate throws.  The caller may catch it and go on with its transaction;
\* a dead exemption has been dropped either way.
AppendRefused ==
  /\ minted < MaxAppends
  /\ ~GateOpens
  /\ exemption' = IF Live THEN exemption ELSE None
  /\ UNCHANGED <<durable, db, saves, frames, txId, txCount, handle, file, jammed,
                 minted, txOf, lost>>

-----------------------------------------------------------------------------
(* The environment.                                                        *)

Restart ==
  /\ db' = durable'
  /\ Retire
  /\ txCount' = txCount
  /\ exemption' = None
  /\ handle' = Latch(Handles, "gone")
  /\ UNCHANGED <<file, jammed, minted, txOf, lost>>

\* The process dies: an open transaction is lost, and so are the handles.
Crash == InTransaction /\ durable' = durable /\ Restart

\* It dies between COMMIT and the callbacks.
CommitThenCrash == InTransaction /\ saves = <<>> /\ durable' = db /\ Restart

Jam ==
  /\ jammed' = ~jammed
  /\ UNCHANGED <<durable, db, saves, memory, handle, file, minted, txOf, lost>>

Next ==
  \/ Begin \/ Savepoint \/ Release \/ Unwind \/ Rollback
  \/ Commit \/ CommitCallbackThrows
  \/ AppendDeferred \/ AppendAlone \/ AppendRefused
  \/ Crash \/ CommitThenCrash \/ Jam

Spec == Init /\ [][Next]_vars

-----------------------------------------------------------------------------
(* Properties.                                                             *)

Rows == Seq(Handles)
Dbs  == [rows : Rows, token : Handles \cup {None}]

TypeOK ==
  /\ durable \in Dbs /\ db \in Dbs /\ saves \in Seq(Dbs)
  /\ frames \in Seq([after : SUBSET Handles, settles : SUBSET Callbacks])
  /\ Len(frames) = Len(saves) + 1
  /\ txId \in 0..MaxTx /\ txCount \in 0..MaxTx
  /\ exemption \in {None} \cup Exemptions
  /\ handle \in [Handles -> Outcomes]
  /\ file \in Rows /\ jammed \in BOOLEAN
  /\ minted \in 0..MaxAppends /\ txOf \in [Handles -> 0..MaxTx] /\ lost \subseteq Handles

Unsettled(h) == InTransaction /\ h \in ToSet(db.rows)

\* A handle never says committed of a row that is not durable, nor rolled back
\* of one that is, or that the open transaction can still commit; and once the
\* transaction that wrote the row has settled, however its savepoints were
\* nested, the handle knows how, unless a callback threw.
HandlesTellTheTruth ==
  \A h \in Handles :
    /\ handle[h] \in {"anchored", "unanchored"} => h \in ToSet(durable.rows)
    /\ handle[h] = "rolled-back" => h \notin ToSet(durable.rows) \cup ToSet(db.rows)
    /\ handle[h] = "in-flight" => h \in lost \/ Unsettled(h)

\* domain/journal.ts says of MutationOutcome 'in-flight', without exception,
\* that the outermost transaction has not settled.
InFlightMeansUnsettled == \A h \in Handles : handle[h] = "in-flight" => Unsettled(h)

\* The exemption is exact.  Nothing a rollback could still take back is ever
\* published: whatever savepoints unwound before, the file commits to committed
\* history only.  The exemption does not outlive its transaction: a frozen file
\* stops the journal within one, so the rows the file lacks were all committed
\* by a single transaction.  And it does its job: while the file can be written,
\* no append of a batch is refused, whatever savepoints were released or unwound
\* before it.
ExemptionIsExact ==
  /\ IsPrefix(file, durable.rows)
  /\ \A g, h \in ToSet(durable.rows) \ ToSet(file) : txOf[g] = txOf[h]
  /\ ~jammed => GateOpens

=============================================================================
