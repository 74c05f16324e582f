----------------------------- MODULE Consolidation -----------------------------
(***************************************************************************)
(* Consolidation of the memory store and its rollback                      *)
(* (src/packages/core/src/consolidate/service.ts,                          *)
(* src/packages/core/src/journal/rollback.ts), among the review decisions  *)
(* of the proposal queue (src/packages/core/src/memory/service.ts).        *)
(*                                                                         *)
(* The deterministic pass, a review decision and a rollback are one write  *)
(* transaction each.  An oracle run is not: it reads the active memories   *)
(* once, then awaits a provider before each batch, and applies the answer  *)
(* to whatever the store has become.  What a batch changed is in its       *)
(* journal entry, and a rollback undoes exactly that, once.                *)
(*                                                                         *)
(* ABSTRACTIONS.  A memory's content is its dedupe key and its near        *)
(* duplicates.  Whether a memory has decayed is left open.  A journal      *)
(* entry that no rollback reads is not kept.  The anchor of JournalAnchor  *)
(* is two facts: `lagging`, the file misses a committed entry; `stuck`, it *)
(* cannot be written, so that the gate of the next append refuses.         *)
(***************************************************************************)
EXTENDS Integers, SequencesExt

CONSTANTS
  Ids,         \* memory ids
  None,        \* no id
  Key,         \* Key[i]: scope, type and normalized content
  Part,        \* Part[i]: scope and type
  Rank,        \* Rank[i]: the order of rank(), the lower is kept
  Near,        \* pairs {i, j} of near duplicates
  Listing,     \* the order listMemories() returns rows in
  Starts,      \* the statuses the store may start with
  Runs,        \* oracle runs
  MaxBatch,    \* MAX_BATCH
  MaxEntries   \* bound: entries of the journal

ASSUME MemoryAssumption ==
  /\ None \notin Ids \cup Runs
  /\ {"keep", "archive", "promote"} \cap Ids = {}
  /\ \A i, j \in Ids : Key[i] = Key[j] => Part[i] = Part[j]
  /\ Rank \in [Ids -> Nat] /\ IsInjective(Rank)
  /\ Near \subseteq {{i, j} : i, j \in Ids}
  /\ Listing \in Seq(Ids) /\ ToSet(Listing) = Ids /\ IsInjective(Listing)
  /\ Starts \subseteq [Ids -> {"unused", "proposed", "confirmed", "deleted"}]
  /\ MaxBatch \in Nat \ {0} /\ MaxEntries \in Nat

VARIABLES
  status,     \* status[i], "unused" before there is a row, "deleted" after
  journal,    \* the entries consolidation wrote
  before,     \* before[n]: the statuses when entry n was written
  stuck,      \* the checkpoint file cannot be written
  lagging,    \* the checkpoint file misses a committed entry
  run,        \* the oracle runs
  confirmed,  \* memories a user confirmed
  rejected    \* proposals a user rejected

rows == <<status, journal, before, lagging>>
vars == <<rows, stuck, run, confirmed, rejected>>

Statuses == {"unused", "proposed", "confirmed", "archived", "deleted"}
Endings  == {"none", "complete", "committed-unanchored", "failed", "threw"}
NoRun    == [todo |-> <<>>, awaiting |-> FALSE, receipts |-> 0, changed |-> 0,
             ended |-> "none"]

Change == [id : Ids, from : {"proposed", "confirmed"}, into : Ids \cup {None}]
Entry  == [op : {"consolidate", "evidence"}, by : Runs \cup {None},
           changes : SUBSET Change, inserts : SUBSET Ids]
          \cup [op : {"rollback"}, target : 1..MaxEntries]

TypeOK ==
  /\ status \in [Ids -> Statuses]
  /\ journal \in Seq(Entry) /\ Len(journal) <= MaxEntries
  /\ before \in Seq([Ids -> Statuses]) /\ Len(before) = Len(journal)
  /\ stuck \in BOOLEAN /\ lagging \in BOOLEAN
  /\ run \in [Runs -> [todo : Seq(SUBSET Ids), awaiting : BOOLEAN, receipts : Nat,
                       changed : Nat, ended : Endings]]
  /\ confirmed \subseteq Ids /\ rejected \subseteq Ids

\* A store as writes and imports leave it.
Init ==
  /\ status \in Starts
  /\ journal = <<>> /\ before = <<>>
  /\ stuck = FALSE /\ lagging = FALSE
  /\ run = [r \in Runs |-> NoRun]
  /\ confirmed = {} /\ rejected = {}

Live(i) == status[i] \in {"proposed", "confirmed"}
Active  == {i \in Ids : Live(i)}

-----------------------------------------------------------------------------
(* The journal, as far as consolidation sees it.                           *)

\* The gate of an append refuses while the file lags and cannot be advanced.
Appendable == ~(lagging /\ stuck)

\* An append commits, and its mirror follows, unless a callback that runs after
\* the commit throws before it.
Journaled == Appendable /\ lagging' \in {stuck, TRUE}

\* So does one that consolidation reads back, with what it changed.
Append1(e) ==
  /\ Len(journal) < MaxEntries
  /\ Journaled
  /\ journal' = Append(journal, e)
  /\ before' = Append(before, status)

Unjournaled == Journaled /\ UNCHANGED <<journal, before>>

Consolidated(r, changes, inserts) ==
  [op |-> IF changes # {} \/ inserts # {} THEN "consolidate" ELSE "evidence",
   by |-> r, changes |-> changes, inserts |-> inserts]

\* The statuses once a batch is applied.
Applied(changes, inserts) ==
  [i \in Ids |-> IF i \in {c.id : c \in changes} THEN "archived"
                 ELSE IF i \in inserts THEN "proposed" ELSE status[i]]

\* Mutant: the status a snapshot had, from before the user confirmed.
ArchiveAsAsked(i, into) ==
  [id |-> i, from |-> IF i \in confirmed THEN "proposed" ELSE status[i], into |-> into]

Archive(i, into) == [id |-> i, from |-> status[i], into |-> into]

-----------------------------------------------------------------------------
(* Review: writes and the proposal queue (memory/service.ts).              *)

Write ==
  /\ \E i \in Ids, s \in {"proposed", "confirmed"} :
       status[i] = "unused" /\ status' = [status EXCEPT ![i] = s]
  /\ Unjournaled
  /\ UNCHANGED <<stuck, run, confirmed, rejected>>

\* transition(): those of the ids that are still proposals.
Transition(ids, to) ==
  /\ ids # {} /\ \A i \in ids : status[i] = "proposed"
  /\ status' = [i \in Ids |-> IF i \in ids THEN to ELSE status[i]]
  /\ Unjournaled
  /\ UNCHANGED <<stuck, run>>

Confirm == \E ids \in SUBSET Ids :
  /\ Transition(ids, "confirmed")
  /\ confirmed' = confirmed \cup ids
  /\ UNCHANGED rejected

Reject == \E ids \in SUBSET Ids :
  /\ Transition(ids, "archived")
  /\ rejected' = rejected \cup ids
  /\ UNCHANGED confirmed

-----------------------------------------------------------------------------
(* runDeterministic().                                                     *)

Best(ids) == CHOOSE i \in ids : \A j \in ids : Rank[i] <= Rank[j]

\* Mutant: the best of the group, whatever its status.
SurvivorOfAny(group) == Best(group)

\* Exact duplicates: a proposal never displaces a confirmed memory.
Survivor(group) ==
  LET sure == {i \in group : status[i] = "confirmed"} IN
    IF sure # {} THEN Best(sure) ELSE Best(group)

Twins(i)   == {j \in Active : Key[j] = Key[i]}
ExactDupes == {Archive(i, Survivor(Twins(i))) :
                 i \in {j \in Active : Survivor(Twins(j)) # j}}

\* Near duplicates of what is left, pair by pair in the order of the listing,
\* within one scope, type and status.
Fold(ids, done, a, b) ==
  IF {a, b} \subseteq ids /\ a # b /\ {a, b} \in Near /\ Part[a] = Part[b] /\ status[a] = status[b]
     /\ {a, b} \cap {c.id : c \in done} = {}
  THEN LET keep == Best({a, b}) IN
         done \cup {Archive(IF keep = a THEN b ELSE a, keep)}
  ELSE done

FoldRow(ids, done, m) ==
  FoldLeft(LAMBDA d, n : Fold(ids, d, Listing[m], Listing[n]), done,
           [n \in 1..Len(Listing) |-> IF n > m THEN n ELSE m])

NearDupes(ids) ==
  FoldLeft(LAMBDA d, m : FoldRow(ids, d, m), {}, [m \in 1..Len(Listing) |-> m])

\* Then decay, over everything still active, survivors included.
RunDeterministic ==
  LET rest == Active \ {c.id : c \in ExactDupes}
      near == NearDupes(rest)
  IN \E faded \in SUBSET (rest \ {c.id : c \in near}) :
       LET changes == ExactDupes \cup near \cup {Archive(i, None) : i \in faded} IN
         /\ changes # {}
         /\ status' = Applied(changes, {})
         /\ Append1(Consolidated(None, changes, {}))
         /\ UNCHANGED <<stuck, run, confirmed, rejected>>

-----------------------------------------------------------------------------
(* runOracle(): a snapshot, then batch after batch.                        *)

Place(i)   == CHOOSE n \in DOMAIN Listing : Listing[n] = i
Earlier(i) == Cardinality({j \in Active : Place(j) < Place(i)})

Batches ==
  [b \in 1..((Cardinality(Active) + MaxBatch - 1) \div MaxBatch) |->
     {i \in Active : Earlier(i) \div MaxBatch = b - 1}]

\* The snapshot is of all active memories; the options `limit` and `type` only
\* narrow it and are left out.
OracleStart(r) ==
  /\ run[r].ended = "none" /\ ~run[r].awaiting
  /\ Active # {}
  /\ run' = [run EXCEPT ![r].todo = Batches, ![r].awaiting = TRUE]
  /\ UNCHANGED <<rows, stuck, confirmed, rejected>>

\* A validated answer: no id in two mutating ops.  answer[i] is what it says of
\* i; the members of a merge group name its head, and so does the head.
Answers(batch) ==
  {answer \in [batch -> batch \cup {"keep", "archive", "promote"}] :
     \A i \in batch : answer[i] \in batch =>
       /\ answer[answer[i]] = answer[i]
       /\ \E j \in batch : j # answer[i] /\ answer[j] = answer[i]}

Members(answer, h) == {i \in DOMAIN answer : answer[i] = h}

\* Mutant: the group is judged by the rows the oracle was asked about.
MergeableAsAsked(group) == \A i, j \in group : Part[i] = Part[j]

\* A merge group is discarded whole when a member is gone or it spans more
\* than one scope, type or status.
Mergeable(group) ==
  /\ \A i \in group : Live(i)
  /\ \A i, j \in group : Part[i] = Part[j] /\ status[i] = status[j]

Merges(answer) ==
  {Archive(i, answer[i]) : i \in {j \in DOMAIN answer :
     answer[j] \in Ids \ {j} /\ Mergeable(Members(answer, answer[j]))}}

\* Mutant: the rows are not read again.
ArchivesAsAsked(answer) == {Archive(i, None) : i \in Members(answer, "archive")}

Archives(answer) == {Archive(i, None) : i \in {j \in Members(answer, "archive") : Live(j)}}
Sources(answer)  == {i \in Members(answer, "promote") : Live(i)}

Skipped(answer) ==
  \/ \E i \in DOMAIN answer : answer[i] \in Ids /\ ~Mergeable(Members(answer, answer[i]))
  \/ \E i \in Members(answer, "archive") \cup Members(answer, "promote") : ~Live(i)

\* The batch is dealt with: the run adopts n changes in so many entries, and
\* stops, or sends the next batch.
BatchDone(r, n, entries, ending) ==
  run' = [run EXCEPT ![r].todo = Tail(@), ![r].receipts = @ + entries,
            ![r].changed = @ + n, ![r].ended = ending, ![r].awaiting = ending = "none"]

NextBatch(r) == IF Len(run[r].todo) > 1 THEN "none" ELSE "complete"

\* The run stops as soon as one of its entries is not anchored.
Ending(r) == IF lagging' THEN "committed-unanchored" ELSE NextBatch(r)

\* Mutant: the error alone, whatever the run holds receipts of.
ThrownBare(r) == "threw"

\* A throw carries the report of the batches the run holds receipts of.
Thrown(r) == IF run[r].receipts > 0 THEN "failed" ELSE "threw"

\* The batch's transaction returns and the run adopts its entry and n changes;
\* or a callback throws after its COMMIT, and they are adopted by nobody.
Settles(r, n) ==
  \/ lagging' = stuck /\ BatchDone(r, n, 1, Ending(r))
  \/ BatchDone(r, 0, 0, Thrown(r))

\* The answer is applied to the rows as they are now, and journaled with them.
OracleApplies(r) ==
  /\ run[r].awaiting
  /\ \E answer \in Answers(Head(run[r].todo)), flagged \in BOOLEAN :
       LET changes == Merges(answer) \cup Archives(answer) IN
       \E inserts \in SUBSET {i \in Ids : status[i] = "unused"} :
         /\ Cardinality(inserts) = Cardinality(Sources(answer))
         /\ IF changes # {} \/ inserts # {} \/ Skipped(answer) \/ flagged
            THEN /\ status' = Applied(changes, inserts)
                 /\ Append1(Consolidated(r, changes, inserts))
                 /\ Settles(r, Cardinality(changes) + Cardinality(inserts))
            ELSE /\ BatchDone(r, 0, 0, NextBatch(r))
                 /\ UNCHANGED rows
  /\ UNCHANGED <<stuck, confirmed, rejected>>

\* The answer is refused, or there was none: one entry says so.
OracleRejected(r) ==
  /\ run[r].awaiting
  /\ Append1(Consolidated(r, {}, {}))
  /\ Settles(r, 0)
  /\ UNCHANGED <<status, stuck, confirmed, rejected>>

\* The gate refuses the batch's entry, or its transaction fails, and unwinds.
OracleRefused(r) ==
  /\ run[r].awaiting
  /\ BatchDone(r, 0, 0, Thrown(r))
  /\ UNCHANGED <<rows, stuck, confirmed, rejected>>

-----------------------------------------------------------------------------
(* rollback().                                                             *)

\* Mutant: no replay guard.
RolledBackNever(n) == FALSE

RolledBack(n) ==
  \E m \in DOMAIN journal : journal[m].op = "rollback" /\ journal[m].target = n

\* Every row is still as the batch left it.
Untouched(n) ==
  /\ \A c \in journal[n].changes : status[c.id] = "archived"
  /\ \A i \in journal[n].inserts : status[i] = "proposed"

\* verify() without healing: a lagging file refuses the rollback.
Rollback ==
  \E n \in DOMAIN journal :
    /\ ~lagging
    /\ journal[n].op = "consolidate"
    /\ ~RolledBack(n)
    /\ Untouched(n)
    /\ status' = [i \in Ids |->
         IF i \in journal[n].inserts THEN "deleted"
         ELSE IF i \in {c.id : c \in journal[n].changes}
              THEN (CHOOSE c \in journal[n].changes : c.id = i).from
              ELSE status[i]]
    /\ Append1([op |-> "rollback", target |-> n])
    /\ UNCHANGED <<stuck, run, confirmed, rejected>>

-----------------------------------------------------------------------------

\* The checkpoint file can no longer be written, or can again.
Jam ==
  /\ stuck' = ~stuck
  /\ UNCHANGED <<rows, run, confirmed, rejected>>

Next ==
  \/ Write \/ Confirm \/ Reject \/ RunDeterministic \/ Rollback \/ Jam
  \/ \E r \in Runs :
       OracleStart(r) \/ OracleApplies(r) \/ OracleRejected(r) \/ OracleRefused(r)

Spec == Init /\ [][Next]_vars

-----------------------------------------------------------------------------
(* Properties.                                                             *)

Batch(n) == journal[n].op = "consolidate"

\* What the user decided stands, whatever is consolidated and rolled back, in
\* whatever order: a rejected memory never comes back, a confirmed one is never
\* a proposal again, and no rollback deletes it.
DecisionsStand ==
  /\ \A i \in rejected : status[i] = "archived"
  /\ \A i \in confirmed : status[i] \in {"confirmed", "archived"}

\* A rollback brings back the very statuses its batch found, not those of a
\* snapshot the oracle was asked about before somebody decided.
RollbackRestores ==
  [][journal' # journal /\ Last(journal').op = "rollback" =>
       LET n == Last(journal').target IN
         \A c \in journal[n].changes : status'[c.id] = before[n][c.id]]_vars

\* "Any run is one command to roll back": until that has been done, everything
\* a batch archived is still archived, so no later batch, decision or rollback
\* ever makes its rollback refuse on their account.
BatchStaysReversible ==
  \A n \in DOMAIN journal : Batch(n) /\ ~RolledBack(n) =>
    \A c \in journal[n].changes : status[c.id] = "archived"

\* The state every pass, decision and rollback leaves behind.
ConsolidationInv == TypeOK /\ BatchStaysReversible

\* No merge crosses the review boundary: into a memory of the same scope and
\* type, never a confirmed one into a proposal, and a proposal into a confirmed
\* one only where their contents are the same.
ReviewBoundary ==
  \A n \in DOMAIN journal : Batch(n) => \A c \in journal[n].changes :
    c.into # None =>
      /\ Part[c.into] = Part[c.id]
      /\ \/ before[n][c.into] = before[n][c.id]
         \/ before[n][c.into] = "confirmed" /\ Key[c.into] = Key[c.id]

\* The ids a batch folds i into, one after the other.
Follow(changes, i) ==
  LET next(j) == IF \E c \in changes : c.id = j /\ c.into # None
                 THEN (CHOOSE c \in changes : c.id = j /\ c.into # None).into ELSE j
  IN FoldLeft(LAMBDA j, k : next(j), i, Listing)

JustConsolidated == journal' # journal /\ Last(journal').op = "consolidate"

\* Whatever is merged ends, through any chain of merges, in a memory that is
\* still there, unless that one decayed in the same pass.
MergesEndSomewhere ==
  [][JustConsolidated =>
       LET changes == Last(journal').changes IN
         \A c \in changes : c.into # None =>
           LET end == Follow(changes, c.id) IN
             \/ status'[end] \in {"proposed", "confirmed"}
             \/ Archive(end, None) \in changes]_vars

\* assoc/fold.ts: consolidation never strands edge weight on dead nodes, so
\* what it folds a memory into is alive.
SurvivorIsLive ==
  [][JustConsolidated =>
       \A c \in Last(journal').changes : c.into # None =>
         status'[Follow(Last(journal').changes, c.id)] \in {"proposed", "confirmed"}]_vars

\* The report of a run counts exactly what its entries made durable, and an
\* exception without a report means that nothing was; save for the one batch
\* that committed before a callback threw, which ends the run with an exception
\* and is the last entry it wrote.  Whatever the run goes on after, or returns,
\* is counted.
ChangesOf(r) ==
  FoldLeft(LAMBDA sum, e :
             IF e.op # "rollback" /\ e.by = r
             THEN sum + Cardinality(e.changes) + Cardinality(e.inserts) ELSE sum,
           0, journal)

Own(r)  == {n \in DOMAIN journal : journal[n].op # "rollback" /\ journal[n].by = r}
Size(n) == Cardinality(journal[n].changes) + Cardinality(journal[n].inserts)

\* All the run wrote is in its report, or all but its entry n.
CountsAll(r) ==
  /\ run[r].changed = ChangesOf(r)
  /\ run[r].receipts > 0 <=> Own(r) # {}

CountsAllBut(r, n) ==
  /\ \A m \in Own(r) : m <= n
  /\ run[r].changed + Size(n) = ChangesOf(r)
  /\ run[r].receipts > 0 <=> Own(r) # {n}

ReportIsDurable ==
  \A r \in Runs :
    /\ run[r].ended = "threw" => run[r].receipts = 0
    /\ run[r].ended = "failed" => run[r].receipts > 0
    /\ \/ CountsAll(r)
       \/ run[r].ended \in {"failed", "threw"} /\ \E n \in Own(r) : CountsAllBut(r, n)

=============================================================================
