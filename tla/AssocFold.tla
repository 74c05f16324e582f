------------------------------ MODULE AssocFold ------------------------------
(***************************************************************************)
(* The association graph: an edge table derived from the journal, behind a *)
(* cursor (src/packages/core/src/assoc/, the edge statements of            *)
(* src/packages/cli/src/drivers/sqlite.ts, and the search of               *)
(* src/packages/core/src/memory/service.ts that drives it).                *)
(*                                                                         *)
(* Several processes fold the journal in chunks: before a search, inside   *)
(* the transaction that journals the search's own hits, after a merge, and *)
(* from zero when the table is rebuilt.                                    *)
(*                                                                         *)
(* The weight of an edge is determined by the entries applied to it and    *)
(* their order (each application decays what is there and adds), so an     *)
(* edge is that sequence of journal ids; the empty sequence is no row.     *)
(***************************************************************************)
EXTENDS Naturals, Sequences, FiniteSets

CONSTANTS
  Mems,         \* memories
  Searchers,    \* processes
  Nobody,       \* nobody holds the writer lock
  Chunk,        \* FOLD_CHUNK
  MaxEntries    \* bound: length of the journal

ASSUME AssocAssumption ==
  /\ IsFiniteSet(Mems)
  /\ Nobody \notin Searchers
  /\ Chunk \in Nat \ {0}
  /\ MaxEntries \in Nat

Pairs == {s \in SUBSET Mems : Cardinality(s) = 2}

\* Journal entries the fold reads; `other` stands for all the rest, rollbacks
\* included: they fold to nothing.
Merges  == {m \in Mems \X Mems : m[1] # m[2]}
Entries == [op : {"retrieve"}, ids : SUBSET Mems]
           \cup [op : {"consolidate"}, merges : Seq(Merges)]
           \cup {[op |-> "other"]}

VARIABLES
  graph,   \* committed: [journal, live, edges, cursor]
  work,    \* the same, as the open write transaction sees it
  worker,  \* who has a write transaction open
  at,      \* where each process is
  hits     \* the ids a search ranked

assocVars == <<graph, work, worker, at, hits>>

\* "alone": the search goes on without the graph (useAssoc is false).
Places == {"rest", "folding", "searching", "ranking", "ranking alone", "ranked",
           "ranked alone", "inner", "rebuilding", "closing"}
Tables == [journal : Seq(Entries), live : SUBSET Mems,
           edges : [Pairs -> Seq(Nat)], cursor : Nat]

AssocTypeOK ==
  /\ graph \in Tables /\ work \in Tables
  /\ worker \in Searchers \cup {Nobody}
  /\ at \in [Searchers -> Places]
  /\ hits \in [Searchers -> SUBSET Mems]
  /\ worker = Nobody => work = graph

NoEdges == [p \in Pairs |-> <<>>]

AssocInit ==
  /\ graph = [journal |-> <<>>, live |-> Mems, edges |-> NoEdges, cursor |-> 0]
  /\ work = graph
  /\ worker = Nobody
  /\ at = [p \in Searchers |-> "rest"]
  /\ hits = [p \in Searchers |-> {}]

-----------------------------------------------------------------------------
(* The fold.                                                               *)

\* coRetrievalDeltas() and applyAssocDelta(): each pair, decayed, then more.
Wire(edges, ids, n) ==
  [p \in Pairs |-> IF p \subseteq ids THEN Append(edges[p], n) ELSE edges[p]]

\* rewireAssoc(): every edge of `from` is carried to `to`; the edge between the
\* two dissolves.
Rewire(edges, from, to, n) ==
  [p \in Pairs |->
     IF from \in p THEN <<>>
     ELSE LET other == CHOOSE x \in p : x # to
              carried == edges[{from, other}]
          IN IF to \in p /\ carried # <<>>
             THEN edges[p] \o carried \o <<n>>
             ELSE edges[p]]

\* Mutant: the first of an entry's merges only.
RewiresFirst(edges, merges, n) ==
  IF merges = <<>> THEN edges ELSE Rewire(edges, merges[1][1], merges[1][2], n)

\* The changes of a consolidate entry, in their order.
Rewires(edges, merges, n) ==
  LET step[k \in 0..Len(merges)] ==
        IF k = 0 THEN edges ELSE Rewire(step[k - 1], merges[k][1], merges[k][2], n)
  IN step[Len(merges)]

\* foldRecord() and apply().
FoldRecord(edges, e, n) ==
  IF e.op = "retrieve" THEN Wire(edges, e.ids, n)
  ELSE IF e.op = "consolidate" THEN Rewires(edges, e.merges, n)
  ELSE edges

\* The table after each prefix of a journal.
Replay(journal) ==
  LET table[n \in 0..Len(journal)] ==
        IF n = 0 THEN NoEdges ELSE FoldRecord(table[n - 1], journal[n], n)
  IN table

\* One pass of catchUp()'s loop: at most Chunk entries past the cursor.
Upto(t)    == IF Len(t.journal) - t.cursor < Chunk THEN Len(t.journal) ELSE t.cursor + Chunk
Folded(t)  == LET table[n \in t.cursor..Upto(t)] ==
                    IF n = t.cursor THEN t.edges ELSE FoldRecord(table[n - 1], t.journal[n], n)
              IN [t EXCEPT !.edges = table[Upto(t)], !.cursor = Upto(t)]
LastPass(t) == Len(t.journal) - t.cursor < Chunk

-----------------------------------------------------------------------------
(* One process.                                                            *)

Go(p, place) == at' = [at EXCEPT ![p] = place]

Append1(t, e) == [t EXCEPT !.journal = Append(@, e)]

\* A transaction that begins and commits in one step.
Store(t) == worker = Nobody /\ graph' = t /\ work' = t /\ UNCHANGED worker

\* BEGIN IMMEDIATE, with the first writes of the body.
OpenWork(p, t) == worker = Nobody /\ worker' = p /\ work' = t /\ UNCHANGED graph

Inside(p, t) == worker = p /\ work' = t /\ UNCHANGED <<graph, worker>>

\* A call ends and its locals with it.
Rest(p) == at' = [at EXCEPT ![p] = "rest"] /\ hits' = [hits EXCEPT ![p] = {}]

\* search(): first catchUp().
Search(p) ==
  /\ at[p] = "rest"
  /\ Go(p, "searching")
  /\ UNCHANGED <<graph, work, worker, hits>>

\* One chunk at top level is a write transaction of its own.
CatchUp(p) ==
  /\ at[p] \in {"searching", "folding"}
  /\ Store(Folded(graph))
  /\ Go(p, IF ~LastPass(graph) THEN at[p]
           ELSE IF at[p] = "searching" THEN "ranking" ELSE "rest")
  /\ UNCHANGED hits

\* It throws: the search goes on without the graph, a command goes on.
CatchUpFails(p) ==
  /\ at[p] \in {"searching", "folding"}
  /\ Go(p, IF at[p] = "searching" THEN "ranking alone" ELSE "rest")
  /\ UNCHANGED <<graph, work, worker, hits>>

\* Hits are live memories, lexical or neighbours of such; none ends the search.
Rank(p) ==
  /\ at[p] \in {"ranking", "ranking alone"}
  /\ \E ids \in SUBSET graph.live :
       /\ hits' = [hits EXCEPT ![p] = ids]
       /\ Go(p, IF ids = {} THEN "rest"
                ELSE IF at[p] = "ranking" THEN "ranked" ELSE "ranked alone")
  /\ UNCHANGED <<graph, work, worker>>

\* The retrieval is journaled, with the ids ranked earlier.
Bump(p) ==
  /\ at[p] \in {"ranked", "ranked alone"}
  /\ Len(graph.journal) < MaxEntries
  /\ OpenWork(p, Append1(graph, [op |-> "retrieve", ids |-> hits[p]]))
  /\ Go(p, IF at[p] = "ranked" THEN "inner" ELSE "closing")
  /\ UNCHANGED hits

\* catchUp() inside the transaction: each chunk is a savepoint.
CatchUpInside(p) ==
  /\ at[p] = "inner"
  /\ Inside(p, Folded(work))
  /\ Go(p, IF LastPass(work) THEN "closing" ELSE "inner")
  /\ UNCHANGED hits

\* Mutant: the cursor is set before the chunk, outside its savepoint.
InnerFailsPastCursor(p) ==
  /\ at[p] = "inner"
  /\ Inside(p, [work EXCEPT !.cursor = Upto(work)])
  /\ Go(p, "closing")
  /\ UNCHANGED hits

\* The chunk throws: its savepoint unwinds, earlier ones and the host stay.
InnerFails(p) ==
  /\ at[p] = "inner"
  /\ Go(p, "closing")
  /\ UNCHANGED <<graph, work, worker, hits>>

\* rebuild(): cleared and folded from zero, in one write transaction.
Rebuild(p) ==
  /\ at[p] = "rest"
  /\ OpenWork(p, [graph EXCEPT !.edges = NoEdges, !.cursor = 0])
  /\ Go(p, "rebuilding")
  /\ UNCHANGED hits

RebuildFolds(p) ==
  /\ at[p] = "rebuilding"
  /\ Inside(p, Folded(work))
  /\ Go(p, IF LastPass(work) THEN "closing" ELSE "rebuilding")
  /\ UNCHANGED hits

CommitWork(p) ==
  /\ at[p] = "closing" /\ worker = p
  /\ graph' = work
  /\ worker' = Nobody
  /\ Rest(p)
  /\ UNCHANGED work

\* The body throws (a refused append, a fold of a rebuild) or the process dies.
GiveUp(p) ==
  /\ at[p] # "rest"
  /\ work' = IF worker = p THEN graph ELSE work
  /\ worker' = IF worker = p THEN Nobody ELSE worker
  /\ Rest(p)
  /\ UNCHANGED graph

\* A command that journals and then folds: foldAssoc().
Command(p, t) ==
  /\ at[p] = "rest"
  /\ Len(graph.journal) < MaxEntries
  /\ Store(t)
  /\ Go(p, "folding")
  /\ UNCHANGED hits

\* A consolidation pass: merges one after another, each into what is live then.
LiveAfter(merges) == graph.live \ {merges[k][1] : k \in DOMAIN merges}

MergeLists == {<<m>> : m \in Merges}
              \cup {ms \in Merges \X Merges : ms[2][1] # ms[1][1] /\ ms[2][2] # ms[1][1]}

Consolidate(p) == \E ms \in MergeLists :
  /\ \A k \in DOMAIN ms : {ms[k][1], ms[k][2]} \subseteq graph.live
  /\ Command(p, [Append1(graph, [op |-> "consolidate", merges |-> ms])
                   EXCEPT !.live = LiveAfter(ms)])

\* A rollback revives memories; the edges stay where the merge took them.
Revive(p) == \E ids \in (SUBSET (Mems \ graph.live)) \ {{}} :
  Command(p, [Append1(graph, [op |-> "other"]) EXCEPT !.live = @ \cup ids])

AssocStep(p) ==
  \/ CatchUp(p) \/ CatchUpFails(p) \/ Rank(p) \/ Bump(p)
  \/ CatchUpInside(p) \/ InnerFails(p) \/ RebuildFolds(p) \/ CommitWork(p)

AssocNext == \E p \in Searchers :
  \/ Search(p) \/ AssocStep(p) \/ Rebuild(p) \/ GiveUp(p)
  \/ Consolidate(p) \/ Revive(p)

AssocSpec == AssocInit /\ [][AssocNext]_assocVars

-----------------------------------------------------------------------------
(* Properties.                                                             *)

IsReplay(t) ==
  t.cursor <= Len(t.journal) /\ t.edges = Replay(t.journal)[t.cursor]

\* Whatever chunks ran, failed, were rolled back with their host or raced with a
\* rebuild, the table is the fold of exactly the entries up to the cursor: live
\* accumulation and a rebuild from zero agree, edge by edge.
FoldIsReplay == IsReplay(graph) /\ IsReplay(work)

\* Where entry e merges memories away, or into others.
MergesIn(e)    == IF e.op = "consolidate" THEN {e.merges[k] : k \in DOMAIN e.merges} ELSE {}
MergedAway(e)  == {m[1] : m \in MergesIn(e)}
MergedInto(e)  == {m[2] : m \in MergesIn(e)}

\* Entries up to the cursor that merged m away, for good: no later one merged
\* another memory into m, as may happen once a rollback has revived it.
MergedAt(m) ==
  {n \in 1..graph.cursor :
     /\ m \in MergedAway(graph.journal[n])
     /\ \A l \in (n + 1)..graph.cursor : m \notin MergedInto(graph.journal[l])}

\* A merge moves all of the loser's mass, through chains of merges in one entry
\* too: what an edge of a merged memory holds is younger than its merge (a
\* search that had ranked it before the merge, or its life after a rollback),
\* unless a later merge carried its loser's mass there.
MergeMovesAllMass ==
  \A p \in Pairs, m \in Mems :
    m \in p => \A n \in MergedAt(m), i \in DOMAIN graph.edges[p] : graph.edges[p][i] > n

=============================================================================
