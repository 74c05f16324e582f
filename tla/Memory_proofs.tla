--------------------------- MODULE Memory_proofs ---------------------------
(***************************************************************************)
(* The association graph and the masked memories, for any number of        *)
(* processes, memories, values and entries.                                *)
(*                                                                         *)
(* Association: a chunk folded from a table that is the replay of a prefix *)
(* gives the replay of a longer one, and appending does not change the     *)
(* tables of the prefixes; so whatever fails between chunks, the table is  *)
(* that of its cursor.  That a merge leaves no mass behind is then a fact  *)
(* about the replay: the entry clears the loser's edges, and every later   *)
(* one gives them its own, younger mass only.                              *)
(*                                                                         *)
(* Masking: a warm cache knows committed names only, and the open          *)
(* transaction's table contains the committed one; so a name taken from    *)
(* either is in the table of the transaction that stores it, and two rows  *)
(* look the same exactly when they hold the same text.                     *)
(*                                                                         *)
(* Last, the parts of the store side by side.                              *)
(***************************************************************************)
EXTENDS MCStore, Driver_proofs, FiniteSetTheorems, SequenceTheorems, WellFoundedInduction, TLAPS

-----------------------------------------------------------------------------
(* Induction on numbers.                                                   *)

LEMMA Least ==
  ASSUME NEW T \in SUBSET Nat, T # {}
  PROVE  \E n \in T : \A m \in T : n <= m
<1> DEFINE R == OpToRel(<, Nat)
<1>1. IsWellFoundedOn(R, Nat)
  BY NatLessThanWellFounded
<1> HIDE DEF R
<1>2. PICK n \in T : \A m \in T : ~ (<<m, n>> \in R)
  BY <1>1, WFMin
<1>3. \A m \in T : <<m, n>> \in R <=> m < n
  BY DEF R, OpToRel
<1>4. \A m \in T : n <= m
  <2>1. SUFFICES ASSUME NEW m \in T PROVE n <= m
    OBVIOUS
  <2>2. m \in Nat /\ n \in Nat /\ ~ (m < n)
    BY <1>2, <1>3
  <2>3. QED
    BY <2>2
<1>5. QED
  BY <1>4

\* From the first of a run of numbers to the last.
LEMMA Upwards ==
  ASSUME NEW T, NEW a \in Nat, NEW b \in Nat, a \in T,
         \A n \in a..b : n \in T /\ n < b => n + 1 \in T
  PROVE  \A n \in a..b : n \in T
<1>1. SUFFICES ASSUME {n \in a..b : n \notin T} # {} PROVE FALSE
  OBVIOUS
<1> DEFINE M == {n \in a..b : n \notin T}
<1>2. M \in SUBSET Nat /\ M # {}
  BY <1>1
<1>3. PICK n \in M : \A m \in M : n <= m
  BY <1>2, Least
<1>4. n \in a..b /\ n \notin T /\ n # a /\ n \in Nat
  BY <1>3
<1>5. n - 1 \in a..b /\ n - 1 < b /\ n - 1 + 1 = n /\ ~ (n <= n - 1)
  BY <1>4
<1>6. n - 1 \in T
  BY <1>3, <1>5
<1>7. QED
  BY <1>4, <1>5, <1>6

-----------------------------------------------------------------------------
(* THE ASSOCIATION GRAPH.                                                  *)

\* Entries as the program writes them: a pass merges one memory, or two one
\* after the other, and nothing more of the first.
Logged == {e \in Entries : e.op = "consolidate" => e.merges \in MergeLists}

Edges == [Pairs -> Seq(Nat)]

\* A table behind its cursor.
Sound(t) == t \in Tables /\ t.journal \in Seq(Logged) /\ IsReplay(t)

GraphInv == AssocTypeOK /\ Sound(graph) /\ Sound(work)

-----------------------------------------------------------------------------
(* The recursive functions of the fold exist.                              *)

Table(f, base, journal, c, m) ==
  f = [n \in c..m |-> IF n = c THEN base ELSE FoldRecord(f[n - 1], journal[n], n)]

LEMMA TableExists ==
  ASSUME NEW base, NEW journal, NEW c \in Nat, NEW m \in Nat, c <= m
  PROVE  \E f : Table(f, base, journal, c, m)
<1> DEFINE T == {k \in Nat : \E f : Table(f, base, journal, c, k)}
<1>1. c \in T
  <2> DEFINE f == [n \in c..c |-> base]
  <2>1. f = [n \in c..c |-> IF n = c THEN base ELSE FoldRecord(f[n - 1], journal[n], n)]
    OBVIOUS
  <2> HIDE DEF f
  <2>2. Table(f, base, journal, c, c)
    BY <2>1 DEF Table
  <2>3. QED
    BY <2>2
<1>2. ASSUME NEW k \in c..m, k \in T, k < m PROVE k + 1 \in T
  <2>1. PICK f : Table(f, base, journal, c, k)
    BY <1>2
  <2> DEFINE g == [n \in c..(k + 1) |->
                     IF n = k + 1 THEN FoldRecord(f[k], journal[k + 1], k + 1) ELSE f[n]]
  <2>2. ASSUME NEW n \in c..(k + 1)
        PROVE  g[n] = IF n = c THEN base ELSE FoldRecord(g[n - 1], journal[n], n)
    <3>1. CASE n = k + 1
      <4>1. n # c /\ n - 1 \in c..(k + 1) /\ n - 1 # k + 1 /\ n - 1 = k
        BY <3>1
      <4>2. g[n - 1] = f[k]
        BY <4>1
      <4>3. QED
        BY <3>1, <4>1, <4>2
    <3>2. CASE n # k + 1
      <4>1. n \in c..k
        BY <3>2
      <4>2. f[n] = IF n = c THEN base ELSE FoldRecord(f[n - 1], journal[n], n)
        BY <2>1, <4>1 DEF Table
      <4>3. n # c => n - 1 \in c..(k + 1) /\ n - 1 # k + 1
        BY <4>1
      <4>4. n # c => g[n - 1] = f[n - 1]
        BY <4>3
      <4>5. QED
        BY <3>2, <4>2, <4>4
    <3>3. QED
      BY <3>1, <3>2
  <2>3. g = [n \in c..(k + 1) |-> g[n]]
    OBVIOUS
  <2> HIDE DEF g
  <2>4. g = [n \in c..(k + 1) |-> IF n = c THEN base ELSE FoldRecord(g[n - 1], journal[n], n)]
    BY <2>2, <2>3
  <2>5. Table(g, base, journal, c, k + 1)
    BY <2>4 DEF Table
  <2>6. QED
    BY <2>5
<1>3. m \in T
  <2> HIDE DEF T
  <2>1. \A n \in c..m : n \in T /\ n < m => n + 1 \in T
    BY <1>2
  <2>2. m \in c..m
    OBVIOUS
  <2>3. QED
    BY <1>1, <2>1, <2>2, Upwards
<1>4. QED
  BY <1>3

LEMMA ReplayIs ==
  ASSUME NEW journal \in Seq(Entries)
  PROVE  Table(Replay(journal), NoEdges, journal, 0, Len(journal))
<1> DEFINE table == CHOOSE f : Table(f, NoEdges, journal, 0, Len(journal))
<1>1. Len(journal) \in Nat /\ 0 \in Nat /\ 0 <= Len(journal)
  OBVIOUS
<1>2. Replay(journal) = table
  BY DEF Replay, Table
<1>3. \E f : Table(f, NoEdges, journal, 0, Len(journal))
  BY <1>1, TableExists
<1>4. QED
  BY <1>2, <1>3

\* f does from a to b what the fold does.
Follows(f, journal, a, b) ==
  \A n \in (a + 1)..b : f[n] = FoldRecord(f[n - 1], journal[n], n)

LEMMA TableSteps ==
  ASSUME NEW f, NEW base, NEW journal, NEW c \in Nat, NEW m \in Nat, c <= m,
         Table(f, base, journal, c, m)
  PROVE  f[c] = base /\ Follows(f, journal, c, m)
<1>1. \A n \in c..m : f[n] = IF n = c THEN base ELSE FoldRecord(f[n - 1], journal[n], n)
  BY DEF Table
<1>2. c \in c..m /\ \A n \in (c + 1)..m : n \in c..m /\ n # c
  OBVIOUS
<1>3. QED
  BY <1>1, <1>2 DEF Follows

\* f and g are the same from a to b.
SameOver(f, g, a, b) == \A n \in a..b : f[n] = g[n]

LEMMA Agree ==
  ASSUME NEW f, NEW g, NEW journal, NEW a \in Nat, NEW b \in Nat, f[a] = g[a],
         Follows(f, journal, a, b), Follows(g, journal, a, b)
  PROVE  SameOver(f, g, a, b)
<1> DEFINE T == {n \in Nat : f[n] = g[n]}
<1>1. ASSUME NEW n \in a..b, n \in T, n < b PROVE n + 1 \in T
  <2>1. n + 1 \in (a + 1)..b /\ n + 1 - 1 = n /\ n + 1 \in Nat
    BY <1>1
  <2>2. f[n] = g[n]
    BY <1>1
  <2>3. f[n + 1] = FoldRecord(f[n + 1 - 1], journal[n + 1], n + 1)
        /\ g[n + 1] = FoldRecord(g[n + 1 - 1], journal[n + 1], n + 1)
    BY <2>1 DEF Follows
  <2>4. QED
    BY <2>1, <2>2, <2>3
<1>2. a \in T
  OBVIOUS
<1> HIDE DEF T
<1>3. \A n \in a..b : n \in T
  BY <1>1, <1>2, Upwards
<1>4. QED
  BY <1>3 DEF T, SameOver

LEMMA ReplaySteps ==
  ASSUME NEW journal \in Seq(Entries)
  PROVE  Replay(journal)[0] = NoEdges /\ Follows(Replay(journal), journal, 0, Len(journal))
<1> DEFINE r == Replay(journal)
<1> DEFINE l == Len(journal)
<1>1. l \in Nat /\ 0 \in Nat /\ 0 <= l
  OBVIOUS
<1>2. Table(r, NoEdges, journal, 0, l)
  BY ReplayIs
<1> HIDE DEF r, l
<1>3. r[0] = NoEdges /\ Follows(r, journal, 0, l)
  BY <1>1, <1>2, TableSteps
<1>4. QED
  BY <1>3 DEF r, l

\* A longer journal has the same tables, as far as the shorter one goes.
LEMMA ReplayGrows ==
  ASSUME NEW journal \in Seq(Entries), NEW e \in Entries, NEW k \in 0..Len(journal)
  PROVE  Replay(Append(journal, e))[k] = Replay(journal)[k]
<1> DEFINE longer == Append(journal, e)
<1> DEFINE f == Replay(longer)
<1> DEFINE g == Replay(journal)
<1> DEFINE l == Len(journal)
<1>1. /\ longer \in Seq(Entries) /\ Len(longer) = l + 1 /\ l \in Nat
      /\ \A n \in 1..l : longer[n] = journal[n]
  BY AppendProperties, LenProperties
<1>2. f[0] = g[0] /\ Follows(f, longer, 0, Len(longer)) /\ Follows(g, journal, 0, l)
  BY <1>1, ReplaySteps
<1> HIDE DEF longer, f, g, l
<1>3. \A n \in (0 + 1)..l : n \in (0 + 1)..Len(longer) /\ longer[n] = journal[n]
  BY <1>1
<1>4. Follows(f, journal, 0, l)
  BY <1>2, <1>3 DEF Follows
<1>5. SameOver(f, g, 0, l)
  <2>1. 0 \in Nat /\ l \in Nat
    BY <1>1
  <2>2. QED
    BY <2>1, <1>2, <1>4, Agree
<1>6. QED
  BY <1>5 DEF longer, f, g, l, SameOver

LEMMA UptoIs ==
  ASSUME NEW L \in Nat, NEW t, Len(t.journal) = L, t.cursor \in Nat, t.cursor <= L
  PROVE  Upto(t) \in Nat /\ t.cursor <= Upto(t) /\ Upto(t) <= L
BY AssocAssumption DEF Upto

\* One more chunk of the journal.
LEMMA FoldedIs ==
  ASSUME NEW t, t.journal \in Seq(Entries), t.cursor \in Nat, IsReplay(t)
  PROVE  /\ Folded(t) = [t EXCEPT !.edges = Replay(t.journal)[Upto(t)], !.cursor = Upto(t)]
         /\ Upto(t) \in Nat /\ Upto(t) <= Len(t.journal)
<1> DEFINE j == t.journal
<1> DEFINE c == t.cursor
<1> DEFINE u == Upto(t)
<1> DEFINE r == Replay(j)
<1> DEFINE table == CHOOSE f : Table(f, t.edges, j, c, u)
<1>1. j \in Seq(Entries) /\ Len(j) \in Nat /\ c \in Nat /\ c <= Len(j) /\ t.edges = r[c]
  BY DEF IsReplay
<1>2. u \in Nat /\ c <= u /\ u <= Len(j)
  BY <1>1, UptoIs
<1>3. Folded(t) = [t EXCEPT !.edges = table[u], !.cursor = u]
  BY DEF Folded, Table
<1> HIDE DEF u, j, c
<1>4. \E f : Table(f, t.edges, j, c, u)
  BY <1>1, <1>2, TableExists
<1>5. Table(table, t.edges, j, c, u)
  BY <1>4
<1> HIDE DEF table
<1>6. table[c] = t.edges /\ Follows(table, j, c, u)
  BY <1>1, <1>2, <1>5, TableSteps
<1>7. Follows(r, j, 0, Len(j))
  BY <1>1, ReplaySteps
<1> HIDE DEF r
<1>8. Follows(r, j, c, u)
  <2>1. \A n \in (c + 1)..u : n \in (0 + 1)..Len(j)
    BY <1>1, <1>2
  <2>2. QED
    BY <1>7, <2>1 DEF Follows
<1>9. SameOver(table, r, c, u)
  <2>1. c \in Nat /\ u \in Nat /\ table[c] = r[c]
    BY <1>1, <1>2, <1>6
  <2>2. Follows(table, j, c, u) /\ Follows(r, j, c, u)
    BY <1>6, <1>8
  <2>3. QED
    BY <2>1, <2>2, Agree
<1>10. u \in c..u
  BY <1>1, <1>2
<1>11. table[u] = r[u]
  BY <1>9, <1>10 DEF SameOver
<1>12. QED
  BY <1>2, <1>3, <1>11 DEF u, j, r

-----------------------------------------------------------------------------
(* The fold keeps the table's type.                                        *)

LEMMA PairOf ==
  ASSUME NEW a \in Mems, NEW b \in Mems, a # b
  PROVE  {a, b} \in Pairs
<1>1. IsFiniteSet({b}) /\ Cardinality({b}) = 1 /\ a \notin {b} /\ {b} \cup {a} = {a, b}
  BY FS_Singleton
<1>2. Cardinality({b} \cup {a}) = Cardinality({b}) + 1
  BY <1>1, FS_AddElement
<1>3. Cardinality({a, b}) = 2
  BY <1>1, <1>2
<1>4. QED
  BY <1>3 DEF Pairs

LEMMA PairIs ==
  ASSUME NEW p \in Pairs, NEW a \in p
  PROVE  \E b \in p : b # a /\ p = {a, b} /\ a \in Mems /\ b \in Mems
<1>1. p \in SUBSET Mems /\ Cardinality(p) = 2 /\ IsFiniteSet(p)
  BY AssocAssumption, FS_Subset DEF Pairs
<1>2. IsFiniteSet(p \ {a}) /\ Cardinality(p \ {a}) = 1
  BY <1>1, FS_RemoveElement
<1>3. PICK b : p \ {a} = {b}
  BY <1>2, FS_Singleton
<1>4. QED
  BY <1>1, <1>3

\* The other end of an edge.
LEMMA OtherEnd ==
  ASSUME NEW p \in Pairs, NEW a \in p
  PROVE  LET other == CHOOSE x \in p : x # a IN
         other \in p /\ other # a /\ p = {a, other} /\ a \in Mems /\ other \in Mems
<1>1. PICK b \in p : b # a /\ p = {a, b} /\ a \in Mems /\ b \in Mems
  BY PairIs
<1>2. \A x \in p : x # a => x = b
  BY <1>1
<1>3. (CHOOSE x \in p : x # a) = b
  BY <1>1, <1>2
<1>4. QED
  BY <1>1, <1>3

LEMMA WireTyped ==
  ASSUME NEW edges \in Edges, NEW ids, NEW n \in Nat
  PROVE  Wire(edges, ids, n) \in Edges
BY AppendProperties DEF Wire, Edges

\* What edge p holds, `now`, after a merge.
Moved(now, edges, from, to, n, p) ==
  /\ now \in Seq(Nat)
  /\ from \in p => now = <<>>
  /\ from \notin p /\ to \notin p => now = edges[p]
  /\ from \notin p /\ to \in p =>
       \/ now = edges[p]
       \/ \E other \in p : /\ other # to /\ {from, other} \in Pairs /\ p = {to, other}
                           /\ edges[{from, other}] # <<>>
                           /\ now = edges[p] \o edges[{from, other}] \o <<n>>

LEMMA Carried ==
  ASSUME NEW edges \in Edges, NEW from \in Mems, NEW to \in Mems, from # to, NEW n \in Nat,
         NEW p \in Pairs
  PROVE  Moved(Rewire(edges, from, to, n)[p], edges, from, to, n, p)
<1> DEFINE other == CHOOSE x \in p : x # to
<1> DEFINE carried == edges[{from, other}]
<1> DEFINE R == Rewire(edges, from, to, n)
<1>1. R[p] = IF from \in p THEN <<>>
             ELSE IF to \in p /\ carried # <<>> THEN edges[p] \o carried \o <<n>> ELSE edges[p]
  BY DEF Rewire
<1>2. edges[p] \in Seq(Nat) /\ <<>> \in Seq(Nat)
  BY DEF Edges
<1>3. ASSUME from \notin p, to \in p
      PROVE  other \in p /\ other # to /\ {from, other} \in Pairs /\ p = {to, other}
  <2>1. other \in p /\ other # to /\ p = {to, other} /\ other \in Mems
    BY <1>3, OtherEnd
  <2> HIDE DEF other
  <2>2. other # from
    BY <1>3, <2>1
  <2>3. QED
    BY <2>1, <2>2, PairOf
<1> HIDE DEF R, other
<1>4. ASSUME from \notin p, to \in p PROVE edges[p] \o carried \o <<n>> \in Seq(Nat)
  <2>1. carried \in Seq(Nat)
    BY <1>3, <1>4 DEF Edges
  <2> HIDE DEF carried
  <2>2. <<n>> \in Seq(Nat)
    OBVIOUS
  <2>3. edges[p] \o carried \in Seq(Nat)
    BY <1>2, <2>1, ConcatProperties
  <2>4. QED
    BY <2>2, <2>3, ConcatProperties
<1> HIDE DEF carried
<1>5. R[p] \in Seq(Nat)
  BY <1>1, <1>2, <1>4
<1>6. from \in p => R[p] = <<>>
  BY <1>1
<1>7. from \notin p /\ to \notin p => R[p] = edges[p]
  BY <1>1
<1>8. ASSUME from \notin p, to \in p
      PROVE  \/ R[p] = edges[p]
             \/ \E o \in p : /\ o # to /\ {from, o} \in Pairs /\ p = {to, o}
                             /\ edges[{from, o}] # <<>>
                             /\ R[p] = edges[p] \o edges[{from, o}] \o <<n>>
  <2>1. \/ R[p] = edges[p]
        \/ /\ edges[{from, other}] # <<>>
           /\ R[p] = edges[p] \o edges[{from, other}] \o <<n>>
    BY <1>1, <1>8 DEF carried
  <2>2. QED
    BY <1>3, <1>8, <2>1
<1>9. QED
  BY <1>5, <1>6, <1>7, <1>8 DEF R, Moved

LEMMA RewireTyped ==
  ASSUME NEW edges \in Edges, NEW m \in Merges, NEW n \in Nat
  PROVE  Rewire(edges, m[1], m[2], n) \in Edges
<1>1. m[1] \in Mems /\ m[2] \in Mems /\ m[1] # m[2]
  BY DEF Merges
<1> DEFINE R == Rewire(edges, m[1], m[2], n)
<1>2. \A p \in Pairs : R[p] \in Seq(Nat)
  BY <1>1, Carried DEF Moved
<1>3. R = [p \in Pairs |-> R[p]]
  BY DEF Rewire
<1> HIDE DEF R
<1>4. R \in Edges
  BY <1>2, <1>3 DEF Edges
<1>5. QED
  BY <1>4 DEF R

\* A pass of one merge, and one of two.
Steps(f, edges, merges, n) ==
  f = [k \in 0..Len(merges) |->
         IF k = 0 THEN edges ELSE Rewire(f[k - 1], merges[k][1], merges[k][2], n)]

LEMMA OneMerge ==
  ASSUME NEW edges, NEW m, NEW n
  PROVE  Rewires(edges, <<m>>, n) = Rewire(edges, m[1], m[2], n)
<1> DEFINE ms == <<m>>
<1> DEFINE f == [k \in 0..1 |-> IF k = 0 THEN edges ELSE Rewire(edges, m[1], m[2], n)]
<1>1. Len(ms) = 1 /\ ms[1] = m
  OBVIOUS
<1> HIDE DEF ms
<1>2. f[0] = edges /\ f[1] = Rewire(edges, m[1], m[2], n)
  OBVIOUS
<1>3. \A k \in 0..1 : f[k] = IF k = 0 THEN edges ELSE Rewire(f[k - 1], ms[k][1], ms[k][2], n)
  <2>1. SUFFICES ASSUME NEW k \in 0..1
                 PROVE  f[k] = IF k = 0 THEN edges ELSE Rewire(f[k - 1], ms[k][1], ms[k][2], n)
    OBVIOUS
  <2>2. k = 0 \/ (k = 1 /\ k - 1 = 0)
    OBVIOUS
  <2> HIDE DEF f
  <2>3. QED
    BY <1>1, <1>2, <2>2
<1>4. f = [k \in 0..1 |-> f[k]]
  OBVIOUS
<1> HIDE DEF f
<1>5. Steps(f, edges, ms, n)
  BY <1>1, <1>3, <1>4 DEF Steps
<1> DEFINE step == CHOOSE g : Steps(g, edges, ms, n)
<1>6. Steps(step, edges, ms, n)
  BY <1>5
<1>7. Rewires(edges, ms, n) = step[Len(ms)]
  BY DEF Rewires, Steps
<1> HIDE DEF step
<1>8. \A k \in 0..1 : step[k] = IF k = 0 THEN edges
                               ELSE Rewire(step[k - 1], ms[k][1], ms[k][2], n)
  BY <1>1, <1>6 DEF Steps
<1>9. step[0] = edges
  <2>1. 0 \in 0..1
    OBVIOUS
  <2>2. QED
    BY <1>8, <2>1
<1>10. step[1] = Rewire(edges, m[1], m[2], n)
  <2>1. 1 \in 0..1 /\ 1 # 0 /\ 1 - 1 = 0
    OBVIOUS
  <2>2. QED
    BY <1>1, <1>8, <1>9, <2>1
<1>11. QED
  BY <1>1, <1>7, <1>10 DEF ms

LEMMA TwoMerges ==
  ASSUME NEW edges, NEW m, NEW o, NEW n
  PROVE  Rewires(edges, <<m, o>>, n)
           = Rewire(Rewire(edges, m[1], m[2], n), o[1], o[2], n)
<1> DEFINE ms == <<m, o>>
<1> DEFINE e1 == Rewire(edges, m[1], m[2], n)
<1> DEFINE e2 == Rewire(e1, o[1], o[2], n)
<1> DEFINE f == [k \in 0..2 |-> IF k = 0 THEN edges ELSE IF k = 1 THEN e1 ELSE e2]
<1>1. Len(ms) = 2 /\ ms[1] = m /\ ms[2] = o
  OBVIOUS
<1> HIDE DEF ms
<1>2. f[0] = edges /\ f[1] = e1 /\ f[2] = e2
  OBVIOUS
<1>3. \A k \in 0..2 : f[k] = IF k = 0 THEN edges ELSE Rewire(f[k - 1], ms[k][1], ms[k][2], n)
  <2>1. SUFFICES ASSUME NEW k \in 0..2
                 PROVE  f[k] = IF k = 0 THEN edges ELSE Rewire(f[k - 1], ms[k][1], ms[k][2], n)
    OBVIOUS
  <2>2. k = 0 \/ (k = 1 /\ k - 1 = 0) \/ (k = 2 /\ k - 1 = 1)
    OBVIOUS
  <2> HIDE DEF f
  <2>3. QED
    BY <1>1, <1>2, <2>2
<1>4. f = [k \in 0..2 |-> f[k]]
  OBVIOUS
<1> HIDE DEF f
<1>5. Steps(f, edges, ms, n)
  BY <1>1, <1>3, <1>4 DEF Steps
<1> DEFINE step == CHOOSE g : Steps(g, edges, ms, n)
<1>6. Steps(step, edges, ms, n)
  BY <1>5
<1>7. Rewires(edges, ms, n) = step[Len(ms)]
  BY DEF Rewires, Steps
<1> HIDE DEF step
<1>8. \A k \in 0..2 : step[k] = IF k = 0 THEN edges
                               ELSE Rewire(step[k - 1], ms[k][1], ms[k][2], n)
  BY <1>1, <1>6 DEF Steps
<1>9. step[0] = edges
  <2>1. 0 \in 0..2
    OBVIOUS
  <2>2. QED
    BY <1>8, <2>1
<1>10. step[1] = e1
  <2>1. 1 \in 0..2 /\ 1 # 0 /\ 1 - 1 = 0
    OBVIOUS
  <2>2. QED
    BY <1>1, <1>8, <1>9, <2>1
<1>11. step[2] = e2
  <2>1. 2 \in 0..2 /\ 2 # 0 /\ 2 - 1 = 1
    OBVIOUS
  <2> HIDE DEF e1
  <2>2. QED
    BY <1>1, <1>8, <1>10, <2>1
<1>12. QED
  BY <1>1, <1>7, <1>11 DEF ms

LEMMA FoldTyped ==
  ASSUME NEW edges \in Edges, NEW e \in Logged, NEW n \in Nat
  PROVE  FoldRecord(edges, e, n) \in Edges
<1>1. CASE e.op = "retrieve"
  BY <1>1, WireTyped DEF FoldRecord
<1>2. CASE e.op = "consolidate"
  <2>1. FoldRecord(edges, e, n) = Rewires(edges, e.merges, n)
    BY <1>2 DEF FoldRecord
  <2>2. e.merges \in MergeLists
    BY <1>2 DEF Logged
  <2>3. CASE \E m \in Merges : e.merges = <<m>>
    BY <2>1, <2>3, OneMerge, RewireTyped
  <2>4. CASE \E m \in Merges, o \in Merges : e.merges = <<m, o>>
    <3>1. PICK m \in Merges, o \in Merges : e.merges = <<m, o>>
      BY <2>4
    <3>2. Rewire(edges, m[1], m[2], n) \in Edges
      BY RewireTyped
    <3>3. Rewire(Rewire(edges, m[1], m[2], n), o[1], o[2], n) \in Edges
      BY <3>2, RewireTyped
    <3>4. QED
      BY <2>1, <3>1, <3>3, TwoMerges
  <2>5. QED
    BY <2>2, <2>3, <2>4 DEF MergeLists
<1>3. CASE e.op # "retrieve" /\ e.op # "consolidate"
  BY <1>3 DEF FoldRecord
<1>4. QED
  BY <1>1, <1>2, <1>3

LEMMA ReplayTyped ==
  ASSUME NEW journal \in Seq(Logged), NEW k \in 0..Len(journal)
  PROVE  Replay(journal)[k] \in Edges
<1> DEFINE r == Replay(journal)
<1> DEFINE l == Len(journal)
<1> DEFINE T == {i \in Nat : r[i] \in Edges}
<1>1. journal \in Seq(Entries) /\ l \in Nat /\ 0 \in Nat /\ 0 + 1 = 1
  BY DEF Logged
<1>2. r[0] = NoEdges /\ Follows(r, journal, 0, l)
  BY <1>1, ReplaySteps
<1> HIDE DEF r
<1>3. 0 \in T
  <2>1. <<>> \in Seq(Nat)
    OBVIOUS
  <2>2. NoEdges \in Edges
    BY <2>1 DEF NoEdges, Edges
  <2>3. QED
    BY <1>1, <1>2, <2>2
<1>4. ASSUME NEW i \in 0..l, i \in T, i < l PROVE i + 1 \in T
  <2>1. i + 1 \in (0 + 1)..l /\ i + 1 \in 1..l /\ i + 1 - 1 = i /\ i + 1 \in Nat
    BY <1>1, <1>4
  <2>2. r[i] \in Edges
    BY <1>4
  <2>3. journal[i + 1] \in Logged
    BY <2>1, ElementOfSeq
  <2>4. r[i + 1] = FoldRecord(r[i + 1 - 1], journal[i + 1], i + 1)
    BY <1>2, <2>1 DEF Follows
  <2>5. QED
    BY <2>1, <2>2, <2>3, <2>4, FoldTyped
<1> HIDE DEF T
<1>5. \A i \in 0..l : i \in T
  BY <1>1, <1>3, <1>4, Upwards
<1>6. QED
  BY <1>5 DEF T, r

-----------------------------------------------------------------------------
(* The table is the fold of the entries up to the cursor.                  *)

LEMMA LoggedIsEntry == Logged \subseteq Entries /\ Seq(Logged) \subseteq Seq(Entries)
BY DEF Logged

LEMMA FoldedSound ==
  ASSUME NEW t, Sound(t)
  PROVE  Sound(Folded(t))
<1> DEFINE u == Upto(t)
<1> DEFINE r == Replay(t.journal)
<1>1. /\ t \in Tables /\ t.journal \in Seq(Logged) /\ t.journal \in Seq(Entries)
      /\ t.cursor \in Nat /\ IsReplay(t) /\ Len(t.journal) \in Nat
  BY LoggedIsEntry DEF Sound, Tables
<1>2. Folded(t) = [t EXCEPT !.edges = r[u], !.cursor = u] /\ u \in Nat /\ u <= Len(t.journal)
  BY <1>1, FoldedIs
<1>3. u \in 0..Len(t.journal)
  BY <1>1, <1>2
<1>4. r[u] \in [Pairs -> Seq(Nat)]
  BY <1>1, <1>3, ReplayTyped DEF Edges
<1> HIDE DEF u, r
<1>5. /\ Folded(t) \in Tables /\ Folded(t).journal = t.journal
      /\ Folded(t).cursor = u /\ Folded(t).edges = r[u]
  BY <1>1, <1>2, <1>4 DEF Tables
<1>6. QED
  BY <1>1, <1>2, <1>5 DEF Sound, IsReplay, r

LEMMA AppendSound ==
  ASSUME NEW t, NEW e \in Logged, NEW alive \in SUBSET Mems, Sound(t)
  PROVE  /\ Sound(Append1(t, e))
         /\ Sound([Append1(t, e) EXCEPT !.live = alive])
<1> DEFINE j == t.journal
<1> DEFINE n == Append1(t, e)
<1>1. /\ t \in Tables /\ j \in Seq(Logged) /\ j \in Seq(Entries) /\ e \in Entries
      /\ t.cursor \in Nat /\ t.cursor <= Len(j) /\ Len(j) \in Nat
      /\ t.edges = Replay(j)[t.cursor]
  BY LoggedIsEntry DEF Sound, Tables, IsReplay
<1>2. t.cursor \in 0..Len(j)
  BY <1>1
<1>3. Replay(Append(j, e))[t.cursor] = Replay(j)[t.cursor]
  BY <1>1, <1>2, ReplayGrows
<1>4. /\ Append(j, e) \in Seq(Logged) /\ Append(j, e) \in Seq(Entries)
      /\ Len(Append(j, e)) = Len(j) + 1
  BY <1>1, AppendProperties
<1>5. n = [t EXCEPT !.journal = Append(j, e)]
  BY DEF Append1
<1> HIDE DEF n
<1>6. /\ n \in Tables /\ n.journal = Append(j, e) /\ n.cursor = t.cursor /\ n.edges = t.edges
  BY <1>1, <1>4, <1>5 DEF Tables
<1>7. t.cursor <= Len(j) + 1
  BY <1>1
<1>8. Sound(n)
  BY <1>1, <1>3, <1>4, <1>6, <1>7 DEF Sound, IsReplay
<1> DEFINE l == [n EXCEPT !.live = alive]
<1>9. l \in Tables /\ l.journal = n.journal /\ l.cursor = n.cursor /\ l.edges = n.edges
  BY <1>6 DEF Tables
<1> HIDE DEF l
<1>10. Sound(l)
  BY <1>8, <1>9 DEF Sound, IsReplay
<1>11. QED
  BY <1>8, <1>10 DEF n, l

LEMMA ClearedSound ==
  ASSUME NEW t, Sound(t)
  PROVE  Sound([t EXCEPT !.edges = NoEdges, !.cursor = 0])
<1> DEFINE n == [t EXCEPT !.edges = NoEdges, !.cursor = 0]
<1>1. t \in Tables /\ t.journal \in Seq(Logged) /\ t.journal \in Seq(Entries)
      /\ Len(t.journal) \in Nat
  BY LoggedIsEntry DEF Sound, Tables
<1>2. Replay(t.journal)[0] = NoEdges /\ 0 \in 0..Len(t.journal) /\ 0 <= Len(t.journal)
  BY <1>1, ReplaySteps
<1>3. NoEdges \in [Pairs -> Seq(Nat)]
  BY <1>1, <1>2, ReplayTyped DEF Edges
<1>4. n \in Tables /\ n.journal = t.journal /\ n.cursor = 0 /\ n.edges = NoEdges
  BY <1>1, <1>3 DEF Tables
<1> HIDE DEF n
<1>5. Sound(n)
  BY <1>1, <1>2, <1>4 DEF Sound, IsReplay
<1>6. QED
  BY <1>5 DEF n

LEMMA GraphInit == AssocInit => GraphInv
<1>1. SUFFICES ASSUME AssocInit PROVE GraphInv
  OBVIOUS
<1> DEFINE j == <<>>
<1>2. j \in Seq(Logged) /\ j \in Seq(Entries) /\ Len(j) = 0
  OBVIOUS
<1>3. Replay(j)[0] = NoEdges
  BY <1>2, ReplaySteps
<1>4. NoEdges \in [Pairs -> Seq(Nat)]
  <2>1. 0 \in 0..Len(j)
    BY <1>2
  <2>2. QED
    BY <1>2, <1>3, <2>1, ReplayTyped DEF Edges
<1>5. graph.journal = j /\ graph.edges = NoEdges /\ graph.cursor = 0 /\ work = graph
  BY <1>1 DEF AssocInit
<1>6. graph \in Tables
  BY <1>1, <1>2, <1>4 DEF AssocInit, Tables
<1> HIDE DEF j
<1>7. 0 <= Len(j)
  BY <1>2
<1>8. Sound(graph) /\ Sound(work)
  BY <1>2, <1>3, <1>5, <1>6, <1>7 DEF Sound, IsReplay
<1>9. AssocTypeOK
  BY <1>1, <1>5, <1>6 DEF AssocTypeOK, AssocInit, Places
<1>10. QED
  BY <1>8, <1>9 DEF GraphInv

LEMMA GraphStep ==
  ASSUME GraphInv, [AssocNext]_assocVars
  PROVE  GraphInv'
<1>1. AssocTypeOK /\ Sound(graph) /\ Sound(work)
  BY DEF GraphInv
\* The shape of every step's tables is enough: what it does to `at` is typed.
<1> DEFINE Rest1 == /\ at' \in [Searchers -> Places] /\ hits' \in [Searchers -> SUBSET Mems]
<1>2. ASSUME Rest1, worker' \in Searchers \cup {Nobody}, Sound(graph'), Sound(work'),
             worker' = Nobody => work' = graph'
      PROVE  GraphInv'
  BY <1>2 DEF GraphInv, AssocTypeOK, Sound, IsReplay
<1>3. ASSUME NEW p \in Searchers, NEW place \in Places, Go(p, place)
      PROVE  at' \in [Searchers -> Places]
  BY <1>1, <1>3 DEF Go, AssocTypeOK
<1>4. ASSUME NEW p \in Searchers, Rest(p)
      PROVE  Rest1
  BY <1>1, <1>4 DEF Rest, AssocTypeOK, Places
<1>5. ASSUME UNCHANGED <<graph, work, worker>>, Rest1
      PROVE  GraphInv'
  <2>1. graph' = graph /\ work' = work /\ worker' = worker
    BY <1>5
  <2>2. Sound(graph') /\ Sound(work')
    BY <1>1, <2>1
  <2>3. QED
    BY <1>1, <1>2, <1>5, <2>1, <2>2 DEF AssocTypeOK
<1>6. ASSUME NEW t, Store(t), Sound(t), Rest1
      PROVE  GraphInv'
  BY <1>1, <1>2, <1>6 DEF Store, AssocTypeOK
<1>7. ASSUME NEW p \in Searchers, NEW t, OpenWork(p, t) \/ Inside(p, t), Sound(t), Rest1
      PROVE  GraphInv'
  <2>1. graph' = graph /\ work' = t /\ worker' = p /\ p # Nobody
    BY <1>7, AssocAssumption DEF OpenWork, Inside
  <2>2. Sound(graph') /\ Sound(work')
    BY <1>1, <1>7, <2>1
  <2>3. QED
    BY <1>2, <1>7, <2>1, <2>2
<1>8. ASSUME UNCHANGED hits PROVE hits' \in [Searchers -> SUBSET Mems]
  BY <1>1, <1>8 DEF AssocTypeOK
<1> HIDE DEF Rest1
<1>9. ASSUME NEW p \in Searchers, NEW place \in Places, Go(p, place), UNCHANGED hits
      PROVE  Rest1
  BY <1>3, <1>8, <1>9 DEF Rest1
<1>10. ASSUME NEW p \in Searchers, Search(p) PROVE GraphInv'
  BY <1>5, <1>9, <1>10 DEF Search, Places
<1>11. ASSUME NEW p \in Searchers, CatchUp(p) PROVE GraphInv'
  <2>1. at[p] \in {"searching", "folding"} /\ at[p] \in Places
    BY <1>11 DEF CatchUp, Places
  <2>2. Rest1
    BY <1>9, <1>11, <2>1 DEF CatchUp, Places
  <2>3. QED
    BY <1>1, <1>6, <1>11, <2>2, FoldedSound DEF CatchUp
<1>12. ASSUME NEW p \in Searchers, CatchUpFails(p) PROVE GraphInv'
  BY <1>5, <1>9, <1>12 DEF CatchUpFails, Places
<1>13. ASSUME NEW p \in Searchers, Rank(p) PROVE GraphInv'
  <2>1. PICK ids \in SUBSET graph.live :
          /\ hits' = [hits EXCEPT ![p] = ids]
          /\ Go(p, IF ids = {} THEN "rest"
                   ELSE IF at[p] = "ranking" THEN "ranked" ELSE "ranked alone")
    BY <1>13 DEF Rank
  <2>2. ids \in SUBSET Mems
    BY <1>1 DEF Sound, Tables
  <2>3. hits' \in [Searchers -> SUBSET Mems]
    BY <1>1, <2>1, <2>2 DEF AssocTypeOK
  <2>4. at' \in [Searchers -> Places]
    BY <1>3, <2>1 DEF Places
  <2>5. QED
    BY <1>5, <1>13, <2>3, <2>4 DEF Rest1, Rank
<1>14. ASSUME NEW p \in Searchers, Bump(p) PROVE GraphInv'
  <2> DEFINE e == [op |-> "retrieve", ids |-> hits[p]]
  <2>1. hits[p] \in SUBSET Mems
    BY <1>1 DEF AssocTypeOK
  <2>2. e \in Logged
    BY <2>1 DEF Logged, Entries
  <2> HIDE DEF e
  <2>3. Sound(Append1(graph, e))
    BY <1>1, <2>2, AppendSound
  <2>4. Rest1
    BY <1>9, <1>14 DEF Bump, Places
  <2>5. OpenWork(p, Append1(graph, e))
    BY <1>14 DEF Bump, e
  <2>6. QED
    BY <1>7, <2>3, <2>4, <2>5
<1>15. ASSUME NEW p \in Searchers, CatchUpInside(p) \/ RebuildFolds(p) PROVE GraphInv'
  <2>1. Rest1
    BY <1>9, <1>15 DEF CatchUpInside, RebuildFolds, Places
  <2>2. Inside(p, Folded(work))
    BY <1>15 DEF CatchUpInside, RebuildFolds
  <2>3. QED
    BY <1>1, <1>7, <2>1, <2>2, FoldedSound
<1>16. ASSUME NEW p \in Searchers, InnerFails(p) PROVE GraphInv'
  BY <1>5, <1>9, <1>16 DEF InnerFails, Places
<1>17. ASSUME NEW p \in Searchers, Rebuild(p) PROVE GraphInv'
  <2>1. Rest1
    BY <1>9, <1>17 DEF Rebuild, Places
  <2>2. QED
    BY <1>1, <1>7, <1>17, <2>1, ClearedSound DEF Rebuild
<1>18. ASSUME NEW p \in Searchers, CommitWork(p) PROVE GraphInv'
  <2>1. Rest1
    BY <1>4, <1>18 DEF CommitWork
  <2>2. graph' = work /\ work' = work /\ worker' = Nobody
    BY <1>18 DEF CommitWork
  <2>3. Sound(graph') /\ Sound(work')
    BY <1>1, <2>2
  <2>4. QED
    BY <1>2, <2>1, <2>2, <2>3
<1>19. ASSUME NEW p \in Searchers, GiveUp(p) PROVE GraphInv'
  <2>1. Rest1
    BY <1>4, <1>19 DEF GiveUp
  <2>2. graph' = graph /\ (work' = graph \/ (work' = work /\ worker' = worker))
        /\ worker' \in Searchers \cup {Nobody}
    BY <1>1, <1>19 DEF GiveUp, AssocTypeOK
  <2>3. Sound(graph') /\ Sound(work') /\ (worker' = Nobody => work' = graph')
    BY <1>1, <2>2 DEF AssocTypeOK
  <2>4. QED
    BY <1>2, <2>1, <2>2, <2>3
<1>20. ASSUME NEW p \in Searchers, NEW t, Command(p, t), Sound(t) PROVE GraphInv'
  <2>1. Rest1
    BY <1>9, <1>20 DEF Command, Places
  <2>2. QED
    BY <1>6, <1>20, <2>1 DEF Command
<1>21. graph.live \in SUBSET Mems
  BY <1>1 DEF Sound, Tables
<1>22. ASSUME NEW p \in Searchers, Consolidate(p) PROVE GraphInv'
  <2>1. PICK ms \in MergeLists :
          Command(p, [Append1(graph, [op |-> "consolidate", merges |-> ms])
                        EXCEPT !.live = LiveAfter(ms)])
    BY <1>22 DEF Consolidate
  <2> DEFINE e == [op |-> "consolidate", merges |-> ms]
  <2>2. ms \in Seq(Merges)
    <3>1. (\E m \in Merges : ms = <<m>>) \/ (\E m \in Merges, o \in Merges : ms = <<m, o>>)
      BY DEF MergeLists
    <3>2. \A m \in Merges, o \in Merges : <<m>> \in Seq(Merges) /\ <<m, o>> \in Seq(Merges)
      OBVIOUS
    <3> HIDE DEF e
    <3>3. QED
      BY <3>1, <3>2
  <2>3. e \in Logged
    BY <2>2 DEF Logged, Entries
  <2>4. LiveAfter(ms) \in SUBSET Mems
    BY <1>21 DEF LiveAfter
  <2> HIDE DEF e
  <2>5. Sound([Append1(graph, e) EXCEPT !.live = LiveAfter(ms)])
    BY <1>1, <2>3, <2>4, AppendSound
  <2>6. QED
    BY <1>20, <2>1, <2>5 DEF e
<1>23. ASSUME NEW p \in Searchers, Revive(p) PROVE GraphInv'
  <2>1. PICK ids \in SUBSET (Mems \ graph.live) :
          Command(p, [Append1(graph, [op |-> "other"]) EXCEPT !.live = @ \cup ids])
    BY <1>23 DEF Revive
  <2> DEFINE e == [op |-> "other"]
  <2>2. e \in Logged
    BY DEF Logged, Entries
  <2> HIDE DEF e
  <2>3. Append1(graph, e).live = graph.live
    BY <1>1 DEF Append1, Sound, Tables
  <2>4. graph.live \cup ids \in SUBSET Mems
    BY <1>21
  <2>5. Sound([Append1(graph, e) EXCEPT !.live = graph.live \cup ids])
    BY <1>1, <2>2, <2>4, AppendSound
  <2>6. [Append1(graph, e) EXCEPT !.live = @ \cup ids]
          = [Append1(graph, e) EXCEPT !.live = graph.live \cup ids]
    BY <2>3
  <2>7. QED
    BY <1>20, <2>1, <2>5, <2>6 DEF e
<1>24. CASE UNCHANGED assocVars
  <2>1. UNCHANGED <<graph, work, worker>> /\ at' = at /\ hits' = hits
    BY <1>24 DEF assocVars
  <2>2. Rest1
    BY <1>1, <2>1 DEF Rest1, AssocTypeOK
  <2>3. QED
    BY <1>5, <2>1, <2>2
<1>25. CASE AssocNext
  BY <1>10, <1>11, <1>12, <1>13, <1>14, <1>15, <1>16, <1>17, <1>18, <1>19, <1>22, <1>23, <1>25
     DEF AssocNext, AssocStep
<1>26. QED
  BY <1>24, <1>25

\* The edge table is the fold of exactly the entries up to its cursor, whatever
\* chunks ran, failed, unwound with their host or raced with a rebuild
\* (assoc/service.ts, catchUp and rebuild): committed and as a transaction sees it.
THEOREM TableIsReplay == AssocSpec => []FoldIsReplay
<1>1. GraphInv => FoldIsReplay
  BY DEF GraphInv, Sound, FoldIsReplay
<1>2. GraphInv /\ [AssocNext]_assocVars => GraphInv'
  BY GraphStep
<1>3. QED
  BY <1>1, <1>2, GraphInit, PTL DEF AssocSpec

-----------------------------------------------------------------------------
(* A merge moves all of the loser's mass.                                  *)

Younger(k) == {x \in Nat : x > k}

\* What edges of m hold is younger than k.
Above(edges, m, k) == \A p \in Pairs : m \in p => edges[p] \in Seq(Younger(k))

\* m has no edge.
Clear(edges, m) == \A p \in Pairs : m \in p => edges[p] = <<>>

LEMMA WireAbove ==
  ASSUME NEW edges \in Edges, NEW ids, NEW m \in Mems, NEW k \in Nat, NEW n \in Nat,
         n > k, Above(edges, m, k)
  PROVE  Above(Wire(edges, ids, n), m, k)
<1>1. SUFFICES ASSUME NEW p \in Pairs, m \in p
               PROVE  Wire(edges, ids, n)[p] \in Seq(Younger(k))
  BY DEF Above
<1>2. edges[p] \in Seq(Younger(k)) /\ n \in Younger(k)
  BY <1>1 DEF Above, Younger
<1>3. Append(edges[p], n) \in Seq(Younger(k))
  BY <1>2, AppendProperties
<1>4. QED
  BY <1>2, <1>3 DEF Wire

LEMMA RewireAbove ==
  ASSUME NEW edges \in Edges, NEW c \in Merges, NEW m \in Mems, NEW k \in Nat, NEW n \in Nat,
         n > k, c[2] # m, Above(edges, m, k)
  PROVE  Above(Rewire(edges, c[1], c[2], n), m, k)
<1> DEFINE from == c[1]
<1> DEFINE to == c[2]
<1> DEFINE R == Rewire(edges, from, to, n)
<1>1. SUFFICES ASSUME NEW p \in Pairs, m \in p PROVE R[p] \in Seq(Younger(k))
  BY DEF Above
<1>2. from \in Mems /\ to \in Mems /\ from # to /\ m # to
  BY DEF Merges
<1> HIDE DEF from, to
<1>3. Moved(R[p], edges, from, to, n, p)
  BY <1>2, Carried
<1> HIDE DEF R
<1>4. edges[p] \in Seq(Younger(k)) /\ <<>> \in Seq(Younger(k))
  BY <1>1 DEF Above
<1>5. ASSUME NEW other \in p, other # to, {from, other} \in Pairs, p = {to, other}
      PROVE  edges[p] \o edges[{from, other}] \o <<n>> \in Seq(Younger(k))
  <2>1. other = m
    BY <1>1, <1>2, <1>5
  <2>2. edges[{from, other}] \in Seq(Younger(k))
    BY <1>5, <2>1 DEF Above
  <2>3. n \in Younger(k)
    BY DEF Younger
  <2>4. <<n>> \in Seq(Younger(k))
    BY <2>3
  <2>5. edges[p] \o edges[{from, other}] \in Seq(Younger(k))
    BY <1>4, <2>2, ConcatProperties
  <2>6. QED
    BY <2>4, <2>5, ConcatProperties
<1>6. QED
  BY <1>3, <1>4, <1>5 DEF Moved

LEMMA RewireClears ==
  ASSUME NEW edges \in Edges, NEW c \in Merges, NEW n \in Nat
  PROVE  Clear(Rewire(edges, c[1], c[2], n), c[1])
<1>1. c[1] \in Mems /\ c[2] \in Mems /\ c[1] # c[2]
  BY DEF Merges
<1>2. QED
  BY <1>1, Carried DEF Clear, Moved

LEMMA RewireKeepsClear ==
  ASSUME NEW edges \in Edges, NEW c \in Merges, NEW m \in Mems, NEW n \in Nat,
         c[2] # m, Clear(edges, m)
  PROVE  Clear(Rewire(edges, c[1], c[2], n), m)
<1> DEFINE from == c[1]
<1> DEFINE to == c[2]
<1> DEFINE R == Rewire(edges, from, to, n)
<1>1. SUFFICES ASSUME NEW p \in Pairs, m \in p PROVE R[p] = <<>>
  BY DEF Clear
<1>2. from \in Mems /\ to \in Mems /\ from # to /\ m # to
  BY DEF Merges
<1> HIDE DEF from, to
<1>3. Moved(R[p], edges, from, to, n, p)
  BY <1>2, Carried
<1> HIDE DEF R
<1>4. edges[p] = <<>>
  BY <1>1 DEF Clear
<1>5. ASSUME NEW other \in p, other # to, {from, other} \in Pairs, p = {to, other}
      PROVE  edges[{from, other}] = <<>>
  <2>1. other = m
    BY <1>1, <1>2, <1>5
  <2>2. QED
    BY <1>5, <2>1 DEF Clear
<1>6. QED
  BY <1>3, <1>4, <1>5 DEF Moved

\* The lists a pass writes, one merge or two.
LEMMA ListShape ==
  ASSUME NEW ms \in MergeLists
  PROVE  \/ \E c \in Merges : ms = <<c>>
         \/ \E c \in Merges, d \in Merges : ms = <<c, d>> /\ d[1] # c[1] /\ d[2] # c[1]
BY DEF MergeLists

LEMMA FoldAbove ==
  ASSUME NEW edges \in Edges, NEW e \in Logged, NEW m \in Mems, NEW k \in Nat, NEW n \in Nat,
         n > k, m \notin MergedInto(e), Above(edges, m, k)
  PROVE  Above(FoldRecord(edges, e, n), m, k)
<1>1. CASE e.op = "retrieve"
  BY <1>1, WireAbove DEF FoldRecord
<1>2. CASE e.op = "consolidate"
  <2>1. FoldRecord(edges, e, n) = Rewires(edges, e.merges, n) /\ e.merges \in MergeLists
    BY <1>2 DEF FoldRecord, Logged
  <2>2. \A i \in DOMAIN e.merges : e.merges[i][2] # m
    BY <1>2 DEF MergedInto, MergesIn
  <2>3. CASE \E c \in Merges : e.merges = <<c>>
    <3>1. PICK c \in Merges : e.merges = <<c>>
      BY <2>3
    <3>2. 1 \in DOMAIN e.merges /\ e.merges[1] = c
      BY <3>1
    <3>3. c[2] # m
      BY <2>2, <3>2
    <3>4. QED
      BY <2>1, <3>1, <3>3, OneMerge, RewireAbove
  <2>4. CASE \E c \in Merges, d \in Merges : e.merges = <<c, d>> /\ d[1] # c[1] /\ d[2] # c[1]
    <3>1. PICK c \in Merges, d \in Merges : e.merges = <<c, d>>
      BY <2>4
    <3>2. 1 \in DOMAIN e.merges /\ e.merges[1] = c /\ 2 \in DOMAIN e.merges /\ e.merges[2] = d
      BY <3>1
    <3>3. c[2] # m /\ d[2] # m
      BY <2>2, <3>2
    <3>4. Above(Rewire(edges, c[1], c[2], n), m, k) /\ Rewire(edges, c[1], c[2], n) \in Edges
      BY <3>3, RewireAbove, RewireTyped
    <3>5. Above(Rewire(Rewire(edges, c[1], c[2], n), d[1], d[2], n), m, k)
      BY <3>3, <3>4, RewireAbove
    <3>6. QED
      BY <2>1, <3>1, <3>5, TwoMerges
  <2>5. QED
    BY <2>1, <2>3, <2>4, ListShape
<1>3. CASE e.op # "retrieve" /\ e.op # "consolidate"
  BY <1>3 DEF FoldRecord
<1>4. QED
  BY <1>1, <1>2, <1>3

LEMMA FoldClears ==
  ASSUME NEW edges \in Edges, NEW e \in Logged, NEW n \in Nat, NEW m \in MergedAway(e)
  PROVE  m \in Mems /\ Clear(FoldRecord(edges, e, n), m)
<1>1. e.op = "consolidate"
  BY DEF MergedAway, MergesIn
<1>2. FoldRecord(edges, e, n) = Rewires(edges, e.merges, n) /\ e.merges \in MergeLists
  BY <1>1 DEF FoldRecord, Logged
<1>3. \E i \in DOMAIN e.merges : m = e.merges[i][1]
  BY <1>1 DEF MergedAway, MergesIn
<1>4. CASE \E c \in Merges : e.merges = <<c>>
  <2>1. PICK c \in Merges : e.merges = <<c>>
    BY <1>4
  <2>2. m = c[1] /\ m \in Mems
    BY <1>3, <2>1 DEF Merges
  <2>3. QED
    BY <1>2, <2>1, <2>2, OneMerge, RewireClears
<1>5. CASE \E c \in Merges, d \in Merges : e.merges = <<c, d>> /\ d[1] # c[1] /\ d[2] # c[1]
  <2>1. PICK c \in Merges, d \in Merges : e.merges = <<c, d>> /\ d[1] # c[1] /\ d[2] # c[1]
    BY <1>5
  <2> DEFINE once == Rewire(edges, c[1], c[2], n)
  <2>2. m = c[1] \/ m = d[1]
    BY <1>3, <2>1
  <2>3. c[1] \in Mems /\ d[1] \in Mems
    BY DEF Merges
  <2>4. once \in Edges /\ Clear(once, c[1])
    BY RewireTyped, RewireClears
  <2> HIDE DEF once
  <2>5. Clear(Rewire(once, d[1], d[2], n), c[1]) /\ Clear(Rewire(once, d[1], d[2], n), d[1])
    BY <2>1, <2>3, <2>4, RewireClears, RewireKeepsClear
  <2>6. FoldRecord(edges, e, n) = Rewire(once, d[1], d[2], n)
    BY <1>2, <2>1, TwoMerges DEF once
  <2>7. QED
    BY <2>2, <2>3, <2>5, <2>6
<1>6. QED
  BY <1>2, <1>4, <1>5, ListShape

LEMMA MassStaysAway ==
  ASSUME NEW journal \in Seq(Logged), NEW b \in 0..Len(journal), NEW k \in 1..b,
         NEW m \in MergedAway(journal[k]),
         \A l \in (k + 1)..b : m \notin MergedInto(journal[l])
  PROVE  Above(Replay(journal)[b], m, k)
<1> DEFINE r == Replay(journal)
<1> DEFINE len == Len(journal)
<1> DEFINE T == {i \in Nat : Above(r[i], m, k)}
<1>1. /\ journal \in Seq(Entries) /\ len \in Nat /\ b \in Nat /\ k \in Nat /\ k <= b /\ b <= len
      /\ k - 1 \in 0..len /\ k \in (0 + 1)..len /\ k \in 1..len
  BY LoggedIsEntry
<1>2. Follows(r, journal, 0, len)
  BY <1>1, ReplaySteps
<1>3. \A i \in 0..len : r[i] \in Edges
  BY ReplayTyped
<1> HIDE DEF r
<1>4. m \in Mems /\ k \in T
  <2>1. r[k] = FoldRecord(r[k - 1], journal[k], k)
    BY <1>1, <1>2 DEF Follows
  <2>2. journal[k] \in Logged /\ r[k - 1] \in Edges
    BY <1>1, <1>3, ElementOfSeq
  <2>3. m \in Mems /\ Clear(r[k], m)
    BY <1>1, <2>1, <2>2, FoldClears
  <2>4. <<>> \in Seq(Younger(k))
    OBVIOUS
  <2>5. Above(r[k], m, k)
    BY <2>3, <2>4 DEF Clear, Above
  <2>6. QED
    BY <1>1, <2>3, <2>5
<1>5. ASSUME NEW i \in k..b, i \in T, i < b PROVE i + 1 \in T
  <2>1. /\ i + 1 \in (0 + 1)..len /\ i + 1 \in 1..len /\ i + 1 - 1 = i /\ i + 1 \in Nat
        /\ i + 1 > k /\ i \in 0..len /\ i + 1 \in (k + 1)..b
    BY <1>1, <1>5
  <2>2. Above(r[i], m, k) /\ r[i] \in Edges
    BY <1>3, <1>5, <2>1
  <2>3. journal[i + 1] \in Logged
    BY <2>1, ElementOfSeq
  <2>4. r[i + 1] = FoldRecord(r[i + 1 - 1], journal[i + 1], i + 1)
    BY <1>2, <2>1 DEF Follows
  <2>5. m \notin MergedInto(journal[i + 1])
    BY <2>1
  <2>6. Above(FoldRecord(r[i], journal[i + 1], i + 1), m, k)
    BY <1>1, <1>4, <2>1, <2>2, <2>3, <2>5, FoldAbove
  <2>7. QED
    BY <2>1, <2>4, <2>6
<1> HIDE DEF T
<1>6. \A i \in k..b : i \in T
  BY <1>1, <1>4, <1>5, Upwards
<1>7. b \in k..b
  BY <1>1
<1>8. QED
  BY <1>6, <1>7 DEF T, r

LEMMA MassMoves ==
  ASSUME GraphInv
  PROVE  MergeMovesAllMass
<1>1. SUFFICES ASSUME NEW p \in Pairs, NEW m \in Mems, m \in p, NEW n \in MergedAt(m),
                      NEW i \in DOMAIN graph.edges[p]
               PROVE  graph.edges[p][i] > n
  BY DEF MergeMovesAllMass
<1>2. /\ graph.journal \in Seq(Logged) /\ graph.cursor \in Nat
      /\ graph.cursor <= Len(graph.journal) /\ Len(graph.journal) \in Nat
      /\ graph.edges = Replay(graph.journal)[graph.cursor]
  BY DEF GraphInv, Sound, Tables, IsReplay
<1>3. graph.cursor \in 0..Len(graph.journal)
  BY <1>2
<1>4. /\ n \in 1..graph.cursor /\ m \in MergedAway(graph.journal[n])
      /\ \A l \in (n + 1)..graph.cursor : m \notin MergedInto(graph.journal[l])
  BY DEF MergedAt
<1>5. Above(graph.edges, m, n)
  BY <1>2, <1>3, <1>4, MassStaysAway
<1>6. graph.edges[p] \in Seq(Younger(n))
  BY <1>1, <1>5 DEF Above
<1>7. graph.edges[p][i] \in Younger(n)
  BY <1>6, ElementOfSeq, LenProperties
<1>8. QED
  BY <1>7 DEF Younger

\* A merge moves all of the loser's mass: an edge of a merged memory holds nothing
\* older than its merge (assoc/fold.ts, foldRecord; drivers/sqlite.ts, rewireAssoc),
\* unless a later merge carried its own loser's mass there.
THEOREM MassIsMoved == AssocSpec => []MergeMovesAllMass
<1>1. GraphInv => MergeMovesAllMass
  BY MassMoves
<1>2. GraphInv /\ [AssocNext]_assocVars => GraphInv'
  BY GraphStep
<1>3. QED
  BY <1>1, <1>2, GraphInit, PTL DEF AssocSpec

-----------------------------------------------------------------------------
(* MASKED MEMORIES.                                                        *)

\* A finite table of names, a number to a value and a value to a number.
TableGood(table) == table \in SUBSET Names /\ IsFiniteSet(table) /\ Injective(table)

\* A row holds its text, the value in it replaced by its number in the table.
RowGood(r, table) ==
  /\ r.body = r.orig[1]
  /\ r.orig[2] = Plain => r.mask = 0
  /\ r.orig[2] # Plain => <<r.orig[2], r.mask>> \in table

\* No import repeats an earlier row.
NoRepeat(all) ==
  \A i, j \in DOMAIN all : i < j /\ all[i].orig = all[j].orig => all[j].from = "write"

RowsGood(all, table) ==
  (\A i \in DOMAIN all : RowGood(all[i], table)) /\ NoRepeat(all)

\* The names in a list of rows.
NamesOf(all) == {<<all[i].orig[2], all[i].mask>> : i \in {j \in DOMAIN all : all[j].mask # 0}}

TxGood ==
  tx.owner # NoConn =>
    /\ TableGood(tx.vault) /\ vault \subseteq tx.vault
    /\ RowsGood(tx.rows, tx.vault)
    /\ tx.earned \subseteq NamesOf(tx.rows)
    /\ NamesOf(rows) \subseteq NamesOf(tx.rows)

\* What a process keeps outside transactions is about committed names.
Outside ==
  \A c \in Conns :
    /\ cache[c].warm => cache[c].index \subseteq vault
    /\ minting[c] # NoConn => minting[c][2] # Plain

VaultGood ==
  /\ TableGood(vault) /\ RowsGood(rows, vault)
  /\ told \subseteq vault /\ warned \subseteq NamesOf(rows)

MaskedInv == MaskedTypeOK /\ VaultGood /\ TxGood /\ Outside

-----------------------------------------------------------------------------
(* The highest number of a table.                                          *)

\* Every finite set of numbers that is not empty has a greatest one.
LEMMA Greatest ==
  ASSUME NEW S \in SUBSET Nat, IsFiniteSet(S), S # {}
  PROVE  Max(S) \in S /\ \A x \in S : Max(S) >= x
<1> DEFINE Has(T) == \E x \in T : \A y \in T : x >= y
<1> DEFINE Bad == {T \in SUBSET S : T # {} /\ ~ Has(T)}
<1> DEFINE Sizes == {Cardinality(T) : T \in Bad}
<1>1. \A T \in SUBSET S : IsFiniteSet(T) /\ Cardinality(T) \in Nat
  BY FS_Subset, FS_CardinalityType
<1>2. Sizes \in SUBSET Nat
  BY <1>1
<1>3. Has(S)
  <2>1. SUFFICES ASSUME Sizes # {} PROVE FALSE
    OBVIOUS
  <2>2. PICK n \in Sizes : \A m \in Sizes : n <= m
    BY <1>2, <2>1, Least
  <2>3. PICK T \in Bad : n = Cardinality(T)
    BY <2>2
  <2>4. PICK x \in T : x \in Nat
    BY <2>3
  <2> DEFINE U == T \ {x}
  <2>5. U \in SUBSET S /\ Cardinality(U) = n - 1 /\ n \in Nat
    BY <1>1, <2>3, <2>4, FS_RemoveElement
  <2>6. U \notin Bad
    <3>1. SUFFICES ASSUME U \in Bad PROVE FALSE
      OBVIOUS
    <3>2. n <= n - 1
      BY <2>2, <2>5, <3>1
    <3>3. QED
      BY <2>5, <3>2
  <2>7. CASE U = {}
    <3>1. T = {x}
      BY <2>4, <2>7
    <3>2. Has(T)
      BY <2>4, <3>1
    <3>3. QED
      BY <2>3, <3>2
  <2>8. CASE Has(U)
    <3>1. PICK y \in U : \A z \in U : y >= z
      BY <2>8
    <3>2. \A z \in U : z \in Nat
      BY <2>5
    <3>3. y \in Nat /\ y \in T
      BY <3>1, <3>2
    <3>4. CASE x >= y
      <4>1. \A z \in T : x >= z
        <5>1. SUFFICES ASSUME NEW z \in T PROVE x >= z
          OBVIOUS
        <5>2. CASE z = x
          BY <2>4, <5>2
        <5>3. CASE z \in U
          <6>1. y >= z /\ z \in Nat
            BY <3>1, <3>2, <5>3
          <6>2. QED
            BY <2>4, <3>3, <3>4, <6>1
        <5>4. QED
          BY <5>2, <5>3
      <4>2. QED
        BY <2>3, <2>4, <4>1
    <3>5. CASE ~ (x >= y)
      <4>1. y >= x
        BY <2>4, <3>3, <3>5
      <4>2. \A z \in T : y >= z
        BY <3>1, <4>1
      <4>3. QED
        BY <2>3, <3>3, <4>2
    <3>6. QED
      BY <3>4, <3>5
  <2>9. QED
    BY <2>5, <2>6, <2>7, <2>8
<1>4. PICK x \in S : \A y \in S : x >= y
  BY <1>3
<1>5. QED
  BY <1>4 DEF Max

LEMMA HighestIs ==
  ASSUME NEW table \in SUBSET Names, IsFiniteSet(table)
  PROVE  Highest(table) \in Nat /\ \A e \in table : e[2] <= Highest(table)
<1> DEFINE T == {e[2] : e \in table}
<1> DEFINE f == [e \in table |-> e[2]]
<1>1. f \in Surjection(table, T)
  BY DEF Surjection
<1>2. IsFiniteSet(T)
  BY <1>1, FS_Surjection
<1>3. \A e \in table : e[2] \in Nat
  BY DEF Names
<1>4. T \in SUBSET Nat
  BY <1>3
<1>5. IsFiniteSet(T \cup {0}) /\ T \cup {0} = {0} \cup T
  BY <1>2, FS_AddElement
<1> DEFINE S == {0} \cup T
<1>6. S \in SUBSET Nat /\ IsFiniteSet(S) /\ S # {}
  BY <1>4, <1>5
<1>7. Highest(table) = Max(S)
  BY DEF Highest
<1>8. \A e \in table : e[2] \in S
  OBVIOUS
<1> HIDE DEF S
<1>9. Max(S) \in S /\ \A x \in S : Max(S) >= x
  BY <1>6, Greatest
<1>10. Max(S) \in Nat
  BY <1>6, <1>9
<1>11. \A e \in table : e[2] <= Max(S)
  <2>1. SUFFICES ASSUME NEW e \in table PROVE e[2] <= Max(S)
    OBVIOUS
  <2>2. Max(S) >= e[2] /\ e[2] \in Nat
    BY <1>3, <1>8, <1>9
  <2>3. QED
    BY <1>10, <2>2
<1>12. QED
  BY <1>7, <1>10, <1>11

-----------------------------------------------------------------------------
(* Names and numbers.                                                      *)

LEMMA Known ==
  ASSUME NEW index \in SUBSET Names, NEW v, Knows(index, v)
  PROVE  <<v, NumberIn(index, v)>> \in index /\ NumberIn(index, v) \in Nat \ {0}
<1> DEFINE e == CHOOSE e \in index : e[1] = v
<1>1. e \in index /\ e[1] = v
  BY DEF Knows
<1>2. NumberIn(index, v) = e[2]
  BY DEF NumberIn
<1> HIDE DEF e
<1>3. e \in Names
  BY <1>1
<1>4. e = <<e[1], e[2]>> /\ e[2] \in Nat \ {0}
  BY <1>3 DEF Names
<1>5. QED
  BY <1>1, <1>2, <1>4

\* A value without a name gets the next number.
LEMMA NextIsFresh ==
  ASSUME NEW table, TableGood(table), NEW v \in Values, ~ Knows(table, v)
  PROVE  TableGood(table \cup {<<v, Highest(table) + 1>>})
<1> DEFINE h == Highest(table)
<1> DEFINE e == <<v, h + 1>>
<1>1. table \in SUBSET Names /\ IsFiniteSet(table) /\ Injective(table)
  BY DEF TableGood
<1>2. h \in Nat /\ \A f \in table : f[2] <= h
  BY <1>1, HighestIs
<1> HIDE DEF h
<1>3. e \in Names /\ e[1] = v /\ e[2] = h + 1
  BY <1>2 DEF Names
<1>4. \A f \in table : f[1] # v /\ f[2] # h + 1
  <2>1. SUFFICES ASSUME NEW f \in table PROVE f[1] # v /\ f[2] # h + 1
    OBVIOUS
  <2>2. f[2] <= h /\ f[2] \in Nat
    BY <1>1, <1>2 DEF Names
  <2>3. f[2] # h + 1
    BY <1>2, <2>2
  <2>4. QED
    BY <2>3 DEF Knows
<1> HIDE DEF e
<1>5. table \cup {e} \in SUBSET Names
  BY <1>1, <1>3
<1>6. IsFiniteSet(table \cup {e})
  BY <1>1, FS_AddElement
<1>7. Injective(table \cup {e})
  BY <1>1, <1>3, <1>4 DEF Injective
<1>8. QED
  BY <1>5, <1>6, <1>7 DEF TableGood, e, h

LEMMA MintGood ==
  ASSUME NEW c, NEW table, TableGood(table), NEW v \in Values,
         cache[c].warm => cache[c].index \subseteq table
  PROVE  /\ TableGood(Minted(c, table, v)) /\ table \subseteq Minted(c, table, v)
         /\ <<v, Number(c, table, v)>> \in Minted(c, table, v)
         /\ Number(c, table, v) \in Nat \ {0}
<1> DEFINE ix == Index(c, table)
<1>1. table \in SUBSET Names /\ IsFiniteSet(table)
  BY DEF TableGood
<1>2. ix \subseteq table /\ ix \in SUBSET Names
  BY <1>1 DEF Index
<1>3. CASE Knows(ix, v)
  <2>1. Number(c, table, v) = NumberIn(ix, v) /\ Minted(c, table, v) = table
    BY <1>3 DEF Number, Minted
  <2> HIDE DEF ix
  <2>2. QED
    BY <1>2, <1>3, <2>1, Known
<1>4. CASE ~ Knows(ix, v) /\ Knows(table, v)
  <2>1. Number(c, table, v) = NumberIn(table, v) /\ Minted(c, table, v) = table
    BY <1>4 DEF Number, Minted
  <2>2. QED
    BY <1>1, <1>4, <2>1, Known
<1>5. CASE ~ Knows(ix, v) /\ ~ Knows(table, v)
  <2>1. /\ Number(c, table, v) = Highest(table) + 1
        /\ Minted(c, table, v) = table \cup {<<v, Highest(table) + 1>>}
    BY <1>5 DEF Number, Minted
  <2>2. TableGood(table \cup {<<v, Highest(table) + 1>>})
    BY <1>5, NextIsFresh
  <2>3. Highest(table) \in Nat
    BY <1>1, HighestIs
  <2>4. Highest(table) + 1 \in Nat \ {0}
    BY <2>3
  <2>5. QED
    BY <2>1, <2>2, <2>4
<1>6. QED
  BY <1>3, <1>4, <1>5

-----------------------------------------------------------------------------
(* Rows.                                                                   *)

\* Two rows look the same exactly when they hold the same text.
LEMMA KeyIsExact ==
  ASSUME NEW r \in RowIds, NEW s \in RowIds, NEW table, TableGood(table),
         RowGood(r, table), RowGood(s, table)
  PROVE  Key(r) = Key(s) <=> r.orig = s.orig
<1>1. /\ r.orig = <<r.orig[1], r.orig[2]>> /\ s.orig = <<s.orig[1], s.orig[2]>>
      /\ r.mask \in Nat /\ s.mask \in Nat
  BY DEF RowIds, Texts
<1>2. \A v, n : <<v, n>> \in table => n # 0
  BY DEF TableGood, Names
<1>3. \A v, w, m, n : <<v, m>> \in table /\ <<w, n>> \in table => (v = w <=> m = n)
  <2>1. SUFFICES ASSUME NEW v, NEW w, NEW m, NEW n, <<v, m>> \in table, <<w, n>> \in table
                 PROVE  v = w <=> m = n
    OBVIOUS
  <2> DEFINE e == <<v, m>>
  <2> DEFINE f == <<w, n>>
  <2>2. e \in table /\ f \in table /\ e[1] = v /\ e[2] = m /\ f[1] = w /\ f[2] = n
    BY <2>1
  <2> HIDE DEF e, f
  <2>3. e[1] = f[1] <=> e[2] = f[2]
    BY <2>2 DEF TableGood, Injective
  <2>4. QED
    BY <2>2, <2>3
<1>4. Key(r) = Key(s) <=> r.body = s.body /\ r.mask = s.mask
  BY DEF Key
<1>5. r.orig = s.orig <=> r.orig[1] = s.orig[1] /\ r.orig[2] = s.orig[2]
  BY <1>1
<1>6. r.body = r.orig[1] /\ s.body = s.orig[1]
  BY DEF RowGood
<1>7. r.mask = s.mask <=> r.orig[2] = s.orig[2]
  <2>1. CASE r.orig[2] = Plain /\ s.orig[2] = Plain
    BY <2>1 DEF RowGood
  <2>2. CASE r.orig[2] # Plain /\ s.orig[2] = Plain
    BY <1>2, <2>2 DEF RowGood
  <2>3. CASE r.orig[2] = Plain /\ s.orig[2] # Plain
    BY <1>2, <2>3 DEF RowGood
  <2>4. CASE r.orig[2] # Plain /\ s.orig[2] # Plain
    <3>1. <<r.orig[2], r.mask>> \in table /\ <<s.orig[2], s.mask>> \in table
      BY <2>4 DEF RowGood
    <3>2. QED
      BY <1>3, <3>1
  <2>5. QED
    BY <2>1, <2>2, <2>3, <2>4
<1>8. QED
  BY <1>4, <1>5, <1>6, <1>7

LEMMA NewRow ==
  ASSUME NEW t \in Texts, NEW n \in Nat, NEW from \in {"write", "import"}, NEW table,
         t[2] # Plain => <<t[2], n>> \in table
  PROVE  /\ RowOf(t, n, from) \in RowIds /\ RowGood(RowOf(t, n, from), table)
         /\ RowOf(t, n, from).orig = t /\ RowOf(t, n, from).from = from
<1>1. t[1] \in Bodies
  BY DEF Texts
<1>2. QED
  BY <1>1 DEF RowOf, RowIds, Statuses, RowGood

LEMMA GrownTable ==
  ASSUME NEW all \in Seq(RowIds), NEW table, NEW larger, table \subseteq larger,
         RowsGood(all, table)
  PROVE  RowsGood(all, larger)
BY DEF RowsGood, RowGood

LEMMA RowAppended ==
  ASSUME NEW all \in Seq(RowIds), NEW r \in RowIds, NEW table, RowsGood(all, table),
         RowGood(r, table),
         r.from = "write" \/ \A i \in DOMAIN all : all[i].orig # r.orig
  PROVE  /\ Append(all, r) \in Seq(RowIds) /\ RowsGood(Append(all, r), table)
         /\ NamesOf(all) \subseteq NamesOf(Append(all, r))
         /\ r.mask # 0 => <<r.orig[2], r.mask>> \in NamesOf(Append(all, r))
<1> DEFINE new == Append(all, r)
<1> DEFINE l == Len(all)
<1>1. /\ new \in Seq(RowIds) /\ Len(new) = l + 1 /\ l \in Nat
      /\ DOMAIN new = 1..(l + 1) /\ DOMAIN all = 1..l
      /\ \A i \in 1..l : new[i] = all[i]
      /\ new[l + 1] = r
  BY AppendProperties, LenProperties
<1> HIDE DEF new, l
<1>2. \A i \in DOMAIN new : i \in DOMAIN all \/ i = l + 1
  BY <1>1
<1>3. \A i \in DOMAIN all : i \in DOMAIN new /\ new[i] = all[i]
  BY <1>1
<1>4. l + 1 \in DOMAIN new
  BY <1>1
<1>5. \A i \in DOMAIN new : RowGood(new[i], table)
  BY <1>1, <1>2, <1>3 DEF RowsGood
<1>6. NoRepeat(new)
  <2>1. SUFFICES ASSUME NEW i \in DOMAIN new, NEW j \in DOMAIN new, i < j,
                        new[i].orig = new[j].orig
                 PROVE  new[j].from = "write"
    BY DEF NoRepeat
  <2>2. i \in DOMAIN all
    BY <1>1, <2>1
  <2>3. CASE j \in DOMAIN all
    BY <1>3, <2>1, <2>2, <2>3 DEF RowsGood, NoRepeat
  <2>4. CASE j = l + 1
    BY <1>1, <1>3, <2>1, <2>2, <2>4
  <2>5. QED
    BY <1>2, <2>3, <2>4
<1>7. NamesOf(all) \subseteq NamesOf(new)
  BY <1>3 DEF NamesOf
<1>8. r.mask # 0 => <<r.orig[2], r.mask>> \in NamesOf(new)
  BY <1>1, <1>4 DEF NamesOf
<1>9. QED
  BY <1>1, <1>5, <1>6, <1>7, <1>8 DEF RowsGood, new

\* A decision changes a status and nothing else.
LEMMA RowDecided ==
  ASSUME NEW all \in Seq(RowIds), NEW i \in DOMAIN all, NEW to \in Statuses, NEW table,
         RowsGood(all, table)
  PROVE  LET new == [all EXCEPT ![i].status = to] IN
         /\ new \in Seq(RowIds) /\ RowsGood(new, table) /\ NamesOf(new) = NamesOf(all)
<1> DEFINE r == [all[i] EXCEPT !.status = to]
<1> DEFINE new == [all EXCEPT ![i] = r]
<1>1. all[i] \in RowIds
  BY ElementOfSeq, LenProperties
<1>2. r \in RowIds /\ r.orig = all[i].orig /\ r.mask = all[i].mask /\ r.body = all[i].body
      /\ r.from = all[i].from
  BY <1>1 DEF RowIds
<1> HIDE DEF r
<1>3. new \in Seq(RowIds) /\ DOMAIN new = DOMAIN all
  BY <1>2, ExceptSeq
<1>4. \A j \in DOMAIN all :
        /\ new[j].orig = all[j].orig /\ new[j].mask = all[j].mask
        /\ new[j].body = all[j].body /\ new[j].from = all[j].from
  BY <1>2
<1>5. [all EXCEPT ![i].status = to] = new
  BY DEF r
<1> HIDE DEF new
<1>6. RowsGood(new, table)
  BY <1>3, <1>4 DEF RowsGood, RowGood, NoRepeat
<1>7. NamesOf(new) = NamesOf(all)
  BY <1>3, <1>4 DEF NamesOf
<1>8. QED
  BY <1>3, <1>5, <1>6, <1>7


-----------------------------------------------------------------------------
(* The steps.                                                              *)

LEMMA MaskedInitGood == MaskedInit => MaskedInv
<1>1. SUFFICES ASSUME MaskedInit PROVE MaskedInv
  OBVIOUS
<1>2. MaskedTypeOK
  BY <1>1 DEF MaskedInit, MaskedTypeOK, NoTransaction, Cold
<1>3. IsFiniteSet({})
  BY FS_EmptySet
<1>4. VaultGood
  BY <1>1, <1>3 DEF MaskedInit, VaultGood, TableGood, Injective, RowsGood, NoRepeat
<1>5. TxGood
  BY <1>1 DEF MaskedInit, TxGood, NoTransaction
<1>6. Outside
  BY <1>1 DEF MaskedInit, Outside, Cold
<1>7. QED
  BY <1>2, <1>4, <1>5, <1>6 DEF MaskedInv

TxType == [owner : Conns \cup {NoConn}, vault : SUBSET Names, rows : Seq(RowIds),
           earned : SUBSET Names]

\* What the holder of the transaction adds to it: `next`, by a row r for text t.
Addition(next, r, c, t, from) ==
  /\ TableGood(next.vault) /\ tx.vault \subseteq next.vault
  /\ r \in RowIds /\ RowGood(r, next.vault) /\ r.orig = t /\ r.from = from
  /\ next.rows = Append(tx.rows, r)
  /\ next.earned = IF t[2] = Plain \/ from = "import" THEN tx.earned
                   ELSE tx.earned \cup {<<t[2], r.mask>>}
  /\ t[2] # Plain => r.mask # 0 /\ <<t[2], r.mask>> \in Names
  /\ next = [owner |-> c, vault |-> next.vault, rows |-> next.rows, earned |-> next.earned]

LEMMA AddedGood ==
  ASSUME MaskedInv, NEW c \in Conns, tx.owner = c, NEW t \in Texts,
         NEW from \in {"write", "import"},
         NEW next, next = Added(c, t, from), NEW r, r = next.rows[Len(next.rows)]
  PROVE  Addition(next, r, c, t, from)
<1> DEFINE v == t[2]
<1> DEFINE n == IF v = Plain THEN 0 ELSE Number(c, tx.vault, v)
<1> DEFINE T == IF v = Plain THEN tx.vault ELSE Minted(c, tx.vault, v)
<1> DEFINE row == RowOf(t, n, from)
<1>1. /\ tx = [owner |-> tx.owner, vault |-> tx.vault, rows |-> tx.rows, earned |-> tx.earned]
      /\ tx.rows \in Seq(RowIds) /\ c # NoConn
  BY MaskedAssumption DEF MaskedInv, MaskedTypeOK
<1>2. TableGood(tx.vault) /\ vault \subseteq tx.vault
  BY <1>1 DEF MaskedInv, TxGood
<1>3. cache[c].warm => cache[c].index \subseteq tx.vault
  BY <1>2 DEF MaskedInv, Outside
<1>4. v # Plain => v \in Values
  BY DEF Texts
<1>5. /\ TableGood(T) /\ tx.vault \subseteq T /\ n \in Nat
      /\ v # Plain => <<v, n>> \in T /\ n # 0
  <2>1. CASE v = Plain
    BY <1>2, <2>1
  <2>2. CASE v # Plain
    BY <1>2, <1>3, <1>4, <2>2, MintGood
  <2>3. QED
    BY <2>1, <2>2
<1>6. next = [owner |-> c, vault |-> T, rows |-> Append(tx.rows, row),
              earned |-> IF v = Plain \/ from = "import" THEN tx.earned
                         ELSE tx.earned \cup {<<v, n>>}]
  BY <1>1 DEF Added
<1> HIDE DEF n, T
<1>7. row \in RowIds /\ RowGood(row, T) /\ row.orig = t /\ row.from = from
  BY <1>5, NewRow
<1>8. v # Plain => row.mask = n
  BY DEF RowOf
<1> HIDE DEF row
<1>9. r = row
  <2>1. /\ Len(Append(tx.rows, row)) = Len(tx.rows) + 1
        /\ Append(tx.rows, row)[Len(tx.rows) + 1] = row
    BY <1>1, <1>7, AppendProperties
  <2>2. QED
    BY <1>6, <2>1
<1>10. v # Plain => <<v, n>> \in Names
  BY <1>5 DEF TableGood
<1>11. /\ next.vault = T /\ next.rows = Append(tx.rows, row)
       /\ next.earned = IF v = Plain \/ from = "import" THEN tx.earned
                        ELSE tx.earned \cup {<<v, n>>}
       /\ next = [owner |-> c, vault |-> next.vault, rows |-> next.rows,
                  earned |-> next.earned]
  BY <1>6
<1>12. v # Plain => r.mask = n
  BY <1>8, <1>9
<1>13. next.earned = IF v = Plain \/ from = "import" THEN tx.earned
                     ELSE tx.earned \cup {<<v, r.mask>>}
  BY <1>11, <1>12
<1>14. r \in RowIds /\ RowGood(r, next.vault) /\ r.orig = t /\ r.from = from
       /\ next.rows = Append(tx.rows, r)
  BY <1>7, <1>9, <1>11
<1>15. v # Plain => r.mask # 0 /\ <<v, r.mask>> \in Names
  BY <1>5, <1>10, <1>12
<1>16. TableGood(next.vault) /\ tx.vault \subseteq next.vault
  BY <1>5, <1>11
<1>17. QED
  BY <1>11, <1>13, <1>14, <1>15, <1>16 DEF Addition

\* The cache may go cold, and never learns of an uncommitted name.
LEMMA CacheKept ==
  ASSUME MaskedInv, NEW c \in Conns, NEW t \in Texts,
         cache' = [cache EXCEPT ![c] = CacheNow(c, t)], UNCHANGED <<vault, minting>>
  PROVE  Outside' /\ cache' \in [Conns -> [warm : BOOLEAN, index : SUBSET Names]]
<1>1. CacheNow(c, t) = cache[c] \/ CacheNow(c, t) = Cold
  BY DEF CacheNow, CacheAfter
<1>2. cache \in [Conns -> [warm : BOOLEAN, index : SUBSET Names]]
  BY DEF MaskedInv, MaskedTypeOK
<1>3. Cold \in [warm : BOOLEAN, index : SUBSET Names] /\ Cold.warm = FALSE
  BY DEF Cold
<1>4. \A d \in Conns : cache'[d] = cache[d] \/ cache'[d] = Cold
  BY <1>1, <1>2
<1>5. cache' \in [Conns -> [warm : BOOLEAN, index : SUBSET Names]]
  BY <1>1, <1>2, <1>3
<1>6. \A d \in Conns : cache'[d].warm => cache'[d].index \subseteq vault
  BY <1>3, <1>4 DEF MaskedInv, Outside
<1>7. QED
  BY <1>5, <1>6 DEF MaskedInv, Outside

\* A step inside the transaction, given what it leaves in it.
LEMMA InsideGood ==
  ASSUME MaskedInv, NEW c \in Conns, tx.owner = c,
         UNCHANGED <<vault, rows, minting, told, warned>>, Outside',
         cache' \in [Conns -> [warm : BOOLEAN, index : SUBSET Names]],
         tx' \in TxType,
         TableGood(tx'.vault), tx.vault \subseteq tx'.vault,
         RowsGood(tx'.rows, tx'.vault), tx'.earned \subseteq NamesOf(tx'.rows),
         NamesOf(tx.rows) \subseteq NamesOf(tx'.rows)
  PROVE  MaskedInv'
<1>1. c # NoConn
  BY MaskedAssumption
<1>2. /\ vault \subseteq tx.vault /\ NamesOf(rows) \subseteq NamesOf(tx.rows)
  BY <1>1 DEF MaskedInv, TxGood
<1>3. vault' = vault /\ rows' = rows /\ minting' = minting /\ told' = told /\ warned' = warned
  OBVIOUS
<1>4. VaultGood'
  BY <1>3 DEF MaskedInv, VaultGood, TableGood, RowsGood, RowGood, NoRepeat, NamesOf, Injective
<1>5. NamesOf(rows)' = NamesOf(rows) /\ NamesOf(tx.rows)' = NamesOf(tx'.rows)
  BY <1>3 DEF NamesOf
<1>6. TableGood(tx.vault)' /\ RowsGood(tx.rows, tx.vault)'
  BY DEF TableGood, RowsGood, RowGood, NoRepeat, Injective
<1>7. TxGood'
  BY <1>2, <1>3, <1>5, <1>6 DEF TxGood
<1>8. MaskedTypeOK'
  BY <1>3 DEF MaskedInv, MaskedTypeOK, TxType
<1>9. QED
  BY <1>4, <1>7, <1>8 DEF MaskedInv

LEMMA WriteGood == ASSUME MaskedInv, NEW c \in Conns, Write(c) PROVE MaskedInv'
<1>1. PICK t \in Texts :
        /\ tx.owner = c /\ tx' = Added(c, t, "write")
        /\ cache' = [cache EXCEPT ![c] = CacheNow(c, t)]
        /\ UNCHANGED <<vault, rows, minting, told, warned>>
  BY DEF Write
<1> DEFINE r == tx'.rows[Len(tx'.rows)]
<1>2. Addition(tx', r, c, t, "write")
  BY <1>1, AddedGood
<1> HIDE DEF r
<1>3. /\ tx.rows \in Seq(RowIds) /\ tx.earned \in SUBSET Names
      /\ RowsGood(tx.rows, tx.vault) /\ tx.earned \subseteq NamesOf(tx.rows)
  BY <1>1, MaskedAssumption DEF MaskedInv, MaskedTypeOK, TxGood
<1>4. RowsGood(tx.rows, tx'.vault)
  BY <1>2, <1>3, GrownTable DEF Addition
<1>5. /\ tx'.rows \in Seq(RowIds) /\ RowsGood(tx'.rows, tx'.vault)
      /\ NamesOf(tx.rows) \subseteq NamesOf(tx'.rows)
      /\ r.mask # 0 => <<r.orig[2], r.mask>> \in NamesOf(tx'.rows)
  BY <1>2, <1>3, <1>4, RowAppended DEF Addition
<1>6. tx'.earned \subseteq NamesOf(tx'.rows) /\ tx'.earned \in SUBSET Names
  BY <1>2, <1>3, <1>5 DEF Addition
<1>7. tx' \in TxType
  <2>1. tx' = [owner |-> c, vault |-> tx'.vault, rows |-> tx'.rows, earned |-> tx'.earned]
    BY <1>2 DEF Addition
  <2>2. tx'.vault \in SUBSET Names
    BY <1>2 DEF Addition, TableGood
  <2>3. QED
    BY <1>5, <1>6, <2>1, <2>2 DEF TxType
<1>8. Outside' /\ cache' \in [Conns -> [warm : BOOLEAN, index : SUBSET Names]]
  BY <1>1, CacheKept
<1>9. QED
  BY <1>1, <1>2, <1>5, <1>6, <1>7, <1>8, InsideGood DEF Addition

LEMMA ImportGood == ASSUME MaskedInv, NEW c \in Conns, Import(c) PROVE MaskedInv'
<1>1. PICK t \in Texts :
        LET next == Added(c, t, "import")
            row  == next.rows[Len(next.rows)]
        IN /\ tx.owner = c
           /\ tx' = IF Key(row) \in Seen(tx.rows) THEN [next EXCEPT !.rows = tx.rows] ELSE next
           /\ cache' = [cache EXCEPT ![c] = CacheNow(c, t)]
           /\ UNCHANGED <<vault, rows, minting, told, warned>>
  BY DEF Import
<1> DEFINE next == Added(c, t, "import")
<1> DEFINE r == next.rows[Len(next.rows)]
<1>2. /\ tx.owner = c
      /\ tx' = IF Key(r) \in Seen(tx.rows) THEN [next EXCEPT !.rows = tx.rows] ELSE next
  BY <1>1
<1>3. Addition(next, r, c, t, "import")
  BY <1>2, AddedGood
<1> HIDE DEF next, r
<1>30. /\ TableGood(next.vault) /\ tx.vault \subseteq next.vault
       /\ r \in RowIds /\ RowGood(r, next.vault) /\ r.orig = t
       /\ next.rows = Append(tx.rows, r) /\ next.earned = tx.earned
       /\ next = [owner |-> c, vault |-> next.vault, rows |-> next.rows,
                  earned |-> next.earned]
  BY <1>3 DEF Addition
<1>4. /\ tx.rows \in Seq(RowIds) /\ tx.earned \in SUBSET Names
      /\ RowsGood(tx.rows, tx.vault) /\ tx.earned \subseteq NamesOf(tx.rows)
  BY <1>1, MaskedAssumption DEF MaskedInv, MaskedTypeOK, TxGood
<1>5. RowsGood(tx.rows, next.vault)
  BY <1>30, <1>4, GrownTable
<1>6. Outside' /\ cache' \in [Conns -> [warm : BOOLEAN, index : SUBSET Names]]
  BY <1>1, CacheKept
<1>7. CASE Key(r) \in Seen(tx.rows)
  <2>1. tx' = [owner |-> c, vault |-> next.vault, rows |-> tx.rows, earned |-> tx.earned]
    BY <1>2, <1>30, <1>7
  <2>2. tx' \in TxType
    BY <1>30, <1>4, <2>1 DEF TableGood, TxType
  <2>3. tx'.vault = next.vault /\ tx'.rows = tx.rows /\ tx'.earned = tx.earned
    BY <2>1
  <2>4. QED
    BY <1>1, <1>30, <1>4, <1>5, <1>6, <2>2, <2>3, InsideGood
<1>8. CASE Key(r) \notin Seen(tx.rows)
  <2>1. \A i \in DOMAIN tx.rows : tx.rows[i].orig # r.orig
    <3>1. SUFFICES ASSUME NEW i \in DOMAIN tx.rows, tx.rows[i].orig = r.orig PROVE FALSE
      OBVIOUS
    <3>2. tx.rows[i] \in RowIds /\ RowGood(tx.rows[i], next.vault)
      BY <1>4, <1>5, ElementOfSeq, LenProperties DEF RowsGood
    <3>3. Key(tx.rows[i]) = Key(r)
      BY <1>30, <3>1, <3>2, KeyIsExact
    <3>4. QED
      BY <1>8, <3>3 DEF Seen
  <2>2. /\ next.rows \in Seq(RowIds) /\ RowsGood(next.rows, next.vault)
        /\ NamesOf(tx.rows) \subseteq NamesOf(next.rows)
    BY <1>30, <1>4, <1>5, <2>1, RowAppended
  <2>3. tx' = next
    BY <1>2, <1>8
  <2>4. tx' \in TxType
    BY <1>30, <1>4, <2>2, <2>3 DEF TableGood, TxType
  <2>5. tx'.earned \subseteq NamesOf(tx'.rows)
    BY <1>30, <1>4, <2>2, <2>3
  <2>6. QED
    BY <1>1, <1>30, <1>6, <2>2, <2>3, <2>4, <2>5, InsideGood
<1>9. QED
  BY <1>7, <1>8

LEMMA TransitionGood == ASSUME MaskedInv, NEW c \in Conns, Transition(c) PROVE MaskedInv'
<1>1. PICK i \in DOMAIN tx.rows, to \in {"confirmed", "archived"} :
        /\ tx.owner = c /\ tx' = [tx EXCEPT !.rows[i].status = to]
        /\ UNCHANGED <<vault, rows, cache, minting, told, warned>>
  BY DEF Transition
<1> DEFINE new == [tx.rows EXCEPT ![i].status = to]
<1>2. /\ tx = [owner |-> tx.owner, vault |-> tx.vault, rows |-> tx.rows, earned |-> tx.earned]
      /\ tx.rows \in Seq(RowIds) /\ tx.earned \in SUBSET Names
      /\ TableGood(tx.vault) /\ RowsGood(tx.rows, tx.vault)
      /\ tx.earned \subseteq NamesOf(tx.rows)
  BY <1>1, MaskedAssumption DEF MaskedInv, MaskedTypeOK, TxGood
<1>3. to \in Statuses
  BY DEF Statuses
<1>4. new \in Seq(RowIds) /\ RowsGood(new, tx.vault) /\ NamesOf(new) = NamesOf(tx.rows)
  BY <1>2, <1>3, RowDecided
<1>5. tx' = [tx EXCEPT !.rows = new]
  BY <1>1
<1> HIDE DEF new
<1>6. tx' = [owner |-> c, vault |-> tx.vault, rows |-> new, earned |-> tx.earned]
  BY <1>1, <1>2, <1>5
<1>7. tx' \in TxType
  BY <1>2, <1>4, <1>6 DEF TableGood, TxType
<1>8. tx'.vault = tx.vault /\ tx'.rows = new /\ tx'.earned = tx.earned
  BY <1>6
<1>9. cache' = cache /\ vault' = vault /\ minting' = minting
  BY <1>1
<1>10. Outside' /\ cache' \in [Conns -> [warm : BOOLEAN, index : SUBSET Names]]
  BY <1>9 DEF MaskedInv, MaskedTypeOK, Outside
<1>11. QED
  BY <1>1, <1>2, <1>4, <1>7, <1>8, <1>10, InsideGood

LEMMA BeginGood == ASSUME MaskedInv, NEW c \in Conns, BeginTx(c) PROVE MaskedInv'
<1>1. /\ tx' = [owner |-> c, vault |-> vault, rows |-> rows, earned |-> {}]
      /\ vault' = vault /\ rows' = rows /\ cache' = cache /\ minting' = minting
      /\ told' = told /\ warned' = warned
  BY DEF BeginTx
<1>2. MaskedTypeOK'
  BY <1>1 DEF MaskedInv, MaskedTypeOK
<1>3. VaultGood'
  BY <1>1 DEF MaskedInv, VaultGood, TableGood, RowsGood, RowGood, NoRepeat, NamesOf, Injective
<1>4. tx'.vault = vault /\ tx'.rows = rows /\ tx'.earned = {}
  BY <1>1
<1>5. TableGood(tx.vault)' /\ RowsGood(tx.rows, tx.vault)'
  BY <1>4 DEF MaskedInv, VaultGood, TableGood, RowsGood, RowGood, NoRepeat, Injective
<1>6. NamesOf(rows)' = NamesOf(rows) /\ NamesOf(tx.rows)' = NamesOf(rows)
  BY <1>1, <1>4 DEF NamesOf
<1>7. TxGood'
  BY <1>1, <1>4, <1>5, <1>6 DEF TxGood
<1>8. Outside'
  BY <1>1 DEF MaskedInv, Outside
<1>9. QED
  BY <1>2, <1>3, <1>7, <1>8 DEF MaskedInv

\* Outside the transaction that is open, if any, names are only added and the
\* memories stay.
LEMMA NoTxGood ==
  ASSUME MaskedTypeOK', tx'.owner = NoConn, VaultGood', Outside'
  PROVE  MaskedInv'
BY DEF MaskedInv, TxGood

LEMMA CommitGood == ASSUME MaskedInv, NEW c \in Conns, CommitTx(c) PROVE MaskedInv'
<1>1. /\ tx.owner = c /\ c # NoConn
      /\ vault' = tx.vault /\ rows' = tx.rows /\ warned' = warned \cup tx.earned
      /\ tx' = NoTransaction /\ cache' = cache /\ minting' = minting /\ told' = told
  BY MaskedAssumption DEF CommitTx
<1>2. /\ TableGood(tx.vault) /\ vault \subseteq tx.vault
      /\ RowsGood(tx.rows, tx.vault)
      /\ tx.earned \subseteq NamesOf(tx.rows)
      /\ NamesOf(rows) \subseteq NamesOf(tx.rows)
  BY <1>1 DEF MaskedInv, TxGood
<1>3. MaskedTypeOK'
  BY <1>1 DEF MaskedInv, MaskedTypeOK, NoTransaction
<1>4. TableGood(vault)' /\ RowsGood(rows, vault)'
  BY <1>1, <1>2 DEF TableGood, RowsGood, RowGood, NoRepeat, Injective
<1>5. NamesOf(rows)' = NamesOf(tx.rows)
  BY <1>1 DEF NamesOf
<1>6. VaultGood'
  BY <1>1, <1>2, <1>4, <1>5 DEF MaskedInv, VaultGood
<1>7. Outside'
  BY <1>1, <1>2 DEF MaskedInv, Outside
<1>8. tx'.owner = NoConn
  BY <1>1 DEF NoTransaction
<1>9. QED
  BY <1>3, <1>6, <1>7, <1>8, NoTxGood

LEMMA RollbackGood ==
  ASSUME MaskedInv, NEW c \in Conns, RollbackTx(c)
  PROVE  MaskedInv'
<1>1. /\ tx' = NoTransaction /\ vault' = vault /\ rows' = rows /\ cache' = cache
      /\ minting' = minting /\ told' = told /\ warned' = warned
  BY DEF RollbackTx
<1>2. MaskedTypeOK'
  BY <1>1 DEF MaskedInv, MaskedTypeOK, NoTransaction
<1>3. VaultGood'
  BY <1>1 DEF MaskedInv, VaultGood, TableGood, RowsGood, RowGood, NoRepeat, NamesOf, Injective
<1>4. Outside'
  BY <1>1 DEF MaskedInv, Outside
<1>5. tx'.owner = NoConn
  BY <1>1 DEF NoTransaction
<1>6. QED
  BY <1>2, <1>3, <1>4, <1>5, NoTxGood

LEMMA EgressGood == ASSUME MaskedInv, NEW c \in Conns, Egress(c) PROVE MaskedInv'
<1>1. PICK t \in Texts :
        /\ t[2] # Plain
        /\ cache' = [cache EXCEPT ![c] = Warm(Index(c, vault))]
        /\ IF Knows(Index(c, vault), t[2])
           THEN told' = told \cup {<<t[2], NumberIn(Index(c, vault), t[2])>>} /\ UNCHANGED minting
           ELSE minting' = [minting EXCEPT ![c] = t] /\ UNCHANGED told
        /\ UNCHANGED <<vault, rows, tx, warned>>
  BY DEF Egress
<1> DEFINE ix == Index(c, vault)
<1>2. vault' = vault /\ rows' = rows /\ tx' = tx /\ warned' = warned
  BY <1>1
<1>3. vault \in SUBSET Names /\ ix \subseteq vault
  BY DEF MaskedInv, MaskedTypeOK, Outside, Index
<1>4. cache' = [cache EXCEPT ![c] = Warm(ix)]
  BY <1>1
<1>5. Knows(ix, t[2]) =>
        minting' = minting /\ told' = told \cup {<<t[2], NumberIn(ix, t[2])>>}
  BY <1>1
<1>6. ~ Knows(ix, t[2]) => minting' = [minting EXCEPT ![c] = t] /\ told' = told
  BY <1>1
<1> HIDE DEF ix
<1>7. told' \subseteq vault
  <2>1. Knows(ix, t[2]) => <<t[2], NumberIn(ix, t[2])>> \in ix
    BY <1>3, Known
  <2>2. told \subseteq vault
    BY DEF MaskedInv, VaultGood
  <2>3. QED
    BY <1>3, <1>5, <1>6, <2>1, <2>2
<1>8. cache' \in [Conns -> [warm : BOOLEAN, index : SUBSET Names]]
  BY <1>3, <1>4 DEF MaskedInv, MaskedTypeOK, Warm
<1>9. minting' \in [Conns -> Texts \cup {NoConn}]
  BY <1>5, <1>6 DEF MaskedInv, MaskedTypeOK
<1>10. MaskedTypeOK'
  BY <1>2, <1>3, <1>7, <1>8, <1>9 DEF MaskedInv, MaskedTypeOK
<1>11. VaultGood'
  BY <1>2, <1>7 DEF MaskedInv, VaultGood, TableGood, RowsGood, RowGood, NoRepeat, NamesOf,
                    Injective
<1>12. TxGood'
  BY <1>2 DEF MaskedInv, TxGood, TableGood, RowsGood, RowGood, NoRepeat, NamesOf, Injective
<1>13. Outside'
  <2>1. SUFFICES ASSUME NEW d \in Conns
                 PROVE  /\ cache'[d].warm => cache'[d].index \subseteq vault'
                        /\ minting'[d] # NoConn => minting'[d][2] # Plain
    BY DEF Outside
  <2>2. cache'[d].warm => cache'[d].index \subseteq vault'
    <3>1. cache'[d] = cache[d] \/ cache'[d] = Warm(ix)
      BY <1>4 DEF MaskedInv, MaskedTypeOK
    <3>2. QED
      BY <1>2, <1>3, <3>1 DEF MaskedInv, Outside, Warm
  <2>3. minting'[d] # NoConn => minting'[d][2] # Plain
    <3>1. minting'[d] = minting[d] \/ minting'[d] = t
      BY <1>5, <1>6 DEF MaskedInv, MaskedTypeOK
    <3>2. QED
      BY <1>1, <3>1 DEF MaskedInv, Outside
  <2>4. QED
    BY <2>2, <2>3
<1>14. QED
  BY <1>10, <1>11, <1>12, <1>13 DEF MaskedInv

LEMMA MintStepGood == ASSUME MaskedInv, NEW c \in Conns, Mint(c) PROVE MaskedInv'
<1> DEFINE v == minting[c][2]
<1> DEFINE n == IF Knows(vault, v) THEN NumberIn(vault, v) ELSE Highest(vault) + 1
<1>1. /\ minting[c] # NoConn /\ tx.owner = NoConn
      /\ vault' = vault \cup {<<v, n>>}
      /\ cache' = [cache EXCEPT ![c] = IF Knows(vault, v) THEN @ ELSE Cold]
      /\ told' = told \cup {<<v, n>>}
      /\ minting' = [minting EXCEPT ![c] = NoConn]
      /\ rows' = rows /\ tx' = tx /\ warned' = warned
  BY DEF Mint
<1>2. TableGood(vault) /\ vault \in SUBSET Names /\ RowsGood(rows, vault)
  BY DEF MaskedInv, VaultGood, TableGood
<1>3. v \in Values
  BY <1>1 DEF MaskedInv, MaskedTypeOK, Outside, Texts
<1>4. TableGood(vault \cup {<<v, n>>})
  <2>1. CASE Knows(vault, v)
    <3>1. <<v, n>> \in vault
      BY <1>2, <2>1, Known
    <3>2. vault \cup {<<v, n>>} = vault
      BY <3>1
    <3>3. QED
      BY <1>2, <3>2
  <2>2. CASE ~ Knows(vault, v)
    BY <1>2, <1>3, <2>2, NextIsFresh
  <2>3. QED
    BY <2>1, <2>2
<1> HIDE DEF n, v
<1> DEFINE new == vault \cup {<<v, n>>}
<1>5. /\ TableGood(new) /\ vault \subseteq new /\ vault' = new
      /\ told \cup {<<v, n>>} \subseteq new /\ new \in SUBSET Names
  BY <1>1, <1>4 DEF MaskedInv, VaultGood, TableGood
<1> HIDE DEF new
<1>6. rows \in Seq(RowIds)
  BY DEF MaskedInv, MaskedTypeOK
<1>7. RowsGood(rows, new)
  BY <1>2, <1>5, <1>6, GrownTable
<1>8. TableGood(vault)' /\ RowsGood(rows, vault)' /\ NamesOf(rows)' = NamesOf(rows)
  BY <1>1, <1>5, <1>7 DEF TableGood, RowsGood, RowGood, NoRepeat, Injective, NamesOf
<1>9. VaultGood'
  BY <1>1, <1>5, <1>8 DEF MaskedInv, VaultGood
<1>10. \A d \in Conns : cache'[d] = cache[d] \/ cache'[d] = Cold
  BY <1>1 DEF MaskedInv, MaskedTypeOK
<1>11. \A d \in Conns : minting'[d] = minting[d] \/ minting'[d] = NoConn
  BY <1>1 DEF MaskedInv, MaskedTypeOK
<1>12. Outside'
  <2>1. SUFFICES ASSUME NEW d \in Conns
                 PROVE  /\ cache'[d].warm => cache'[d].index \subseteq vault'
                        /\ minting'[d] # NoConn => minting'[d][2] # Plain
    BY DEF Outside
  <2>2. cache'[d].warm => cache'[d].index \subseteq vault'
    BY <1>5, <1>10 DEF MaskedInv, Outside, Cold
  <2>3. QED
    BY <1>11, <2>2 DEF MaskedInv, Outside
<1>13. MaskedTypeOK'
  <2>1. cache' \in [Conns -> [warm : BOOLEAN, index : SUBSET Names]]
    BY <1>1 DEF MaskedInv, MaskedTypeOK, Cold
  <2>2. minting' \in [Conns -> Texts \cup {NoConn}]
    BY <1>1 DEF MaskedInv, MaskedTypeOK
  <2>3. told' \in SUBSET Names
    BY <1>1, <1>5
  <2>4. QED
    BY <1>1, <1>5, <2>1, <2>2, <2>3 DEF MaskedInv, MaskedTypeOK
<1>14. tx'.owner = NoConn
  BY <1>1
<1>15. QED
  BY <1>9, <1>12, <1>13, <1>14, NoTxGood

LEMMA CrashGood == ASSUME MaskedInv, NEW c \in Conns, CrashConn(c) PROVE MaskedInv'
<1>1. /\ tx' = NoTransaction \/ tx' = tx
      /\ cache' = [cache EXCEPT ![c] = Cold] /\ minting' = [minting EXCEPT ![c] = NoConn]
      /\ vault' = vault /\ rows' = rows /\ told' = told /\ warned' = warned
  BY DEF CrashConn
<1>2. MaskedTypeOK'
  <2>1. cache' \in [Conns -> [warm : BOOLEAN, index : SUBSET Names]]
    BY <1>1 DEF MaskedInv, MaskedTypeOK, Cold
  <2>2. minting' \in [Conns -> Texts \cup {NoConn}]
    BY <1>1 DEF MaskedInv, MaskedTypeOK
  <2>3. tx' \in TxType
    <3>1. tx \in TxType /\ <<>> \in Seq(RowIds)
      BY DEF MaskedInv, MaskedTypeOK, TxType
    <3>2. NoTransaction \in TxType
      BY <3>1 DEF NoTransaction, TxType
    <3>3. QED
      BY <1>1, <3>1, <3>2
  <2>4. QED
    BY <1>1, <2>1, <2>2, <2>3 DEF MaskedInv, MaskedTypeOK, TxType
<1>3. VaultGood'
  BY <1>1 DEF MaskedInv, VaultGood, TableGood, RowsGood, RowGood, NoRepeat, NamesOf, Injective
<1>4. Outside'
  <2>1. SUFFICES ASSUME NEW d \in Conns
                 PROVE  /\ cache'[d].warm => cache'[d].index \subseteq vault'
                        /\ minting'[d] # NoConn => minting'[d][2] # Plain
    BY DEF Outside
  <2>2. cache'[d] = cache[d] \/ cache'[d] = Cold
    BY <1>1 DEF MaskedInv, MaskedTypeOK
  <2>3. minting'[d] = minting[d] \/ minting'[d] = NoConn
    BY <1>1 DEF MaskedInv, MaskedTypeOK
  <2>4. QED
    BY <1>1, <2>2, <2>3 DEF MaskedInv, Outside, Cold
<1>5. CASE tx' = NoTransaction
  BY <1>2, <1>3, <1>4, <1>5, NoTxGood DEF NoTransaction
<1>6. CASE tx' = tx
  <2>1. TxGood'
    BY <1>1, <1>6 DEF MaskedInv, TxGood, TableGood, RowsGood, RowGood, NoRepeat, NamesOf,
                      Injective
  <2>2. QED
    BY <1>2, <1>3, <1>4, <2>1 DEF MaskedInv
<1>7. QED
  BY <1>1, <1>5, <1>6

LEMMA MaskedStep == ASSUME MaskedInv, [MaskedNext]_maskedVars PROVE MaskedInv'
<1>1. CASE MaskedNext
  BY <1>1, BeginGood, WriteGood, ImportGood, TransitionGood, CommitGood, RollbackGood,
     EgressGood, MintStepGood, CrashGood DEF MaskedNext
<1>2. CASE UNCHANGED maskedVars
  BY <1>2 DEF maskedVars, MaskedInv, MaskedTypeOK, VaultGood, TxGood, Outside, TableGood,
              RowsGood, RowGood, NoRepeat, NamesOf, Injective
<1>3. QED
  BY <1>1, <1>2

LEMMA MaskedInvTells == ASSUME MaskedInv PROVE NamesResolve /\ ImportIsExact
<1>1. /\ TableGood(vault) /\ RowsGood(rows, vault) /\ rows \in Seq(RowIds)
      /\ told \subseteq vault /\ warned \subseteq NamesOf(rows)
  BY DEF MaskedInv, MaskedTypeOK, VaultGood
<1>2. \A i \in DOMAIN rows : rows[i] \in RowIds /\ RowGood(rows[i], vault)
  BY <1>1, ElementOfSeq, LenProperties DEF RowsGood
<1>3. RowNames = NamesOf(rows)
  BY DEF RowNames, NamesOf
<1>4. RowNames \subseteq vault
  BY <1>2 DEF RowNames, RowGood
<1>5. OneName
  BY <1>1 DEF OneName, TableGood, MaskedInv, TxGood
<1>6. NamesResolve
  BY <1>1, <1>3, <1>4, <1>5 DEF NamesResolve
<1>7. ASSUME NEW i \in DOMAIN rows, NEW j \in DOMAIN rows
      PROVE  Key(rows[i]) = Key(rows[j]) <=> rows[i].orig = rows[j].orig
  BY <1>1, <1>2, KeyIsExact
<1>8. ASSUME NEW i \in DOMAIN rows, NEW j \in DOMAIN rows, i < j, rows[i].orig = rows[j].orig
      PROVE  rows[j].from = "write"
  BY <1>1, <1>8 DEF RowsGood, NoRepeat
<1>9. ImportIsExact
  BY <1>7, <1>8 DEF ImportIsExact
<1>10. QED
  BY <1>6, <1>9

\* Every pseudonym stored in a memory or ever sent out has its entity and names one
\* value, and a warning tells of a stored memory (vault/vault.ts, allocate and
\* lookupIndex; memory/service.ts, publishOnSettlement).
THEOREM EveryNameResolves == MaskedSpec => []NamesResolve
<1>1. MaskedInv => NamesResolve
  BY MaskedInvTells
<1>2. MaskedInv /\ [MaskedNext]_maskedVars => MaskedInv'
  BY MaskedStep
<1>3. QED
  BY <1>1, <1>2, MaskedInitGood, PTL DEF MaskedSpec

\* An import stores a text once, rejected or not, and never takes one text for
\* another that looks the same masked (memory/service.ts, importMemories).
THEOREM ImportsAreExact == MaskedSpec => []ImportIsExact
<1>1. MaskedInv => ImportIsExact
  BY MaskedInvTells
<1>2. MaskedInv /\ [MaskedNext]_maskedVars => MaskedInv'
  BY MaskedStep
<1>3. QED
  BY <1>1, <1>2, MaskedInitGood, PTL DEF MaskedSpec


-----------------------------------------------------------------------------
(* The parts together.                                                     *)
(*                                                                         *)
(* Each part has its inductive invariant, here or in Driver_proofs.        *)

StoreInv ==
  /\ part \in {"transaction", "assoc", "masked", "remask", "schema"}
  /\ part = "transaction" => TxInv
  /\ part = "assoc" => GraphInv
  /\ part = "masked" => MaskedInv
  /\ part = "remask" => RemaskInv
  /\ part = "schema" => SchemaInv

LEMMA StoreStep == StoreInv /\ [StoreNext]_storeVars => StoreInv'
<1> SUFFICES ASSUME StoreInv, [StoreNext]_storeVars PROVE StoreInv'
  OBVIOUS
<1>1. part' = part /\ part \in {"transaction", "assoc", "masked", "remask", "schema"}
  BY DEF StoreInv, StoreNext, storeVars
<1>2. ASSUME part = "transaction" PROVE TxInv'
  <2>1. [Next]_vars /\ TxInv
    BY <1>2 DEF StoreInv, StoreNext, storeVars
  <2>2. QED
    BY <2>1, TxStep
<1>3. ASSUME part = "assoc" PROVE GraphInv'
  <2>1. [AssocNext]_assocVars /\ GraphInv
    BY <1>3 DEF StoreInv, StoreNext, storeVars
  <2>2. QED
    BY <2>1, GraphStep
<1>4. ASSUME part = "masked" PROVE MaskedInv'
  <2>1. [MaskedNext]_maskedVars /\ MaskedInv
    BY <1>4 DEF StoreInv, StoreNext, storeVars
  <2>2. QED
    BY <2>1, MaskedStep
<1>5. ASSUME part = "remask" PROVE RemaskInv'
  <2>1. [RemaskNext]_remaskVars /\ RemaskInv
    BY <1>5 DEF StoreInv, StoreNext, storeVars
  <2>2. QED
    BY <2>1, RemaskTypeStep, RowsStep, ScrubStep, AloneStep DEF RemaskInv
<1>6. ASSUME part = "schema" PROVE SchemaInv'
  <2>1. [SchemaNext]_schemaVars /\ SchemaInv
    BY <1>6 DEF StoreInv, StoreNext, storeVars
  <2>2. QED
    BY <2>1, SchemaTypeStep, VersionStep, MigrateStep, PlacesStep DEF SchemaInv
<1>7. QED
  BY <1>1, <1>2, <1>3, <1>4, <1>5, <1>6 DEF StoreInv

\* Whichever part of the store runs, its state keeps its type.
THEOREM StoreTypes == StoreSpec => []StoreTypeOK
<1>1. StoreInit => StoreInv
  BY TxStart, GraphInit, MaskedInitGood, RemaskInitInv, SchemaInitInv DEF StoreInit, StoreInv
<1>2. StoreInv => StoreTypeOK
  <2>1. /\ TxInv => TypeOK
        /\ GraphInv => AssocTypeOK
        /\ MaskedInv => MaskedTypeOK
        /\ RemaskInv => RemaskTypeOK
        /\ SchemaInv => SchemaTypeOK
    BY DEF TxInv, GraphInv, MaskedInv, RemaskInv, SchemaInv
  <2>2. QED
    BY <2>1 DEF StoreInv, StoreTypeOK
<1>3. QED
  BY <1>1, <1>2, StoreStep, PTL DEF StoreSpec
=============================================================================
