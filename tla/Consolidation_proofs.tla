------------------------ MODULE Consolidation_proofs ------------------------
(***************************************************************************)
(* Proofs about Consolidation, for every set of memories and every         *)
(* listing of them.                                                        *)
(***************************************************************************)
EXTENDS Consolidation, FiniteSetTheorems, WellFoundedInduction, TLAPS

-----------------------------------------------------------------------------
(* The inductive invariant.                                                *)

Standing(n) == Batch(n) /\ ~RolledBack(n)
Touched(n)  == {c.id : c \in journal[n].changes}

\* A batch says of each memory it changed, once, what it was before.
TellsBefore(n) ==
  /\ \A c \in journal[n].changes : c.from = before[n][c.id]
  /\ \A c, d \in journal[n].changes : c.id = d.id => c = d
  /\ \A i \in journal[n].inserts : before[n][i] = "unused"

\* What a batch archived is its own until it is rolled back: archived still,
\* never a rejected proposal, and to be restored as confirmed when it was.
Holds(n) ==
  \A c \in journal[n].changes :
    /\ status[c.id] = "archived"
    /\ c.id \notin rejected
    /\ c.id \in confirmed => c.from = "confirmed"

Apart ==
  \A m, n \in DOMAIN journal :
    m # n /\ Standing(m) /\ Standing(n) => Touched(m) \cap Touched(n) = {}

BatchesInv ==
  /\ \A n \in DOMAIN journal : Batch(n) => TellsBefore(n)
  /\ \A n \in DOMAIN journal : Standing(n) => Holds(n)
  /\ Apart

RunsInv ==
  \A r \in Runs : run[r].awaiting => run[r].ended = "none" /\ run[r].todo # <<>>

IInv == TypeOK /\ DecisionsStand /\ BatchesInv /\ RunsInv /\ ReviewBoundary

-----------------------------------------------------------------------------
(* Induction on numbers, and folds over sequences by it.                   *)

\* The library's theorems take an operator, which no prover instantiates; for
\* sets the well-founded order of the numbers gives both.
LEMMA Least ==
  ASSUME NEW T \in SUBSET Nat, T # {}
  PROVE  \E n \in T : \A m \in T : n <= m
<1> DEFINE R == OpToRel(<, Nat)
<1>1. IsWellFoundedOn(R, Nat)
  BY NatLessThanWellFounded
<1> HIDE DEF R
<1>2. PICK n \in T : \A m \in T : ~ (<<m, n>> \in R)
  BY <1>1, WFMin
<1>3. \A m \in T : <<m, n>> \in R <=> m < n
  BY DEF R, OpToRel
<1>4. \A m \in T : n <= m
  <2>1. SUFFICES ASSUME NEW m \in T PROVE n <= m
    OBVIOUS
  <2>2. m \in Nat /\ n \in Nat /\ ~ (m < n)
    BY <1>2, <1>3
  <2>3. QED
    BY <2>2
<1>5. QED
  BY <1>4

LEMMA Induct ==
  ASSUME NEW T, 0 \in T, \A n \in Nat : n \in T => n + 1 \in T
  PROVE  Nat \subseteq T
<1>1. SUFFICES ASSUME Nat \ T # {} PROVE FALSE
  OBVIOUS
<1>2. PICK n \in Nat \ T : \A m \in Nat \ T : n <= m
  BY <1>1, Least
<1>3. n - 1 \in Nat /\ n - 1 \in T
  BY <1>2
<1>4. QED
  BY <1>2, <1>3

\* A set of positions has a last one.
LEMMA Largest ==
  ASSUME NEW k \in Nat, NEW S \in SUBSET (1..k), S # {}
  PROVE  Max(S) \in S /\ \A x \in S : Max(S) >= x
<1> DEFINE Over == {n \in Nat : \A x \in S : x <= n}
<1> DEFINE K == 1..k
<1>0. S \subseteq Nat /\ \A x \in S : x >= 1 /\ x <= k
  <2>1. \A x \in K : x \in Nat /\ x >= 1 /\ x <= k
    OBVIOUS
  <2> HIDE DEF K
  <2>2. S \subseteq K
    BY DEF K
  <2>3. QED
    BY <2>1, <2>2
<1>1. k \in Over
  BY <1>0
<1>2. PICK n \in Over : \A m \in Over : n <= m
  BY <1>1, Least
<1>3. n \in S
  <2>1. SUFFICES ASSUME n \notin S PROVE FALSE
    OBVIOUS
  <2>2. \A x \in S : x \in Nat /\ x <= n /\ x # n
    BY <1>0, <1>2, <2>1
  <2>3. PICK y \in S : y \in Nat /\ y >= 1
    BY <1>0
  <2>4. n \in Nat /\ n >= 1
    BY <1>2, <2>2, <2>3
  <2>5. n - 1 \in Over
    BY <2>2, <2>4
  <2>6. QED
    BY <1>2, <2>4, <2>5
<1>4. n \in S /\ \A x \in S : n >= x
  BY <1>2, <1>3
<1>5. QED
  BY <1>4 DEF Max

\* A step of a fold: the value of a set of positions from that of the set
\* without the last of them.
Steps(g, f, base, seq, n) ==
  \A s \in SUBSET (1..n) :
    g[s] = IF s = {} THEN base ELSE f[<<g[s \ {Max(s)}], seq[Max(s)]>>]

\* A function that makes these steps exists, whatever the step is.
LEMMA FoldExists ==
  ASSUME NEW T, NEW E, NEW n \in Nat, NEW seq \in [1..n -> E],
         NEW base \in T, NEW f \in [T \X E -> T]
  PROVE  \E g \in [SUBSET (1..n) -> T] : Steps(g, f, base, seq, n)
<1> DEFINE Some(k) == \E g \in [SUBSET (1..k) -> T] : Steps(g, f, base, seq, k)
           U == {k \in Nat : k <= n => Some(k)}
<1>1. Some(0)
  <2> DEFINE g == [s \in SUBSET (1..0) |-> base]
  <2>1. \A s \in SUBSET (1..0) : s = {}
    OBVIOUS
  <2>2. g \in [SUBSET (1..0) -> T] /\ Steps(g, f, base, seq, 0)
    BY <2>1 DEF Steps
  <2>3. QED
    BY <2>2
<1>2. ASSUME NEW k \in Nat, k + 1 <= n, Some(k) PROVE Some(k + 1)
  <2>1. k + 1 <= n
    BY <1>2
  <2>2. PICK g \in [SUBSET (1..k) -> T] : Steps(g, f, base, seq, k)
    BY <1>2
  <2> DEFINE h == [s \in SUBSET (1..(k + 1)) |->
                     IF k + 1 \in s THEN f[<<g[s \ {k + 1}], seq[k + 1]>>] ELSE g[s]]
  <2>3. 1..(k + 1) = (1..k) \cup {k + 1} /\ k + 1 \notin 1..k /\ k + 1 \in 1..n
    BY <2>1
  <2>4. ASSUME NEW s \in SUBSET (1..(k + 1))
        PROVE  /\ h[s] \in T
               /\ h[s] = IF s = {} THEN base ELSE f[<<h[s \ {Max(s)}], seq[Max(s)]>>]
    <3>1. CASE k + 1 \in s
      <4>1. s \ {k + 1} \in SUBSET (1..k) /\ s \ {k + 1} \in SUBSET (1..(k + 1))
        BY <2>3
      <4>2. g[s \ {k + 1}] \in T /\ seq[k + 1] \in E
        BY <2>3, <4>1
      <4>3. h[s] = f[<<g[s \ {k + 1}], seq[k + 1]>>] /\ h[s \ {k + 1}] = g[s \ {k + 1}]
        BY <3>1, <4>1
      <4>4. Max(s) = k + 1
        <5>1. Max(s) \in s /\ Max(s) >= k + 1
          <6>1. k + 1 \in Nat /\ s \in SUBSET (1..(k + 1)) /\ s # {}
            BY <3>1
          <6>2. QED
            BY <6>1, <3>1, Largest
        <5>2. Max(s) \in 1..(k + 1)
          BY <5>1
        <5>3. QED
          BY <5>1, <5>2
      <4>5. QED
        BY <3>1, <4>2, <4>3, <4>4
    <3>2. CASE k + 1 \notin s
      <4>1. s \in SUBSET (1..k)
        BY <2>3, <3>2
      <4>2. h[s] = g[s] /\ g[s] \in T
        BY <3>2, <4>1
      <4>3. CASE s = {}
        BY <2>2, <4>1, <4>2, <4>3 DEF Steps
      <4>4. CASE s # {}
        <5>1. s \ {Max(s)} \in SUBSET (1..k) /\ s \ {Max(s)} \in SUBSET (1..(k + 1))
              /\ k + 1 \notin s \ {Max(s)}
          BY <2>3, <4>1
        <5>2. h[s \ {Max(s)}] = g[s \ {Max(s)}]
          BY <5>1
        <5>3. g[s] = f[<<g[s \ {Max(s)}], seq[Max(s)]>>]
          BY <2>2, <4>1, <4>4 DEF Steps
        <5>4. QED
          BY <4>2, <4>4, <5>2, <5>3
      <4>5. QED
        BY <4>3, <4>4
    <3>3. QED
      BY <3>1, <3>2
  <2>5. h \in [SUBSET (1..(k + 1)) -> T]
    BY <2>4
  <2>6. Steps(h, f, base, seq, k + 1)
    BY <2>4 DEF Steps
  <2>7. QED
    BY <2>5, <2>6
<1>3. Some(n)
  <2> HIDE DEF Some
  <2>1. 0 \in U /\ \A k \in Nat : k \in U => k + 1 \in U
    BY <1>1, <1>2
  <2>2. Nat \subseteq U
    <3> HIDE DEF U
    <3>1. QED
      BY <2>1, Induct
  <2>3. QED
    BY <2>2
<1>4. QED
  BY <1>3

\* What each step keeps, the fold has.
LEMMA FoldKeeps ==
  ASSUME NEW T, NEW n \in Nat, NEW g, g[{}] \in T,
         \A s \in SUBSET (1..n) : s # {} /\ g[s \ {Max(s)}] \in T => g[s] \in T
  PROVE  g[1..n] \in T
<1> DEFINE U == {k \in Nat : k <= n => \A s \in SUBSET (1..k) : g[s] \in T}
<1>1. 0 \in U
  <2>1. \A s \in SUBSET (1..0) : s = {}
    OBVIOUS
  <2>2. QED
    BY <2>1
<1>2. ASSUME NEW k \in Nat, k \in U PROVE k + 1 \in U
  <2>1. SUFFICES ASSUME k + 1 <= n, NEW s \in SUBSET (1..(k + 1)) PROVE g[s] \in T
    OBVIOUS
  <2>2. 1..(k + 1) = (1..k) \cup {k + 1} /\ 1..(k + 1) \subseteq 1..n
    BY <2>1
  <2>3. \A x \in SUBSET (1..k) : g[x] \in T
    BY <1>2, <2>1
  <2>4. CASE k + 1 \in s
    <3>1. Max(s) = k + 1
      <4>1. Max(s) \in s /\ Max(s) >= k + 1
        <5>1. k + 1 \in Nat /\ s \in SUBSET (1..(k + 1)) /\ s # {}
          BY <2>4
        <5>2. QED
          BY <5>1, <2>4, Largest
      <4>2. Max(s) \in 1..(k + 1)
        BY <4>1
      <4>3. QED
        BY <4>1, <4>2
    <3>2. s \ {Max(s)} \in SUBSET (1..k)
      BY <2>2, <3>1
    <3>3. s \in SUBSET (1..n) /\ s # {}
      BY <2>2, <2>4
    <3>4. QED
      BY <2>3, <3>2, <3>3
  <2>5. CASE k + 1 \notin s
    <3>1. s \in SUBSET (1..k)
      BY <2>2, <2>5
    <3>2. QED
      BY <2>3, <3>1
  <2>6. QED
    BY <2>4, <2>5
<1>3. n \in U
  <2>1. Nat \subseteq U
    <3> HIDE DEF U
    <3>1. QED
      BY <1>1, <1>2, Induct
  <2>2. QED
    BY <2>1
<1>4. QED
  BY <1>3

-----------------------------------------------------------------------------
(* What a pass asks for.                                                   *)

\* A merge within the review boundary, by the rows as they are.
Within(c) ==
  /\ Part[c.into] = Part[c.id]
  /\ \/ status[c.into] = status[c.id]
     \/ status[c.into] = "confirmed" /\ Key[c.into] = Key[c.id]

\* Changes to rows as they are, each of one row, and no row that is taken.
Good(changes, inserts) ==
  /\ changes \subseteq Change /\ inserts \subseteq Ids
  /\ \A c \in changes : c.from = status[c.id] /\ (c.into # None => Within(c))
  /\ \A c, d \in changes : c.id = d.id => c = d
  /\ \A i \in inserts : status[i] = "unused"

LEMMA BestIs ==
  ASSUME NEW ids \in SUBSET Ids, ids # {}
  PROVE  Best(ids) \in ids /\ \A j \in ids : Rank[Best(ids)] <= Rank[j]
<1> DEFINE T == {Rank[i] : i \in ids}
<1>1. T \in SUBSET Nat /\ T # {}
  BY MemoryAssumption
<1>2. PICK n \in T : \A m \in T : n <= m
  BY <1>1, Least
<1>3. \E i \in ids : \A j \in ids : Rank[i] <= Rank[j]
  BY <1>2
<1>4. QED
  BY <1>3 DEF Best

LEMMA ExactAreGood ==
  ASSUME TypeOK PROVE Good(ExactDupes, {}) /\ \A c \in ExactDupes : c.id \in Active
<1>1. ASSUME NEW i \in Active
      PROVE  LET c == Archive(i, Survivor(Twins(i))) IN
               c \in Change /\ c.id = i /\ c.from = status[i] /\ Within(c)
  <2> DEFINE sure == {j \in Twins(i) : status[j] = "confirmed"}
             k == Survivor(Twins(i))
  <2>1. i \in Twins(i) /\ Twins(i) \subseteq Ids /\ i \in Ids
    BY DEF Twins, Active
  <2>2. CASE sure # {}
    <3>1. k = Best(sure)
      BY <2>2 DEF Survivor
    <3>2. k \in sure
      BY <2>1, <2>2, <3>1, BestIs
    <3>3. k \in Ids /\ status[k] = "confirmed" /\ Key[k] = Key[i]
      BY <3>2 DEF Twins, Active
    <3>4. QED
      BY <2>1, <3>3, MemoryAssumption
      DEF Archive, Change, Within, Active, Live
  <2>3. CASE sure = {}
    <3>1. k = Best(Twins(i))
      BY <2>3 DEF Survivor
    <3>2. k \in Twins(i)
      BY <2>1, <3>1, BestIs
    <3>3. k \in Ids /\ status[k] = "proposed" /\ status[i] = "proposed" /\ Key[k] = Key[i]
      BY <2>1, <2>3, <3>2 DEF Twins, Active, Live
    <3>4. QED
      BY <2>1, <3>3, MemoryAssumption
      DEF Archive, Change, Within
  <2>4. QED
    BY <2>2, <2>3
<1>2. \A c \in ExactDupes : \E i \in Active : c = Archive(i, Survivor(Twins(i)))
  BY DEF ExactDupes
<1> HIDE DEF Archive
<1>3. QED
  BY <1>1, <1>2 DEF Good, Change

\* Folded pairs: of one part and status, into the better of the two, and no row
\* in two of them as folded.
Pairs(ids) ==
  {d \in SUBSET {Archive(i, j) : i \in ids, j \in ids} :
     /\ \A c, e \in d : c.id = e.id => c = e
     /\ \A c \in d : /\ Part[c.into] = Part[c.id] /\ status[c.into] = status[c.id]
                      /\ Rank[c.into] < Rank[c.id]}

LEMMA FoldPairs ==
  ASSUME NEW ids, NEW done \in Pairs(ids), NEW a, NEW b
  PROVE  Fold(ids, done, a, b) \in Pairs(ids)
<1> DEFINE keep == Best({a, b})
           drop == IF keep = a THEN b ELSE a
           c == Archive(drop, keep)
<1>1. CASE Fold(ids, done, a, b) = done
  BY <1>1
<1>2. CASE Fold(ids, done, a, b) # done
  <2>1. /\ {a, b} \subseteq ids /\ a # b /\ {a, b} \in Near
        /\ Part[a] = Part[b] /\ status[a] = status[b]
        /\ {a, b} \cap {e.id : e \in done} = {}
        /\ Fold(ids, done, a, b) = done \cup {c}
    BY <1>2 DEF Fold
  <2>2. {a, b} \subseteq Ids
    <3>1. \A e \in Near : e \subseteq Ids
      BY MemoryAssumption
    <3>2. QED
      BY <2>1, <3>1
  <2>3. keep \in {a, b}
    BY <2>2, BestIs
  <2>4. drop \in ids /\ keep \in ids /\ drop \in {a, b}
    BY <2>1, <2>3
  <2>5. c.id = drop /\ c.into = keep
    BY DEF Archive
  <2>6. c \in {Archive(i, j) : i \in ids, j \in ids}
    BY <2>4
  <2>7. \A e \in done : e.id # c.id
    BY <2>1, <2>4, <2>5
  <2>8. /\ Part[c.into] = Part[c.id] /\ status[c.into] = status[c.id]
        /\ Rank[c.into] < Rank[c.id]
    <3>1. Part[c.into] = Part[c.id] /\ status[c.into] = status[c.id]
      BY <2>1, <2>3, <2>4, <2>5
    <3>2. drop # keep
      BY <2>1, <2>3
    <3>3. keep \in Ids /\ drop \in Ids /\ Rank[keep] <= Rank[drop]
      BY <2>2, <2>3, <2>4, BestIs
    <3>4. Rank[keep] # Rank[drop] /\ Rank[keep] \in Nat /\ Rank[drop] \in Nat
      <4> HIDE DEF keep, drop
      <4>1. QED
        BY <3>2, <3>3, MemoryAssumption DEF IsInjective
    <3>5. Rank[keep] < Rank[drop]
      BY <3>3, <3>4
    <3>6. QED
      BY <2>5, <3>1, <3>5
  <2>9. done \cup {c} \in Pairs(ids)
    <3> DEFINE P == {Archive(i, j) : i \in ids, j \in ids}
               U == done \cup {c}
    <3> HIDE DEF c, P
    <3>1. /\ done \in SUBSET P /\ \A x, e \in done : x.id = e.id => x = e
          /\ \A x \in done : /\ Part[x.into] = Part[x.id] /\ status[x.into] = status[x.id]
                              /\ Rank[x.into] < Rank[x.id]
      BY DEF Pairs, P
    <3>2. \A x, e \in U : x.id = e.id => x = e
      BY <2>7, <3>1
    <3>3. \A x \in U : /\ Part[x.into] = Part[x.id] /\ status[x.into] = status[x.id]
                        /\ Rank[x.into] < Rank[x.id]
      BY <2>8, <3>1
    <3>4. U \in SUBSET P
      BY <2>6, <3>1 DEF P
    <3> HIDE DEF U
    <3>5. U \in Pairs(ids)
      BY <3>2, <3>3, <3>4 DEF Pairs, P
    <3>6. QED
      BY <3>5 DEF U
  <2>10. QED
    BY <2>1, <2>9
<1>3. QED
  BY <1>1, <1>2

LEMMA RowPairs ==
  ASSUME NEW ids, NEW done \in Pairs(ids), NEW m \in Nat, m <= Len(Listing), m >= 1
  PROVE  FoldRow(ids, done, m) \in Pairs(ids)
<1> DEFINE T == Pairs(ids)
           L == Len(Listing)
           seq == [n \in 1..L |-> IF n > m THEN n ELSE m]
           G(d, n) == Fold(ids, d, Listing[m], Listing[n])
           f == [x \in T \X Nat |-> G(x[1], x[2])]
           Is(h) == h = [s \in SUBSET DOMAIN seq |->
                           IF s = {} THEN done ELSE G(h[s \ {Max(s)}], seq[Max(s)])]
           it == CHOOSE h : Is(h)
<1>1. L \in Nat /\ DOMAIN seq = 1..L /\ seq \in [1..L -> Nat]
  BY MemoryAssumption
<1>2. \A d \in T : \A n : G(d, n) \in T
  <2> HIDE DEF T
  <2>1. QED
    BY FoldPairs DEF T
<1>3. f \in [T \X Nat -> T] /\ \A d \in T, n \in Nat : f[<<d, n>>] = G(d, n)
  <2> HIDE DEF T, G
  <2>1. QED
    BY <1>2
<1>4. PICK g \in [SUBSET (1..L) -> T] : Steps(g, f, done, seq, L)
  <2> HIDE DEF T, seq, f, L
  <2>1. done \in T
    BY DEF T
  <2>2. QED
    BY <1>1, <1>3, <2>1, FoldExists
<1>5. FoldRow(ids, done, m) = it[1..L]
  <2>1. FoldRow(ids, done, m) = it[DOMAIN seq]
    BY DEF FoldRow, FoldLeft, MapThenFoldSet
  <2>2. QED
    BY <1>1, <2>1
<1>6. Is(g)
  <2> HIDE DEF T, G, f, seq
  <2>1. \A s \in SUBSET (1..L) :
          g[s] = IF s = {} THEN done ELSE G(g[s \ {Max(s)}], seq[Max(s)])
    <3>1. SUFFICES ASSUME NEW s \in SUBSET (1..L), s # {}
                   PROVE  g[s] = G(g[s \ {Max(s)}], seq[Max(s)])
      BY <1>4 DEF Steps
    <3>2. Max(s) \in s
      BY <1>1, <3>1, Largest
    <3>3. g[s \ {Max(s)}] \in T /\ seq[Max(s)] \in Nat
      BY <1>1, <1>4, <3>2
    <3>4. g[s] = f[<<g[s \ {Max(s)}], seq[Max(s)]>>]
      BY <1>4, <3>1 DEF Steps
    <3>5. QED
      BY <1>3, <3>3, <3>4
  <2>2. QED
    BY <1>1, <1>4, <2>1
<1>7. Is(it)
  <2> HIDE DEF Is
  <2>1. QED
    BY <1>6
<1>8. it[1..L] \in T
  <2> HIDE DEF T, G, it, seq
  <2>1. it[{}] \in T
    BY <1>1, <1>7 DEF T
  <2>2. \A s \in SUBSET (1..L) : s # {} /\ it[s \ {Max(s)}] \in T => it[s] \in T
    BY <1>1, <1>2, <1>7
  <2>3. QED
    BY <1>1, <2>1, <2>2, FoldKeeps
<1>9. QED
  BY <1>5, <1>8

LEMMA NearPairs ==
  ASSUME NEW ids PROVE NearDupes(ids) \in Pairs(ids)
<1> DEFINE T == Pairs(ids)
           L == Len(Listing)
           seq == [m \in 1..L |-> m]
           G(d, m) == FoldRow(ids, d, m)
           f == [x \in T \X (1..L) |-> G(x[1], x[2])]
           Is(h) == h = [s \in SUBSET DOMAIN seq |->
                           IF s = {} THEN {} ELSE G(h[s \ {Max(s)}], seq[Max(s)])]
           it == CHOOSE h : Is(h)
<1>1. L \in Nat /\ DOMAIN seq = 1..L /\ seq \in [1..L -> 1..L]
  BY MemoryAssumption
<1>2. \A d \in T, m \in 1..L : G(d, m) \in T
  <2>1. ASSUME NEW d \in T, NEW m \in 1..L PROVE FoldRow(ids, d, m) \in T
    <3>1. m \in Nat /\ m <= Len(Listing) /\ m >= 1
      BY <1>1
    <3>2. QED
      BY <3>1, RowPairs
  <2>2. QED
    BY <2>1
<1>3. f \in [T \X (1..L) -> T] /\ \A d \in T, m \in 1..L : f[<<d, m>>] = G(d, m)
  <2> HIDE DEF T, G
  <2>1. QED
    BY <1>2
<1>4. {} \in T
  BY DEF Pairs
<1>5. PICK g \in [SUBSET (1..L) -> T] : Steps(g, f, {}, seq, L)
  <2> HIDE DEF T, seq, f, L
  <2>1. QED
    BY <1>1, <1>3, <1>4, FoldExists
<1>6. NearDupes(ids) = it[1..L]
  <2>1. NearDupes(ids) = it[DOMAIN seq]
    BY DEF NearDupes, FoldLeft, MapThenFoldSet
  <2>2. QED
    BY <1>1, <2>1
<1>7. Is(g)
  <2> HIDE DEF T, G, f, seq
  <2>1. \A s \in SUBSET (1..L) :
          g[s] = IF s = {} THEN {} ELSE G(g[s \ {Max(s)}], seq[Max(s)])
    <3>1. SUFFICES ASSUME NEW s \in SUBSET (1..L), s # {}
                   PROVE  g[s] = G(g[s \ {Max(s)}], seq[Max(s)])
      BY <1>5 DEF Steps
    <3>2. Max(s) \in s
      BY <1>1, <3>1, Largest
    <3>3. g[s \ {Max(s)}] \in T /\ seq[Max(s)] \in 1..L
      BY <1>1, <1>5, <3>2
    <3>4. g[s] = f[<<g[s \ {Max(s)}], seq[Max(s)]>>]
      BY <1>5, <3>1 DEF Steps
    <3>5. QED
      BY <1>3, <3>3, <3>4
  <2>2. QED
    BY <1>1, <1>5, <2>1
<1>8. Is(it)
  <2> HIDE DEF Is
  <2>1. QED
    BY <1>7
<1>9. it[1..L] \in T
  <2> HIDE DEF T, G, it, seq
  <2>1. it[{}] \in T
    BY <1>1, <1>4, <1>8
  <2>2. \A s \in SUBSET (1..L) : s # {} /\ it[s \ {Max(s)}] \in T => it[s] \in T
    <3>1. SUFFICES ASSUME NEW s \in SUBSET (1..L), s # {}, it[s \ {Max(s)}] \in T
                   PROVE  it[s] \in T
      OBVIOUS
    <3>2. seq[Max(s)] \in 1..L
      BY <1>1, <3>1, Largest
    <3>3. it[s] = G(it[s \ {Max(s)}], seq[Max(s)])
      BY <1>1, <1>8, <3>1
    <3>4. QED
      BY <1>2, <3>1, <3>2, <3>3
  <2>3. QED
    BY <1>1, <2>1, <2>2, FoldKeeps
<1>10. QED
  BY <1>6, <1>9

LEMMA NearAreGood ==
  ASSUME TypeOK, NEW ids \in SUBSET Active
  PROVE  Good(NearDupes(ids), {}) /\ \A c \in NearDupes(ids) : c.id \in ids
<1> DEFINE near == NearDupes(ids)
<1>1. /\ near \subseteq {Archive(i, j) : i \in ids, j \in ids}
      /\ \A c, e \in near : c.id = e.id => c = e
      /\ \A c \in near : Part[c.into] = Part[c.id] /\ status[c.into] = status[c.id]
  BY NearPairs DEF Pairs
<1> HIDE DEF near
<1>2. ASSUME NEW c \in near
      PROVE  c \in Change /\ c.from = status[c.id] /\ c.id \in ids
  <2>1. PICK i \in ids, j \in ids : c = Archive(i, j)
    BY <1>1
  <2>2. i \in Ids /\ j \in Ids /\ status[i] \in {"proposed", "confirmed"}
    BY DEF Active, Live
  <2>3. QED
    BY <2>1, <2>2 DEF Archive, Change
<1>3. QED
  BY <1>1, <1>2 DEF Good, Within, near

\* Everything a deterministic pass archives.
LEMMA PassIsGood ==
  ASSUME TypeOK,
         NEW faded \in SUBSET ((Active \ {c.id : c \in ExactDupes}) \
           {c.id : c \in NearDupes(Active \ {e.id : e \in ExactDupes})})
  PROVE  Good(ExactDupes \cup NearDupes(Active \ {c.id : c \in ExactDupes})
                \cup {Archive(i, None) : i \in faded}, {})
<1> DEFINE exact == ExactDupes
           rest == Active \ {c.id : c \in exact}
           near == NearDupes(rest)
           gone == {Archive(i, None) : i \in faded}
<1>1. Good(exact, {}) /\ \A c \in exact : c.id \in Active
  BY ExactAreGood
<1>2. Good(near, {}) /\ \A c \in near : c.id \in rest
  <2>1. rest \in SUBSET Active
    OBVIOUS
  <2> HIDE DEF rest
  <2>2. QED
    BY <2>1, NearAreGood
<1>3. \A c \in gone : /\ c \in Change /\ c.from = status[c.id] /\ c.into = None
                      /\ c.id \in rest /\ c.id \notin {e.id : e \in near}
                      /\ c = Archive(c.id, None)
  <2>1. \A i \in faded : i \in Ids /\ status[i] \in {"proposed", "confirmed"}
                         /\ i \in rest /\ i \notin {e.id : e \in near}
    BY DEF Active, Live
  <2> HIDE DEF rest, near
  <2>2. QED
    BY <2>1 DEF Archive, Change
<1> HIDE DEF exact, near, gone
<1>4. \A c, e \in exact \cup near \cup gone : c.id = e.id => c = e
  <2>1. \A c \in near \cup gone, e \in exact : c.id # e.id
    BY <1>2, <1>3
  <2>2. \A c \in gone, e \in near : c.id # e.id
    BY <1>3
  <2>3. \A c, e \in gone : c.id = e.id => c = e
    BY <1>3
  <2>4. QED
    BY <1>1, <1>2, <2>1, <2>2, <2>3 DEF Good
<1>5. exact \cup near \cup gone \subseteq Change
  BY <1>1, <1>2, <1>3 DEF Good
<1>6. \A c \in exact \cup near \cup gone :
        c.from = status[c.id] /\ (c.into # None => Within(c))
  BY <1>1, <1>2, <1>3 DEF Good
<1>7. Good(exact \cup near \cup gone, {})
  BY <1>4, <1>5, <1>6 DEF Good
<1>8. QED
  BY <1>7 DEF exact, near, gone

\* And everything an oracle's answer does.
LEMMA AnswerIsGood ==
  ASSUME TypeOK, NEW batch \in SUBSET Ids, NEW answer \in Answers(batch),
         NEW inserts \in SUBSET {i \in Ids : status[i] = "unused"}
  PROVE  Good(Merges(answer) \cup Archives(answer), inserts)
<1>1. answer \in [batch -> batch \cup {"keep", "archive", "promote"}]
      /\ \A i \in batch : answer[i] \in batch => answer[answer[i]] = answer[i]
  BY DEF Answers
<1>2. ASSUME NEW c \in Merges(answer)
      PROVE  /\ c \in Change /\ c.from = status[c.id] /\ Within(c)
             /\ c = Archive(c.id, answer[c.id]) /\ answer[c.id] \in Ids
  <2>1. PICK i \in DOMAIN answer : /\ answer[i] \in Ids \ {i}
                                   /\ Mergeable(Members(answer, answer[i]))
                                   /\ c = Archive(i, answer[i])
    BY DEF Merges
  <2>2. i \in batch /\ answer[i] \in batch /\ answer[answer[i]] = answer[i]
    BY <1>1, <2>1, MemoryAssumption
  <2>3. i \in Members(answer, answer[i]) /\ answer[i] \in Members(answer, answer[i])
    BY <1>1, <2>2 DEF Members
  <2>4. /\ Live(i) /\ Part[answer[i]] = Part[i] /\ status[answer[i]] = status[i]
    BY <2>1, <2>3 DEF Mergeable
  <2>5. QED
    BY <2>1, <2>2, <2>4 DEF Archive, Change, Within, Live
<1>3. ASSUME NEW c \in Archives(answer)
      PROVE  /\ c \in Change /\ c.from = status[c.id] /\ c.into = None
             /\ c = Archive(c.id, None) /\ answer[c.id] \notin Ids
  <2>1. PICK i \in Members(answer, "archive") : Live(i) /\ c = Archive(i, None)
    BY DEF Archives
  <2>2. i \in Ids /\ answer[i] = "archive"
    BY <1>1 DEF Members
  <2>3. QED
    BY <2>1, <2>2, MemoryAssumption DEF Archive, Change, Live
<1>4. \A c, e \in Merges(answer) \cup Archives(answer) : c.id = e.id => c = e
  BY <1>2, <1>3
<1>5. inserts \subseteq Ids /\ \A i \in inserts : status[i] = "unused"
  OBVIOUS
<1>6. QED
  BY <1>2, <1>3, <1>4, <1>5 DEF Good

-----------------------------------------------------------------------------
(* What an entry does to the journal.                                      *)

RowsOK ==
  /\ status \in [Ids -> Statuses]
  /\ journal \in Seq(Entry) /\ Len(journal) <= MaxEntries
  /\ before \in Seq([Ids -> Statuses]) /\ Len(before) = Len(journal)
  /\ lagging \in BOOLEAN

LEMMA Appended ==
  ASSUME TypeOK, NEW e \in Entry, Append1(e)
  PROVE  LET L == Len(journal) IN
         /\ L \in Nat /\ L + 1 <= MaxEntries /\ DOMAIN journal = 1..L
         /\ DOMAIN journal' = 1..(L + 1)
         /\ \A n \in 1..L : journal'[n] = journal[n] /\ before'[n] = before[n]
         /\ journal'[L + 1] = e /\ before'[L + 1] = status
         /\ journal' \in Seq(Entry) /\ Len(journal') <= MaxEntries /\ Len(journal') = L + 1
         /\ before' \in Seq([Ids -> Statuses]) /\ Len(before') = Len(journal')
         /\ lagging' \in BOOLEAN
<1>1. /\ journal \in Seq(Entry) /\ before \in Seq([Ids -> Statuses])
      /\ Len(before) = Len(journal) /\ status \in [Ids -> Statuses]
      /\ stuck \in BOOLEAN /\ MaxEntries \in Nat
      /\ journal' = Append(journal, e) /\ before' = Append(before, status)
      /\ Len(journal) < MaxEntries
  BY MemoryAssumption DEF TypeOK, Append1, Journaled
<1>2. lagging' \in BOOLEAN
  BY <1>1, Zenon DEF Append1, Journaled
<1> HIDE DEF Entry, Statuses
<1>3. QED
  BY <1>1, <1>2

\* The fields of an entry that is not a rollback.
LEMMA BatchIs ==
  ASSUME NEW e \in Entry, e.op # "rollback"
  PROVE  /\ e.op \in {"consolidate", "evidence"} /\ e.by \in Runs \cup {None}
         /\ e.changes \in SUBSET Change /\ e.inserts \in SUBSET Ids
         /\ \A c \in e.changes : c.id \in Ids /\ c.from \in {"proposed", "confirmed"}
<1>1. e \in [op : {"consolidate", "evidence"}, by : Runs \cup {None},
             changes : SUBSET Change, inserts : SUBSET Ids]
  <2> HIDE DEF Change
  <2>1. QED
    BY DEF Entry
<1>2. e.changes \in SUBSET Change
  <2> HIDE DEF Change
  <2>1. QED
    BY <1>1
<1>3. \A c \in e.changes : c \in Change
  BY <1>2
<1>4. \A c \in e.changes : c.id \in Ids /\ c.from \in {"proposed", "confirmed"}
  BY <1>3 DEF Change
<1>5. QED
  BY <1>1, <1>2, <1>4

LEMMA AppliedIs ==
  ASSUME TypeOK, NEW changes, NEW inserts, Good(changes, inserts)
  PROVE  /\ Applied(changes, inserts) \in [Ids -> Statuses]
         /\ \A c \in changes : /\ Applied(changes, inserts)[c.id] = "archived"
                               /\ c.id \in Ids /\ status[c.id] \in {"proposed", "confirmed"}
         /\ \A i \in Ids : status[i] = "archived" => Applied(changes, inserts)[i] = "archived"
         /\ \A i \in Ids : status[i] = "confirmed" =>
              Applied(changes, inserts)[i] \in {"confirmed", "archived"}
<1>1. \A c \in changes : c.id \in Ids /\ c.from \in {"proposed", "confirmed"}
                         /\ status[c.id] = c.from
  BY DEF Good, Change
<1>2. \A i \in inserts : i \in Ids /\ status[i] = "unused"
  BY DEF Good
<1>3. status \in [Ids -> Statuses]
  BY DEF TypeOK
<1>4. QED
  BY <1>1, <1>2, <1>3 DEF Applied, Statuses

LEMMA EntryIs ==
  ASSUME NEW r \in Runs \cup {None}, NEW changes \in SUBSET Change, NEW inserts \in SUBSET Ids
  PROVE  /\ Consolidated(r, changes, inserts) \in Entry
         /\ Consolidated(r, changes, inserts).op \in {"consolidate", "evidence"}
         /\ Consolidated(r, changes, inserts).changes = changes
         /\ Consolidated(r, changes, inserts).inserts = inserts
         /\ Consolidated(r, changes, inserts).by = r
<1> DEFINE A == [op : {"consolidate", "evidence"}, by : Runs \cup {None},
                 changes : SUBSET Change, inserts : SUBSET Ids]
<1>1. Consolidated(r, changes, inserts) \in A
  <2> HIDE DEF Change
  <2>1. QED
    BY DEF Consolidated
<1>2. A \subseteq Entry
  BY DEF Entry
<1>3. QED
  BY <1>1, <1>2 DEF Consolidated

\* A batch is added to those that stand, and they are apart from it.
LEMMA BatchKeeps ==
  ASSUME IInv, NEW r \in Runs \cup {None}, NEW changes, NEW inserts,
         Good(changes, inserts), status' = Applied(changes, inserts),
         Append1(Consolidated(r, changes, inserts)), UNCHANGED <<confirmed, rejected>>
  PROVE  RowsOK' /\ DecisionsStand' /\ BatchesInv' /\ ReviewBoundary'
<1> DEFINE e == Consolidated(r, changes, inserts)
<1>1. TypeOK /\ DecisionsStand /\ BatchesInv /\ ReviewBoundary
  BY DEF IInv
<1>2. /\ e \in Entry /\ e.op \in {"consolidate", "evidence"}
      /\ e.changes = changes /\ e.inserts = inserts
  BY EntryIs DEF Good
<1>3. PICK L \in Nat :
      /\ L + 1 <= MaxEntries /\ DOMAIN journal = 1..L /\ DOMAIN journal' = 1..(L + 1)
      /\ \A n \in 1..L : journal'[n] = journal[n] /\ before'[n] = before[n]
      /\ journal'[L + 1] = e /\ before'[L + 1] = status
      /\ journal' \in Seq(Entry) /\ Len(journal') <= MaxEntries
      /\ before' \in Seq([Ids -> Statuses]) /\ Len(before') = Len(journal')
      /\ lagging' \in BOOLEAN
  BY <1>1, <1>2, Appended
<1>4. /\ status' \in [Ids -> Statuses]
      /\ \A c \in changes : /\ status'[c.id] = "archived"
                            /\ c.id \in Ids /\ status[c.id] \in {"proposed", "confirmed"}
      /\ \A i \in Ids : status[i] = "archived" => status'[i] = "archived"
      /\ \A i \in Ids : status[i] = "confirmed" => status'[i] \in {"confirmed", "archived"}
  BY <1>1, AppliedIs
<1> HIDE DEF e
<1>5. \A n \in 1..(L + 1) : n \in 1..L \/ n = L + 1
  BY <1>3
<1>6. \A n \in 1..L : n \in 1..(L + 1) /\ n # L + 1
  BY <1>3
<1>7. RowsOK'
  BY <1>3, <1>4 DEF RowsOK
<1>8. DecisionsStand'
  <2>1. \A i \in rejected : i \in Ids /\ status[i] = "archived"
    BY <1>1 DEF DecisionsStand, TypeOK
  <2>2. \A i \in confirmed : i \in Ids /\ status[i] \in {"confirmed", "archived"}
    BY <1>1 DEF DecisionsStand, TypeOK
  <2>3. QED
    BY <1>4, <2>1, <2>2 DEF DecisionsStand
<1>9. ReviewBoundary'
  <2>1. SUFFICES ASSUME NEW n \in 1..(L + 1), journal'[n].op = "consolidate",
                        NEW c \in journal'[n].changes, c.into # None
                 PROVE  /\ Part[c.into] = Part[c.id]
                        /\ \/ before'[n][c.into] = before'[n][c.id]
                           \/ before'[n][c.into] = "confirmed" /\ Key[c.into] = Key[c.id]
    BY <1>3 DEF ReviewBoundary, Batch
  <2>2. CASE n \in 1..L
    <3>1. /\ n \in DOMAIN journal /\ Batch(n) /\ c \in journal[n].changes
          /\ before'[n] = before[n]
      BY <1>3, <2>1, <2>2 DEF Batch
    <3>2. QED
      BY <1>1, <2>1, <3>1 DEF ReviewBoundary
  <2>3. CASE n = L + 1
    BY <1>2, <1>3, <2>1, <2>3 DEF Good, Within
  <2>4. QED
    BY <1>5, <2>2, <2>3
<1>10. \A n \in 1..L : RolledBack(n)' <=> RolledBack(n)
  BY <1>2, <1>3, <1>5, <1>6 DEF RolledBack
<1>11. \A n \in DOMAIN journal' : Batch(n)' => TellsBefore(n)'
  <2>1. SUFFICES ASSUME NEW n \in 1..(L + 1), Batch(n)' PROVE TellsBefore(n)'
    BY <1>3
  <2>2. CASE n \in 1..L
    <3>1. Batch(n) /\ TellsBefore(n)
      BY <1>1, <1>3, <2>1, <2>2 DEF BatchesInv, Batch
    <3>2. QED
      BY <1>3, <2>2, <3>1 DEF TellsBefore
  <2>3. CASE n = L + 1
    BY <1>2, <1>3, <2>3 DEF TellsBefore, Good
  <2>4. QED
    BY <1>5, <2>2, <2>3
<1>12. \A n \in 1..L : Standing(n)' => Standing(n) /\ Touched(n)' = Touched(n)
  BY <1>3, <1>10 DEF Standing, Batch, Touched
<1>13. \A n \in DOMAIN journal' : Standing(n)' => Holds(n)'
  <2>1. SUFFICES ASSUME NEW n \in 1..(L + 1), Standing(n)' PROVE Holds(n)'
    BY <1>3
  <2>2. CASE n \in 1..L
    <3>1. Standing(n) /\ Holds(n) /\ Batch(n)
      BY <1>1, <1>3, <1>12, <2>1, <2>2 DEF BatchesInv, Standing
    <3>2. \A c \in journal[n].changes : c.id \in Ids
      <4>1. journal[n] \in Entry
        BY <1>1, <1>3, <2>2 DEF TypeOK
      <4>2. QED
        BY <3>1, <4>1, BatchIs DEF Batch
    <3>3. QED
      BY <1>3, <1>4, <2>2, <3>1, <3>2 DEF Holds
  <2>3. CASE n = L + 1
    <3>1. \A c \in changes : /\ status'[c.id] = "archived" /\ c.id \notin rejected
                             /\ c.id \in confirmed => c.from = "confirmed"
      BY <1>1, <1>4 DEF DecisionsStand, Good
    <3>2. QED
      BY <1>2, <1>3, <2>3, <3>1 DEF Holds
  <2>4. QED
    BY <1>5, <2>2, <2>3
<1>14. Apart'
  <2>1. ASSUME NEW n \in 1..L, Standing(n) PROVE Touched(n) \cap {c.id : c \in changes} = {}
    <3>1. \A c \in journal[n].changes : status[c.id] = "archived"
      BY <1>1, <1>3, <2>1 DEF BatchesInv, Holds
    <3>2. \A c \in changes : status[c.id] # "archived"
      BY <1>4
    <3>3. QED
      BY <3>1, <3>2 DEF Touched
  <2>2. Touched(L + 1)' = {c.id : c \in changes}
    BY <1>2, <1>3 DEF Touched
  <2>3. SUFFICES ASSUME NEW m \in 1..(L + 1), NEW n \in 1..(L + 1), m # n,
                        Standing(m)', Standing(n)'
                 PROVE  Touched(m)' \cap Touched(n)' = {}
    BY <1>3 DEF Apart
  <2>4. CASE m \in 1..L /\ n \in 1..L
    BY <1>1, <1>3, <1>12, <2>3, <2>4 DEF BatchesInv, Apart
  <2>5. CASE m \in 1..L /\ n = L + 1
    BY <1>12, <2>1, <2>2, <2>3, <2>5
  <2>6. CASE m = L + 1 /\ n \in 1..L
    BY <1>12, <2>1, <2>2, <2>3, <2>6
  <2>7. QED
    BY <1>5, <2>3, <2>4, <2>5, <2>6
<1>15. QED
  BY <1>7, <1>8, <1>9, <1>11, <1>13, <1>14 DEF BatchesInv

\* Everything that only decides: no archived row changes, and the entries stay.
LEMMA DecisionKeeps ==
  ASSUME IInv, UNCHANGED <<journal, before>>, lagging' \in BOOLEAN,
         status' \in [Ids -> Statuses], rejected' \in SUBSET Ids, confirmed' \in SUBSET Ids,
         \A i \in Ids : status[i] = "archived" => status'[i] = "archived",
         \A i \in confirmed : status'[i] = status[i],
         \A i \in confirmed' \ confirmed : status[i] = "proposed" /\ status'[i] = "confirmed",
         \A i \in rejected' \ rejected : status[i] = "proposed" /\ status'[i] = "archived"
  PROVE  RowsOK' /\ DecisionsStand' /\ BatchesInv' /\ ReviewBoundary'
<1>1. TypeOK /\ DecisionsStand /\ BatchesInv /\ ReviewBoundary
  BY DEF IInv
<1>2. confirmed \subseteq Ids /\ rejected \subseteq Ids
  BY <1>1 DEF TypeOK
<1>3. RowsOK'
  BY <1>1 DEF TypeOK, RowsOK
<1>4. DecisionsStand'
  BY <1>1, <1>2 DEF DecisionsStand
<1>5. ReviewBoundary'
  BY <1>1 DEF ReviewBoundary, Batch
<1>6. \A n \in DOMAIN journal' : Batch(n)' => TellsBefore(n)'
  BY <1>1 DEF BatchesInv, Batch, TellsBefore
<1>7. \A n : /\ Standing(n)' <=> Standing(n)
             /\ Touched(n)' = Touched(n)
  BY DEF Standing, Batch, RolledBack, Touched
<1>8. \A n \in DOMAIN journal' : Standing(n)' => Holds(n)'
  <2>1. SUFFICES ASSUME NEW n \in DOMAIN journal, Standing(n) PROVE Holds(n)'
    BY <1>7
  <2>2. \A c \in journal[n].changes :
          /\ status[c.id] = "archived" /\ c.id \notin rejected
          /\ c.id \in confirmed => c.from = "confirmed"
    BY <1>1, <2>1 DEF BatchesInv, Holds
  <2>3. journal[n] \in Entry /\ journal[n].op # "rollback"
    BY <1>1, <2>1 DEF TypeOK, Standing, Batch
  <2>4. \A c \in journal[n].changes : c.id \in Ids
    BY <2>3, BatchIs
  <2>5. \A c \in journal[n].changes :
          /\ status'[c.id] = "archived" /\ c.id \notin rejected'
          /\ c.id \in confirmed' => c.id \in confirmed
    BY <2>2, <2>4
  <2>6. QED
    BY <2>2, <2>5 DEF Holds
<1>9. Apart'
  BY <1>1, <1>7 DEF BatchesInv, Apart
<1>10. QED
  BY <1>3, <1>4, <1>5, <1>6, <1>8, <1>9 DEF BatchesInv

\* A rollback restores the rows of one batch, which no other batch holds.
Restored(n) ==
  [i \in Ids |->
     IF i \in journal[n].inserts THEN "deleted"
     ELSE IF i \in Touched(n)
          THEN (CHOOSE c \in journal[n].changes : c.id = i).from
          ELSE status[i]]

LEMMA RestoredIs ==
  ASSUME IInv, NEW n \in DOMAIN journal, Standing(n), Untouched(n)
  PROVE  /\ Restored(n) \in [Ids -> Statuses]
         /\ \A c \in journal[n].changes :
              c.id \in Ids /\ Restored(n)[c.id] = c.from /\ c.from = before[n][c.id]
         /\ \A i \in Ids : i \notin Touched(n) /\ Restored(n)[i] # status[i]
                           => status[i] = "proposed"
<1>1. /\ journal[n] \in Entry /\ journal[n].op # "rollback" /\ TellsBefore(n)
      /\ status \in [Ids -> Statuses]
  BY DEF IInv, TypeOK, BatchesInv, Standing, Batch
<1>2. /\ \A c \in journal[n].changes : c.id \in Ids /\ c.from \in {"proposed", "confirmed"}
      /\ journal[n].inserts \subseteq Ids
  BY <1>1, BatchIs
<1>3. /\ \A c \in journal[n].changes : c.from = before[n][c.id]
      /\ \A c, e \in journal[n].changes : c.id = e.id => c = e
      /\ \A i \in journal[n].inserts : before[n][i] = "unused"
  BY <1>1 DEF TellsBefore
<1>4. \A c \in journal[n].changes :
        /\ c.id \notin journal[n].inserts
        /\ (CHOOSE e \in journal[n].changes : e.id = c.id) = c
  BY <1>2, <1>3
<1>5. \A c \in journal[n].changes : Restored(n)[c.id] = c.from
  BY <1>2, <1>4 DEF Restored, Touched
<1>6. \A i \in Touched(n) : \E c \in journal[n].changes : i = c.id
  BY DEF Touched
<1>7. \A i \in Ids : Restored(n)[i] \in Statuses
  <2>1. SUFFICES ASSUME NEW i \in Ids PROVE Restored(n)[i] \in Statuses
    OBVIOUS
  <2>2. CASE i \in Touched(n)
    BY <1>2, <1>5, <1>6, <2>2 DEF Statuses
  <2>3. CASE i \notin Touched(n)
    BY <1>1, <2>3 DEF Restored, Statuses
  <2>4. QED
    BY <2>2, <2>3
<1>8. \A i \in Ids : i \notin Touched(n) /\ Restored(n)[i] # status[i]
                     => status[i] = "proposed"
  BY DEF Restored, Untouched
<1>9. Restored(n) \in [Ids -> Statuses]
  BY <1>7 DEF Restored
<1>10. QED
  BY <1>2, <1>3, <1>5, <1>8, <1>9

LEMMA RollbackKeeps ==
  ASSUME IInv, NEW n \in DOMAIN journal, Standing(n), Untouched(n),
         status' = Restored(n), Append1([op |-> "rollback", target |-> n]),
         UNCHANGED <<confirmed, rejected>>
  PROVE  RowsOK' /\ DecisionsStand' /\ BatchesInv' /\ ReviewBoundary'
<1> DEFINE e == [op |-> "rollback", target |-> n]
<1>1. TypeOK /\ DecisionsStand /\ BatchesInv /\ ReviewBoundary
  BY DEF IInv
<1>2. e \in Entry /\ e.op = "rollback" /\ e.target = n
  <2>1. n \in 1..MaxEntries
    BY <1>1, MemoryAssumption DEF TypeOK
  <2> HIDE DEF Change
  <2>2. QED
    BY <2>1 DEF Entry
<1>3. PICK L \in Nat :
      /\ L + 1 <= MaxEntries /\ DOMAIN journal = 1..L /\ DOMAIN journal' = 1..(L + 1)
      /\ \A k \in 1..L : journal'[k] = journal[k] /\ before'[k] = before[k]
      /\ journal'[L + 1] = e /\ before'[L + 1] = status
      /\ journal' \in Seq(Entry) /\ Len(journal') <= MaxEntries
      /\ before' \in Seq([Ids -> Statuses]) /\ Len(before') = Len(journal')
      /\ lagging' \in BOOLEAN
  BY <1>1, <1>2, Appended
<1> HIDE DEF e
<1>4. /\ status' \in [Ids -> Statuses]
      /\ \A c \in journal[n].changes : c.id \in Ids /\ status'[c.id] = c.from
      /\ \A i \in Ids : i \notin Touched(n) /\ status'[i] # status[i] => status[i] = "proposed"
  BY RestoredIs
<1>5. \A k \in 1..(L + 1) : k \in 1..L \/ k = L + 1
  BY <1>3
<1>6. \A k \in 1..L : k \in 1..(L + 1) /\ k # L + 1
  BY <1>3
<1>7. \A k \in DOMAIN journal' : journal'[k].op # "rollback" => k \in 1..L
  BY <1>2, <1>3, <1>5
<1>8. Holds(n) /\ \A i \in Touched(n) : \E c \in journal[n].changes : i = c.id
  BY <1>1 DEF BatchesInv, Touched
<1>9. RowsOK'
  BY <1>3, <1>4 DEF RowsOK
<1>10. DecisionsStand'
  <2>1. \A i \in rejected : i \in Ids /\ status[i] = "archived"
    BY <1>1 DEF DecisionsStand, TypeOK
  <2>2. \A i \in confirmed : i \in Ids /\ status[i] \in {"confirmed", "archived"}
    BY <1>1 DEF DecisionsStand, TypeOK
  <2>3. \A i \in rejected : i \notin Touched(n)
    BY <1>8 DEF Holds
  <2>4. \A i \in confirmed : i \in Touched(n) => status'[i] = "confirmed"
    BY <1>4, <1>8 DEF Holds
  <2>5. \A i \in rejected : status'[i] = "archived"
    BY <1>4, <2>1, <2>3
  <2>6. \A i \in confirmed : status'[i] \in {"confirmed", "archived"}
    BY <1>4, <2>2, <2>4
  <2>7. QED
    BY <2>5, <2>6 DEF DecisionsStand
<1>11. ReviewBoundary'
  <2>1. SUFFICES ASSUME NEW k \in DOMAIN journal', journal'[k].op = "consolidate",
                        NEW c \in journal'[k].changes, c.into # None
                 PROVE  /\ Part[c.into] = Part[c.id]
                        /\ \/ before'[k][c.into] = before'[k][c.id]
                           \/ before'[k][c.into] = "confirmed" /\ Key[c.into] = Key[c.id]
    BY DEF ReviewBoundary, Batch
  <2>2. k \in DOMAIN journal /\ Batch(k) /\ c \in journal[k].changes /\ before'[k] = before[k]
    BY <1>3, <1>7, <2>1 DEF Batch
  <2>3. QED
    BY <1>1, <2>1, <2>2 DEF ReviewBoundary
<1>12. \A k \in DOMAIN journal' : Batch(k)' => TellsBefore(k)'
  <2>1. SUFFICES ASSUME NEW k \in DOMAIN journal', Batch(k)' PROVE TellsBefore(k)'
    OBVIOUS
  <2>2. k \in 1..L
    BY <1>7, <2>1 DEF Batch
  <2>3. Batch(k) /\ TellsBefore(k)
    BY <1>1, <1>3, <2>1, <2>2 DEF BatchesInv, Batch
  <2>4. QED
    BY <1>3, <2>2, <2>3 DEF TellsBefore
<1>13. ASSUME NEW k \in DOMAIN journal', Standing(k)'
       PROVE  /\ k \in DOMAIN journal /\ journal'[k] = journal[k]
              /\ Standing(k) /\ k # n /\ Touched(k)' = Touched(k)
  <2>1. k \in 1..L /\ journal'[k] = journal[k]
    BY <1>3, <1>7, <1>13 DEF Standing, Batch
  <2>2. Batch(k) /\ ~RolledBack(k)'
    BY <1>13, <2>1 DEF Standing, Batch
  <2>3. k # n
    BY <1>2, <1>3, <2>2 DEF RolledBack
  <2>4. ~RolledBack(k)
    BY <1>3, <1>6, <2>2 DEF RolledBack
  <2>5. QED
    BY <1>3, <2>1, <2>2, <2>3, <2>4 DEF Standing, Touched
<1>14. \A k \in DOMAIN journal' : Standing(k)' => Holds(k)'
  <2>1. SUFFICES ASSUME NEW k \in DOMAIN journal', Standing(k)' PROVE Holds(k)'
    OBVIOUS
  <2>2. /\ k \in DOMAIN journal /\ journal'[k] = journal[k] /\ Standing(k) /\ k # n
    BY <1>13, <2>1
  <2>3. Holds(k) /\ Touched(k) \cap Touched(n) = {}
    BY <1>1, <2>2 DEF BatchesInv, Apart
  <2>4. \A c \in journal[k].changes : c.id \in Ids
    <3>1. journal[k] \in Entry /\ journal[k].op # "rollback"
      BY <1>1, <2>2 DEF TypeOK, Standing, Batch
    <3>2. QED
      BY <3>1, BatchIs
  <2>5. \A c \in journal[k].changes : c.id \notin Touched(n)
    BY <2>3 DEF Touched
  <2>6. \A c \in journal[k].changes : status'[c.id] = "archived"
    BY <1>4, <2>3, <2>4, <2>5 DEF Holds
  <2>7. QED
    BY <2>2, <2>3, <2>6 DEF Holds
<1>15. Apart'
  <2>1. SUFFICES ASSUME NEW k \in DOMAIN journal', NEW m \in DOMAIN journal', k # m,
                        Standing(k)', Standing(m)'
                 PROVE  Touched(k)' \cap Touched(m)' = {}
    BY DEF Apart
  <2>2. /\ k \in DOMAIN journal /\ Standing(k) /\ Touched(k)' = Touched(k)
        /\ m \in DOMAIN journal /\ Standing(m) /\ Touched(m)' = Touched(m)
    BY <1>13, <2>1
  <2>3. QED
    BY <1>1, <2>1, <2>2 DEF BatchesInv, Apart
<1>16. QED
  BY <1>9, <1>10, <1>11, <1>12, <1>14, <1>15 DEF BatchesInv

-----------------------------------------------------------------------------
(* The runs.                                                               *)

RunTyped == run \in [Runs -> [todo : Seq(SUBSET Ids), awaiting : BOOLEAN,
                              receipts : Nat, changed : Nat, ended : Endings]]

LEMMA IdsFinite == IsFiniteSet(Ids)
<1> DEFINE L == Len(Listing)
<1>1. L \in Nat /\ Listing \in [1..L -> Ids] /\ Ids = {Listing[n] : n \in 1..L}
  BY MemoryAssumption DEF ToSet
<1>2. Listing \in Surjection(1..L, Ids)
  <2>1. \A i \in Ids : \E n \in 1..L : Listing[n] = i
    BY <1>1
  <2>2. QED
    BY <1>1, <2>1 DEF Surjection
<1> HIDE DEF L
<1>3. IsFiniteSet(1..L)
  <2>1. 1 \in Int /\ L \in Int
    BY <1>1
  <2>2. QED
    BY <2>1, FS_Interval
<1>4. QED
  BY <1>2, <1>3, FS_Surjection

LEMMA CountsAreNat ==
  ASSUME NEW changes, NEW inserts, Good(changes, inserts)
  PROVE  Cardinality(changes) + Cardinality(inserts) \in Nat
<1> DEFINE f == [c \in changes |-> c.id]
<1>1. f \in Injection(changes, Ids)
  BY DEF Good, Change, Injection, IsInjective
<1>2. IsFiniteSet(changes)
  <2> HIDE DEF f
  <2>1. QED
    BY <1>1, IdsFinite, FS_Injection
<1>3. IsFiniteSet(inserts)
  BY IdsFinite, FS_Subset DEF Good
<1>4. Cardinality(changes) \in Nat /\ Cardinality(inserts) \in Nat
  BY <1>2, <1>3, FS_CardinalityType
<1>5. QED
  BY <1>4

LEMMA Quotient ==
  ASSUME NEW k \in Nat, NEW m \in Nat, k >= 1, m >= 1
  PROVE  (k + m - 1) \div m \in Nat /\ (k + m - 1) \div m >= 1
OBVIOUS

LEMMA RunStarts ==
  ASSUME IInv, NEW r \in Runs, OracleStart(r)
  PROVE  RunTyped' /\ RunsInv'
<1> DEFINE K == (Cardinality(Active) + MaxBatch - 1) \div MaxBatch
           b(n) == {i \in Active : Earlier(i) \div MaxBatch = n - 1}
<1>1. K \in Nat /\ K >= 1
  <2>1. Active \in SUBSET Ids /\ Active # {}
    BY DEF Active, OracleStart
  <2>2. IsFiniteSet(Active)
    BY <2>1, IdsFinite, FS_Subset
  <2>3. Cardinality(Active) \in Nat /\ Cardinality(Active) # 0
    BY <2>1, <2>2, FS_CardinalityType, FS_EmptySet
  <2>4. MaxBatch \in Nat /\ MaxBatch >= 1 /\ Cardinality(Active) >= 1
    BY <2>3, MemoryAssumption
  <2>5. QED
    BY <2>3, <2>4, Quotient
<1>2. \A n \in 1..K : b(n) \in SUBSET Ids
  BY DEF Active
<1>3. Batches = [n \in 1..K |-> b(n)]
  BY DEF Batches
<1>4. Batches \in Seq(SUBSET Ids) /\ Batches # <<>>
  <2> HIDE DEF K, b
  <2>1. QED
    BY <1>1, <1>2, <1>3
<1>5. /\ run' = [run EXCEPT ![r].todo = Batches, ![r].awaiting = TRUE]
      /\ run[r].ended = "none" /\ run \in [Runs -> [todo : Seq(SUBSET Ids),
           awaiting : BOOLEAN, receipts : Nat, changed : Nat, ended : Endings]]
  BY DEF OracleStart, IInv, TypeOK
<1>6. RunTyped'
  BY <1>4, <1>5 DEF RunTyped
<1>7. RunsInv'
  <2>1. SUFFICES ASSUME NEW q \in Runs, run'[q].awaiting
                 PROVE  run'[q].ended = "none" /\ run'[q].todo # <<>>
    BY DEF RunsInv
  <2>2. CASE q = r
    BY <1>4, <1>5, <2>2
  <2>3. CASE q # r
    BY <1>5, <2>1, <2>3 DEF IInv, RunsInv
  <2>4. QED
    BY <2>2, <2>3
<1>8. QED
  BY <1>6, <1>7

LEMMA TailIs ==
  ASSUME NEW S, NEW s \in Seq(S), s # <<>>
  PROVE  Tail(s) \in Seq(S) /\ (Len(s) > 1 => Tail(s) # <<>>)
<1>1. Len(s) \in Nat /\ Len(s) # 0
  OBVIOUS
<1>2. Tail(s) \in Seq(S) /\ Len(Tail(s)) = Len(s) - 1
  BY <1>1
<1>3. Len(s) > 1 => Len(Tail(s)) # 0
  BY <1>1, <1>2
<1>4. Len(<< >>) = 0
  OBVIOUS
<1>5. QED
  BY <1>2, <1>3, <1>4, Zenon

LEMMA RunGoesOn ==
  ASSUME IInv, NEW r \in Runs, run[r].awaiting, NEW n \in Nat, NEW k \in Nat,
         NEW ending \in Endings, ending = "none" => Len(run[r].todo) > 1,
         BatchDone(r, n, k, ending)
  PROVE  /\ RunTyped' /\ RunsInv'
         /\ run'[r].changed = run[r].changed + n /\ run'[r].receipts = run[r].receipts + k
         /\ run'[r].ended = ending
         /\ \A q \in Runs : q # r => run'[q] = run[q]
<1> DEFINE rest == Tail(run[r].todo)
           State == [todo : Seq(SUBSET Ids), awaiting : BOOLEAN, receipts : Nat,
                     changed : Nat, ended : Endings]
<1>1. run \in [Runs -> State] /\ run[r] \in State
  BY DEF IInv, TypeOK
<1>2. /\ run[r].todo \in Seq(SUBSET Ids) /\ run[r].todo # <<>>
      /\ run[r].changed \in Nat /\ run[r].receipts \in Nat
  BY <1>1 DEF IInv, RunsInv
<1>3. rest \in Seq(SUBSET Ids) /\ (Len(run[r].todo) > 1 => rest # <<>>)
  BY <1>2, TailIs
<1>4. run[r].changed + n \in Nat /\ run[r].receipts + k \in Nat
  BY <1>2
<1>5. run' = [run EXCEPT ![r].todo = rest, ![r].receipts = run[r].receipts + k,
                ![r].changed = run[r].changed + n,
                ![r].ended = ending, ![r].awaiting = ending = "none"]
  BY DEF BatchDone
<1> HIDE DEF rest
<1>6. /\ run'[r] \in State /\ run'[r].todo = rest /\ run'[r].ended = ending
      /\ run'[r].changed = run[r].changed + n /\ run'[r].receipts = run[r].receipts + k
      /\ run'[r].awaiting <=> ending = "none"
  <2> DEFINE more == ending = "none"
             now == run[r].changed + n
             held == run[r].receipts + k
  <2>1. more \in BOOLEAN /\ now \in Nat /\ held \in Nat
    BY <1>4
  <2>2. run' = [run EXCEPT ![r].todo = rest, ![r].receipts = held, ![r].changed = now,
                  ![r].ended = ending, ![r].awaiting = more]
    BY <1>5
  <2> HIDE DEF more, now, held
  <2>3. run'[r] = [run[r] EXCEPT !.todo = rest, !.receipts = held, !.changed = now,
                     !.ended = ending, !.awaiting = more]
    BY <1>1, <2>2
  <2>4. run'[r] \in State /\ run'[r].todo = rest /\ run'[r].ended = ending
        /\ run'[r].changed = now /\ run'[r].receipts = held /\ run'[r].awaiting = more
    BY <1>1, <1>3, <2>1, <2>3
  <2>5. QED
    BY <2>4 DEF more, now, held
<1>7. \A q \in Runs : q # r => run'[q] = run[q]
  BY <1>1, <1>5
<1>8. RunTyped'
  <2>1. run' \in [Runs -> State]
    BY <1>1, <1>5, <1>6, <1>7
  <2>2. QED
    BY <2>1 DEF RunTyped
<1>9. RunsInv'
  BY <1>3, <1>6, <1>7 DEF RunsInv, IInv
<1>10. QED
  BY <1>6, <1>7, <1>8, <1>9

\* A batch returns and is counted, or throws and is not.
LEMMA RunSettles ==
  ASSUME IInv, NEW r \in Runs, run[r].awaiting, NEW n \in Nat, Settles(r, n)
  PROVE  /\ RunTyped' /\ RunsInv'
         /\ \A q \in Runs : q # r => run'[q] = run[q]
         /\ \/ /\ run'[r].changed = run[r].changed + n
               /\ run'[r].receipts = run[r].receipts + 1
               /\ run'[r].ended \in {"none", "complete", "committed-unanchored"}
            \/ /\ run'[r].changed = run[r].changed
               /\ run'[r].receipts = run[r].receipts
               /\ run'[r].ended = Thrown(r)
<1>1. run[r].changed \in Nat /\ run[r].receipts \in Nat
  BY DEF IInv, TypeOK
<1>2. CASE BatchDone(r, n, 1, Ending(r))
  <2>1. /\ Ending(r) \in {"none", "complete", "committed-unanchored"}
        /\ Ending(r) \in Endings /\ (Ending(r) = "none" => Len(run[r].todo) > 1)
    BY DEF Ending, NextBatch, Endings
  <2>2. QED
    BY <1>2, <2>1, RunGoesOn
<1>3. CASE BatchDone(r, 0, 0, Thrown(r))
  <2>1. Thrown(r) \in Endings /\ Thrown(r) # "none"
    BY DEF Thrown, Endings
  <2>2. /\ RunTyped' /\ RunsInv'
        /\ run'[r].changed = run[r].changed + 0 /\ run'[r].receipts = run[r].receipts + 0
        /\ run'[r].ended = Thrown(r)
        /\ \A q \in Runs : q # r => run'[q] = run[q]
    BY <1>3, <2>1, RunGoesOn
  <2>3. QED
    BY <1>1, <2>2
<1>4. QED
  BY <1>2, <1>3 DEF Settles

-----------------------------------------------------------------------------
(* The steps.                                                              *)

LEMMA Initial == Init => IInv
<1> SUFFICES ASSUME Init PROVE IInv
  OBVIOUS
<1>1. status \in [Ids -> Statuses]
  BY MemoryAssumption DEF Init, Statuses
<1>2. NoRun \in [todo : Seq(SUBSET Ids), awaiting : BOOLEAN, receipts : Nat,
                changed : Nat, ended : Endings]
  BY DEF NoRun, Endings
<1>3. TypeOK
  <2> HIDE DEF Entry, NoRun, Endings, Statuses
  <2>1. journal \in Seq(Entry) /\ Len(journal) = 0
    BY DEF Init
  <2>2. before \in Seq([Ids -> Statuses]) /\ Len(before) = 0
    BY DEF Init
  <2>3. run \in [Runs -> [todo : Seq(SUBSET Ids), awaiting : BOOLEAN,
                          receipts : Nat, changed : Nat, ended : Endings]]
    BY <1>2 DEF Init
  <2>4. stuck \in BOOLEAN /\ lagging \in BOOLEAN /\ confirmed \subseteq Ids /\ rejected \subseteq Ids
    BY DEF Init
  <2>5. 0 <= MaxEntries
    BY MemoryAssumption
  <2>6. QED
    BY <1>1, <2>1, <2>2, <2>3, <2>4, <2>5 DEF TypeOK
<1>4. DecisionsStand
  BY DEF Init, DecisionsStand
<1>5. BatchesInv /\ ReviewBoundary
  BY DEF Init, BatchesInv, Apart, ReviewBoundary
<1>6. RunsInv
  BY DEF Init, RunsInv, NoRun
<1>7. QED
  BY <1>3, <1>4, <1>5, <1>6 DEF IInv

\* The pieces of the invariant.
LEMMA Pieces ==
  ASSUME RowsOK', DecisionsStand', BatchesInv', ReviewBoundary', RunTyped', RunsInv',
         stuck' \in BOOLEAN, confirmed' \in SUBSET Ids, rejected' \in SUBSET Ids
  PROVE  IInv'
<1>1. TypeOK'
  BY DEF TypeOK, RowsOK, RunTyped
<1>2. QED
  BY <1>1 DEF IInv

LEMMA SameRuns ==
  ASSUME IInv, UNCHANGED run PROVE RunTyped' /\ RunsInv'
BY DEF IInv, TypeOK, RunTyped, RunsInv

LEMMA SameRows ==
  ASSUME IInv, UNCHANGED <<rows, confirmed, rejected>>
  PROVE  RowsOK' /\ DecisionsStand' /\ BatchesInv' /\ ReviewBoundary'
<1>1. /\ UNCHANGED <<journal, before>> /\ lagging' \in BOOLEAN
      /\ status' \in [Ids -> Statuses] /\ status' = status
      /\ rejected' \in SUBSET Ids /\ confirmed' \in SUBSET Ids
      /\ rejected' = rejected /\ confirmed' = confirmed
  BY DEF IInv, TypeOK, rows
<1>2. QED
  BY <1>1, DecisionKeeps

LEMMA WriteKeeps == ASSUME IInv, Write PROVE IInv'
<1>1. PICK i \in Ids, s \in {"proposed", "confirmed"} :
        status[i] = "unused" /\ status' = [status EXCEPT ![i] = s]
  BY DEF Write
<1>2. TypeOK /\ DecisionsStand
  BY DEF IInv
<1>3. /\ UNCHANGED <<journal, before>> /\ lagging' \in BOOLEAN /\ stuck' \in BOOLEAN
      /\ status' \in [Ids -> Statuses] /\ rejected' \in SUBSET Ids /\ confirmed' \in SUBSET Ids
      /\ rejected' = rejected /\ confirmed' = confirmed /\ run' = run
  BY <1>1, <1>2 DEF Write, Unjournaled, Journaled, TypeOK, Statuses
<1>4. \A j \in Ids : status[j] # "unused" => status'[j] = status[j]
  BY <1>1, <1>2 DEF TypeOK
<1>5. \A j \in confirmed : j \in Ids /\ status[j] # "unused"
  BY <1>2 DEF TypeOK, DecisionsStand
<1>6. RowsOK' /\ DecisionsStand' /\ BatchesInv' /\ ReviewBoundary'
  BY <1>3, <1>4, <1>5, DecisionKeeps
<1>7. QED
  BY <1>3, <1>6, SameRuns, Pieces

LEMMA TransitionIs ==
  ASSUME IInv, NEW ids \in SUBSET Ids, NEW to \in {"confirmed", "archived"},
         Transition(ids, to)
  PROVE  /\ UNCHANGED <<journal, before, stuck, run>>
         /\ lagging' \in BOOLEAN /\ stuck' \in BOOLEAN /\ status' \in [Ids -> Statuses]
         /\ \A i \in ids : status[i] = "proposed" /\ status'[i] = to
         /\ \A i \in Ids : status[i] = "archived" => status'[i] = "archived"
         /\ \A i \in confirmed : status'[i] = status[i]
         /\ confirmed \in SUBSET Ids /\ rejected \in SUBSET Ids
<1>1. TypeOK /\ DecisionsStand
  BY DEF IInv
<1>2. /\ \A i \in ids : status[i] = "proposed"
      /\ status' = [i \in Ids |-> IF i \in ids THEN to ELSE status[i]]
      /\ UNCHANGED <<journal, before, stuck, run>> /\ lagging' \in {stuck, TRUE}
  BY DEF Transition, Unjournaled, Journaled
<1>3. \A i \in confirmed : i \in Ids /\ status[i] # "proposed"
  BY <1>1 DEF TypeOK, DecisionsStand
<1>4. status' \in [Ids -> Statuses]
  BY <1>1, <1>2 DEF TypeOK, Statuses
<1>5. QED
  BY <1>1, <1>2, <1>3, <1>4 DEF TypeOK

LEMMA ConfirmKeeps == ASSUME IInv, Confirm PROVE IInv'
<1>1. PICK ids \in SUBSET Ids : /\ Transition(ids, "confirmed")
                                /\ confirmed' = confirmed \cup ids /\ rejected' = rejected
  BY DEF Confirm
<1>2. /\ UNCHANGED <<journal, before, stuck, run>>
      /\ lagging' \in BOOLEAN /\ stuck' \in BOOLEAN /\ status' \in [Ids -> Statuses]
      /\ \A i \in ids : status[i] = "proposed" /\ status'[i] = "confirmed"
      /\ \A i \in Ids : status[i] = "archived" => status'[i] = "archived"
      /\ \A i \in confirmed : status'[i] = status[i]
      /\ confirmed \in SUBSET Ids /\ rejected \in SUBSET Ids
  BY <1>1, TransitionIs
<1>3. RowsOK' /\ DecisionsStand' /\ BatchesInv' /\ ReviewBoundary'
  BY <1>1, <1>2, DecisionKeeps
<1>4. QED
  BY <1>1, <1>2, <1>3, SameRuns, Pieces

LEMMA RejectKeeps == ASSUME IInv, Reject PROVE IInv'
<1>1. PICK ids \in SUBSET Ids : /\ Transition(ids, "archived")
                                /\ rejected' = rejected \cup ids /\ confirmed' = confirmed
  BY DEF Reject
<1>2. /\ UNCHANGED <<journal, before, stuck, run>>
      /\ lagging' \in BOOLEAN /\ stuck' \in BOOLEAN /\ status' \in [Ids -> Statuses]
      /\ \A i \in ids : status[i] = "proposed" /\ status'[i] = "archived"
      /\ \A i \in Ids : status[i] = "archived" => status'[i] = "archived"
      /\ \A i \in confirmed : status'[i] = status[i]
      /\ confirmed \in SUBSET Ids /\ rejected \in SUBSET Ids
  BY <1>1, TransitionIs
<1>3. RowsOK' /\ DecisionsStand' /\ BatchesInv' /\ ReviewBoundary'
  BY <1>1, <1>2, DecisionKeeps
<1>4. QED
  BY <1>1, <1>2, <1>3, SameRuns, Pieces

LEMMA Untouched1 ==
  ASSUME IInv, UNCHANGED <<confirmed, rejected, stuck>>
  PROVE  stuck' \in BOOLEAN /\ confirmed' \in SUBSET Ids /\ rejected' \in SUBSET Ids
BY DEF IInv, TypeOK

LEMMA DeterministicKeeps == ASSUME IInv, RunDeterministic PROVE IInv'
<1> DEFINE rest == Active \ {c.id : c \in ExactDupes}
           near == NearDupes(rest)
           of(faded) == ExactDupes \cup near \cup {Archive(i, None) : i \in faded}
<1>1. PICK faded \in SUBSET (rest \ {c.id : c \in near}) :
        /\ status' = Applied(of(faded), {})
        /\ Append1(Consolidated(None, of(faded), {}))
        /\ UNCHANGED <<stuck, run, confirmed, rejected>>
  BY DEF RunDeterministic
<1>2. Good(of(faded), {})
  BY PassIsGood DEF IInv
<1> HIDE DEF of
<1>3. RowsOK' /\ DecisionsStand' /\ BatchesInv' /\ ReviewBoundary'
  BY <1>1, <1>2, BatchKeeps
<1>4. QED
  BY <1>1, <1>3, SameRuns, Untouched1, Pieces

LEMMA AnsweredKeeps ==
  ASSUME IInv, NEW r \in Runs, OracleApplies(r) PROVE IInv'
<1>1. PICK answer \in Answers(Head(run[r].todo)), flagged \in BOOLEAN,
           inserts \in SUBSET {i \in Ids : status[i] = "unused"} :
        LET changes == Merges(answer) \cup Archives(answer) IN
          IF changes # {} \/ inserts # {} \/ Skipped(answer) \/ flagged
          THEN /\ status' = Applied(changes, inserts)
               /\ Append1(Consolidated(r, changes, inserts))
               /\ Settles(r, Cardinality(changes) + Cardinality(inserts))
          ELSE /\ BatchDone(r, 0, 0, NextBatch(r))
               /\ UNCHANGED rows
  BY DEF OracleApplies
<1> DEFINE changes == Merges(answer) \cup Archives(answer)
           noted == changes # {} \/ inserts # {} \/ Skipped(answer) \/ flagged
<1>2. run[r].awaiting /\ UNCHANGED <<stuck, confirmed, rejected>>
  BY DEF OracleApplies
<1>3. Good(changes, inserts)
  <2>1. Head(run[r].todo) \in SUBSET Ids
    <3>1. run[r].todo \in Seq(SUBSET Ids) /\ run[r].todo # <<>>
      BY <1>2 DEF IInv, TypeOK, RunsInv
    <3>2. QED
      BY <3>1
  <2>2. QED
    BY <2>1, AnswerIsGood DEF IInv
<1>4. NextBatch(r) \in Endings /\ (NextBatch(r) = "none" => Len(run[r].todo) > 1)
  BY DEF NextBatch, Endings
<1>5. CASE noted
  <2>1. /\ status' = Applied(changes, inserts)
        /\ Append1(Consolidated(r, changes, inserts))
        /\ Settles(r, Cardinality(changes) + Cardinality(inserts))
    BY <1>1, <1>5
  <2> HIDE DEF changes
  <2>2. RowsOK' /\ DecisionsStand' /\ BatchesInv' /\ ReviewBoundary'
    BY <1>2, <1>3, <2>1, BatchKeeps
  <2>3. RunTyped' /\ RunsInv'
    BY <1>2, <1>3, <2>1, CountsAreNat, RunSettles
  <2>4. QED
    BY <1>2, <2>2, <2>3, Untouched1, Pieces
<1>6. CASE ~noted
  <2>1. BatchDone(r, 0, 0, NextBatch(r)) /\ UNCHANGED rows
    BY <1>1, <1>6
  <2>2. RowsOK' /\ DecisionsStand' /\ BatchesInv' /\ ReviewBoundary'
    BY <1>2, <2>1, SameRows
  <2>3. RunTyped' /\ RunsInv'
    BY <1>2, <1>4, <2>1, RunGoesOn
  <2>4. QED
    BY <1>2, <2>2, <2>3, Untouched1, Pieces
<1>7. QED
  BY <1>5, <1>6

\* An entry with nothing in it leaves the rows as they are.
LEMMA NothingIsGood ==
  ASSUME TypeOK PROVE Good({}, {}) /\ Applied({}, {}) = status
BY DEF Good, Applied, TypeOK

LEMMA RefusedAnswerKeeps ==
  ASSUME IInv, NEW r \in Runs, OracleRejected(r) PROVE IInv'
<1>1. /\ run[r].awaiting /\ Append1(Consolidated(r, {}, {}))
      /\ Settles(r, 0) /\ UNCHANGED <<status, stuck, confirmed, rejected>>
  BY DEF OracleRejected
<1>2. Good({}, {}) /\ status' = Applied({}, {})
  BY <1>1, NothingIsGood DEF IInv
<1>3. RowsOK' /\ DecisionsStand' /\ BatchesInv' /\ ReviewBoundary'
  BY <1>1, <1>2, BatchKeeps
<1>4. RunTyped' /\ RunsInv'
  BY <1>1, RunSettles
<1>5. QED
  BY <1>1, <1>3, <1>4, Untouched1, Pieces

LEMMA RefusedKeeps ==
  ASSUME IInv, NEW r \in Runs, OracleRefused(r) PROVE IInv'
<1>1. /\ run[r].awaiting /\ BatchDone(r, 0, 0, Thrown(r))
      /\ UNCHANGED <<rows, stuck, confirmed, rejected>>
  BY DEF OracleRefused
<1>2. Thrown(r) \in Endings /\ Thrown(r) # "none"
  BY DEF Thrown, Endings
<1>3. RunTyped' /\ RunsInv'
  BY <1>1, <1>2, RunGoesOn
<1>4. QED
  BY <1>1, <1>3, SameRows, Untouched1, Pieces

LEMMA StartKeeps ==
  ASSUME IInv, NEW r \in Runs, OracleStart(r) PROVE IInv'
<1>1. UNCHANGED <<rows, stuck, confirmed, rejected>>
  BY DEF OracleStart
<1>2. QED
  BY <1>1, RunStarts, SameRows, Untouched1, Pieces

LEMMA RollbackIs ==
  ASSUME Rollback
  PROVE  \E n \in DOMAIN journal :
           /\ Standing(n) /\ Untouched(n) /\ status' = Restored(n)
           /\ Append1([op |-> "rollback", target |-> n])
           /\ UNCHANGED <<stuck, run, confirmed, rejected>>
BY DEF Rollback, Standing, Batch, Restored, Touched

LEMMA UndoKeeps == ASSUME IInv, Rollback PROVE IInv'
<1>1. PICK n \in DOMAIN journal :
        /\ Standing(n) /\ Untouched(n) /\ status' = Restored(n)
        /\ Append1([op |-> "rollback", target |-> n])
        /\ UNCHANGED <<stuck, run, confirmed, rejected>>
  BY RollbackIs
<1>2. RowsOK' /\ DecisionsStand' /\ BatchesInv' /\ ReviewBoundary'
  BY <1>1, RollbackKeeps
<1>3. QED
  BY <1>1, <1>2, SameRuns, Untouched1, Pieces

LEMMA JamKeeps == ASSUME IInv, Jam PROVE IInv'
<1>1. UNCHANGED <<rows, run, confirmed, rejected>> /\ stuck' \in BOOLEAN
  BY DEF Jam
<1>2. confirmed' \in SUBSET Ids /\ rejected' \in SUBSET Ids
  BY <1>1 DEF IInv, TypeOK
<1>3. QED
  BY <1>1, <1>2, SameRows, SameRuns, Pieces

LEMMA Inductive == IInv /\ [Next]_vars => IInv'
<1> SUFFICES ASSUME IInv, [Next]_vars PROVE IInv'
  OBVIOUS
<1>1. CASE Write
  BY <1>1, WriteKeeps
<1>2. CASE Confirm
  BY <1>2, ConfirmKeeps
<1>3. CASE Reject
  BY <1>3, RejectKeeps
<1>4. CASE RunDeterministic
  BY <1>4, DeterministicKeeps
<1>5. CASE Rollback
  BY <1>5, UndoKeeps
<1>6. CASE Jam
  BY <1>6, JamKeeps
<1>7. ASSUME NEW r \in Runs, OracleStart(r) PROVE IInv'
  BY <1>7, StartKeeps
<1>8. ASSUME NEW r \in Runs, OracleApplies(r) PROVE IInv'
  BY <1>8, AnsweredKeeps
<1>9. ASSUME NEW r \in Runs, OracleRejected(r) PROVE IInv'
  BY <1>9, RefusedAnswerKeeps
<1>10. ASSUME NEW r \in Runs, OracleRefused(r) PROVE IInv'
  BY <1>10, RefusedKeeps
<1>11. CASE UNCHANGED vars
  <2>1. UNCHANGED <<rows, stuck, run, confirmed, rejected>>
    BY <1>11 DEF vars
  <2>2. QED
    BY <2>1, SameRows, SameRuns, Untouched1, Pieces
<1>12. QED
  BY <1>1, <1>2, <1>3, <1>4, <1>5, <1>6, <1>7, <1>8, <1>9, <1>10, <1>11 DEF Next

LEMMA Invariance == Spec => []IInv
<1>1. Init => IInv
  BY Initial
<1>2. IInv /\ [Next]_vars => IInv'
  BY Inductive
<1>3. QED
  BY <1>1, <1>2, PTL DEF Spec

\* The store, the entries and the runs stay what they are, and everything a
\* batch archived stays archived until the batch is rolled back.
THEOREM Consolidates == Spec => []ConsolidationInv
<1>1. IInv => ConsolidationInv
  <2> SUFFICES ASSUME IInv PROVE ConsolidationInv
    OBVIOUS
  <2>1. BatchStaysReversible
    <3>1. \A n \in DOMAIN journal : Standing(n) => Holds(n)
      BY DEF IInv, BatchesInv
    <3>2. QED
      BY <3>1 DEF BatchStaysReversible, Standing, Holds
  <2>2. QED
    BY <2>1 DEF ConsolidationInv, IInv
<1>2. QED
  BY <1>1, Invariance, PTL

\* A rejected memory stays archived, a confirmed one is never a proposal again,
\* whatever is consolidated, decided and rolled back in whatever order.
THEOREM DecisionsAreKept == Spec => []DecisionsStand
<1>1. IInv => DecisionsStand
  BY DEF IInv
<1>2. QED
  BY <1>1, Invariance, PTL

\* No merge, of exact or near duplicates or of an oracle's group, crosses the
\* review boundary.
THEOREM MergesStayWithin == Spec => []ReviewBoundary
<1>1. IInv => ReviewBoundary
  BY DEF IInv
<1>2. QED
  BY <1>1, Invariance, PTL

\* A rollback brings back the statuses its batch found.
THEOREM RollbackIsExact == Spec => RollbackRestores
<1> DEFINE Restores ==
      journal' # journal /\ Last(journal').op = "rollback" =>
        LET n == Last(journal').target IN
          \A c \in journal[n].changes : status'[c.id] = before[n][c.id]
<1>1. ASSUME IInv, [Next]_vars PROVE Restores
  <2>1. ASSUME NEW e \in Entry, Append1(e) PROVE Last(journal') = e
    <3>1. Len(journal') = Len(journal) + 1 /\ journal'[Len(journal) + 1] = e
      BY <1>1, <2>1, Appended DEF IInv
    <3>2. QED
      BY <3>1 DEF Last
  <2>2. ASSUME NEW r \in Runs \cup {None}, NEW changes, NEW inserts, Good(changes, inserts),
               Append1(Consolidated(r, changes, inserts))
        PROVE  Last(journal').op # "rollback"
    <3>1. /\ Consolidated(r, changes, inserts) \in Entry
          /\ Consolidated(r, changes, inserts).op \in {"consolidate", "evidence"}
      BY <2>2, EntryIs DEF Good
    <3>2. QED
      BY <2>1, <2>2, <3>1
  <2>3. CASE Rollback
    <3>1. PICK n \in DOMAIN journal :
            /\ Standing(n) /\ Untouched(n) /\ status' = Restored(n)
            /\ Append1([op |-> "rollback", target |-> n])
      BY <2>3, RollbackIs
    <3>2. [op |-> "rollback", target |-> n] \in Entry
      <4>1. n \in 1..MaxEntries
        BY <1>1, MemoryAssumption DEF IInv, TypeOK
      <4> HIDE DEF Change
      <4>2. QED
        BY <4>1 DEF Entry
    <3>3. Last(journal').target = n
      BY <2>1, <3>1, <3>2
    <3>4. \A c \in journal[n].changes : status'[c.id] = before[n][c.id]
      BY <1>1, <3>1, RestoredIs
    <3>5. QED
      BY <3>3, <3>4
  <2>4. CASE RunDeterministic
    <3> DEFINE rest == Active \ {c.id : c \in ExactDupes}
               near == NearDupes(rest)
               of(faded) == ExactDupes \cup near \cup {Archive(i, None) : i \in faded}
    <3>1. PICK faded \in SUBSET (rest \ {c.id : c \in near}) :
            Append1(Consolidated(None, of(faded), {}))
      BY <2>4 DEF RunDeterministic
    <3>2. Good(of(faded), {})
      BY <1>1, PassIsGood DEF IInv
    <3> HIDE DEF of
    <3>3. QED
      BY <2>2, <3>1, <3>2
  <2>5. ASSUME NEW r \in Runs, OracleApplies(r) PROVE Restores
    <3>1. SUFFICES ASSUME journal' # journal PROVE Last(journal').op # "rollback"
      OBVIOUS
    <3>2. PICK answer \in Answers(Head(run[r].todo)),
               inserts \in SUBSET {i \in Ids : status[i] = "unused"} :
            Append1(Consolidated(r, Merges(answer) \cup Archives(answer), inserts))
      BY <2>5, <3>1 DEF OracleApplies, rows
    <3>3. Head(run[r].todo) \in SUBSET Ids
      <4>1. run[r].todo \in Seq(SUBSET Ids) /\ run[r].todo # <<>>
        BY <1>1, <2>5 DEF IInv, TypeOK, RunsInv, OracleApplies
      <4>2. QED
        BY <4>1
    <3>4. Good(Merges(answer) \cup Archives(answer), inserts)
      BY <1>1, <3>3, AnswerIsGood DEF IInv
    <3>5. QED
      BY <2>2, <3>2, <3>4
  <2>6. ASSUME NEW r \in Runs, OracleRejected(r) PROVE Restores
    <3>1. Append1(Consolidated(r, {}, {})) /\ Good({}, {})
      BY <1>1, <2>6, NothingIsGood DEF OracleRejected, IInv
    <3>2. QED
      BY <2>2, <3>1
  <2>7. CASE UNCHANGED journal
    BY <2>7
  <2>8. QED
    BY <1>1, <2>3, <2>4, <2>5, <2>6, <2>7
    DEF Next, vars, rows, Write, Confirm, Reject, Transition, Unjournaled, Jam,
        OracleStart, OracleRefused
<1>2. QED
  BY <1>1, Invariance, PTL DEF Spec, RollbackRestores

-----------------------------------------------------------------------------
(* Chains of merges.                                                       *)

\* Where a batch folds a memory in one step: Follow repeats it.
FoldedInto(changes, j) ==
  IF \E c \in changes : c.id = j /\ c.into # None
  THEN (CHOOSE c \in changes : c.id = j /\ c.into # None).into ELSE j

IsEnd(changes, j) == \A c \in changes : c.id = j => c.into = None

\* Merges into a set of memories, of its own members only the worse into the
\* better.
Descends(changes, rest) ==
  /\ changes \subseteq Change /\ rest \subseteq Ids
  /\ \A c \in changes : c.into # None =>
       c.into \in rest /\ (c.id \in rest => Rank[c.into] < Rank[c.id])

\* Where a chain of such merges can still lead from a memory.
Ahead(rest, x) == IF x \in rest THEN {j \in rest : Rank[j] < Rank[x]} ELSE rest

LEMMA FoldsAhead ==
  ASSUME NEW changes, NEW rest, Descends(changes, rest), NEW x \in Ids
  PROVE  LET y == FoldedInto(changes, x) IN
           /\ IsEnd(changes, x) => y = x
           /\ ~IsEnd(changes, x) =>
                y \in Ahead(rest, x) /\ Ahead(rest, y) \subseteq Ahead(rest, x) \ {y}
           /\ Ahead(rest, x) \subseteq rest
<1> DEFINE y == FoldedInto(changes, x)
<1>1. IsEnd(changes, x) => y = x
  BY DEF IsEnd, FoldedInto
<1>2. ASSUME ~IsEnd(changes, x)
      PROVE  y \in Ahead(rest, x) /\ Ahead(rest, y) \subseteq Ahead(rest, x) \ {y}
  <2>1. \E c \in changes : c.id = x /\ c.into # None
    BY <1>2 DEF IsEnd
  <2>2. PICK c \in changes : c.id = x /\ c.into # None /\ y = c.into
    BY <2>1 DEF FoldedInto
  <2> HIDE DEF y
  <2>3. y \in rest /\ (x \in rest => Rank[y] < Rank[x]) /\ rest \subseteq Ids
    BY <2>2 DEF Descends
  <2>4. \A j \in rest : Rank[j] \in Nat
    BY <2>3, MemoryAssumption
  <2>5. y \in Ahead(rest, x)
    BY <2>3 DEF Ahead
  <2>6. Rank[x] \in Nat
    BY MemoryAssumption
  <2>7. ASSUME NEW j \in Ahead(rest, y) PROVE j \in Ahead(rest, x) \ {y}
    <3>1. j \in rest /\ Rank[j] < Rank[y]
      BY <2>3, <2>7 DEF Ahead
    <3>2. j # y /\ (x \in rest => Rank[j] < Rank[x])
      BY <2>3, <2>4, <2>6, <3>1
    <3>3. QED
      BY <3>1, <3>2 DEF Ahead
  <2>8. QED
    BY <2>5, <2>7
<1>3. Ahead(rest, x) \subseteq rest
  BY DEF Ahead
<1>4. QED
  BY <1>1, <1>2, <1>3

LEMMA FewerAhead ==
  ASSUME NEW changes, NEW rest, Descends(changes, rest), NEW x \in Ids, ~IsEnd(changes, x)
  PROVE  /\ Cardinality(Ahead(rest, FoldedInto(changes, x))) + 1
              <= Cardinality(Ahead(rest, x))
         /\ Cardinality(Ahead(rest, FoldedInto(changes, x))) \in Nat
         /\ FoldedInto(changes, x) \in rest
<1> DEFINE y == FoldedInto(changes, x)
           A == Ahead(rest, x)
           B == Ahead(rest, y)
<1>1. y \in A /\ B \subseteq A \ {y} /\ A \subseteq rest /\ rest \subseteq Ids
  BY FoldsAhead DEF Descends
<1> HIDE DEF y, A, B
<1>2. IsFiniteSet(A)
  <2>1. A \subseteq Ids
    BY <1>1
  <2>2. QED
    BY <2>1, IdsFinite, FS_Subset
<1>3. IsFiniteSet(A \ {y}) /\ Cardinality(A \ {y}) = Cardinality(A) - 1
  BY <1>1, <1>2, FS_RemoveElement
<1>4. IsFiniteSet(B) /\ Cardinality(B) <= Cardinality(A \ {y})
  BY <1>1, <1>3, FS_Subset
<1>5. Cardinality(A) \in Nat /\ Cardinality(B) \in Nat
  BY <1>2, <1>4, FS_CardinalityType
<1>6. Cardinality(B) + 1 <= Cardinality(A)
  BY <1>3, <1>4, <1>5
<1>7. QED
  BY <1>1, <1>5, <1>6 DEF y, A, B

\* The listing is long enough to follow any chain.
LEMMA ListingIsLong ==
  ASSUME NEW S \in SUBSET Ids
  PROVE  IsFiniteSet(S) /\ Cardinality(S) \in Nat /\ Cardinality(S) <= Len(Listing)
<1> DEFINE L == Len(Listing)
<1>1. L \in Nat /\ Listing \in [1..L -> Ids] /\ Ids = {Listing[n] : n \in 1..L}
  BY MemoryAssumption DEF ToSet
<1>2. Listing \in Surjection(1..L, Ids)
  <2>1. \A i \in Ids : \E n \in 1..L : Listing[n] = i
    BY <1>1
  <2>2. QED
    BY <1>1, <2>1 DEF Surjection
<1> HIDE DEF L
<1>3. IsFiniteSet(1..L) /\ Cardinality(1..L) = L
  <2>1. 1 \in Int /\ L \in Int
    BY <1>1
  <2>2. IsFiniteSet(1..L) /\ Cardinality(1..L) = IF 1 > L THEN 0 ELSE L - 1 + 1
    BY <2>1, FS_Interval
  <2>3. QED
    BY <1>1, <2>2
<1>4. IsFiniteSet(Ids) /\ Cardinality(Ids) <= L
  BY <1>2, <1>3, FS_Surjection
<1>5. IsFiniteSet(S) /\ Cardinality(S) <= Cardinality(Ids)
  BY <1>4, FS_Subset
<1>6. Cardinality(S) \in Nat /\ Cardinality(Ids) \in Nat
  BY <1>4, <1>5, FS_CardinalityType
<1>7. QED
  BY <1>1, <1>4, <1>5, <1>6 DEF L

\* Follow, one step at a time.
Path(h, changes, i) ==
  /\ Follow(changes, i) = h[1..Len(Listing)]
  /\ h[1..0] = i
  /\ \A k \in Nat : k + 1 <= Len(Listing) => h[1..(k + 1)] = FoldedInto(changes, h[1..k])

LEMMA PathExists ==
  ASSUME NEW changes, NEW rest, Descends(changes, rest), NEW i \in Ids
  PROVE  \E h : Path(h, changes, i)
<1> DEFINE L == Len(Listing)
           G(x, k) == FoldedInto(changes, x)
           f == [x \in Ids \X Ids |-> G(x[1], x[2])]
           Is(h) == h = [s \in SUBSET DOMAIN Listing |->
                           IF s = {} THEN i ELSE G(h[s \ {Max(s)}], Listing[Max(s)])]
           it == CHOOSE h : Is(h)
<1>1. L \in Nat /\ DOMAIN Listing = 1..L /\ Listing \in [1..L -> Ids]
  BY MemoryAssumption
<1>2. \A x \in Ids : \A k : G(x, k) \in Ids
  <2>1. ASSUME NEW x \in Ids PROVE FoldedInto(changes, x) \in Ids
    <3>1. CASE IsEnd(changes, x)
      BY <3>1, FoldsAhead
    <3>2. CASE ~IsEnd(changes, x)
      BY <3>2, FewerAhead DEF Descends
    <3>3. QED
      BY <3>1, <3>2
  <2>2. QED
    BY <2>1
<1>3. f \in [Ids \X Ids -> Ids] /\ \A x \in Ids, k \in Ids : f[<<x, k>>] = G(x, k)
  <2> HIDE DEF G
  <2>1. QED
    BY <1>2
<1>4. PICK g \in [SUBSET (1..L) -> Ids] : Steps(g, f, i, Listing, L)
  <2> HIDE DEF f, L
  <2>1. QED
    BY <1>1, <1>3, FoldExists
<1>5. Follow(changes, i) = it[1..L]
  <2>1. Follow(changes, i) = it[DOMAIN Listing]
    BY DEF Follow, FoldLeft, MapThenFoldSet, FoldedInto
  <2>2. QED
    BY <1>1, <2>1
<1>6. Is(g)
  <2> HIDE DEF G, f
  <2>1. \A s \in SUBSET (1..L) :
          g[s] = IF s = {} THEN i ELSE G(g[s \ {Max(s)}], Listing[Max(s)])
    <3>1. SUFFICES ASSUME NEW s \in SUBSET (1..L), s # {}
                   PROVE  g[s] = G(g[s \ {Max(s)}], Listing[Max(s)])
      BY <1>4 DEF Steps
    <3>2. Max(s) \in s
      BY <1>1, <3>1, Largest
    <3>3. g[s \ {Max(s)}] \in Ids /\ Listing[Max(s)] \in Ids
      BY <1>1, <1>4, <3>2
    <3>4. g[s] = f[<<g[s \ {Max(s)}], Listing[Max(s)]>>]
      BY <1>4, <3>1 DEF Steps
    <3>5. QED
      BY <1>3, <3>3, <3>4
  <2>2. QED
    BY <1>1, <1>4, <2>1
<1>7. Is(it)
  <2> HIDE DEF Is
  <2>1. QED
    BY <1>6
<1> HIDE DEF it
<1>8. it[1..0] = i
  <2>1. 1..0 = {} /\ 1..0 \in SUBSET (1..L)
    OBVIOUS
  <2>2. QED
    BY <1>1, <1>7, <2>1
<1>9. ASSUME NEW k \in Nat, k + 1 <= L
      PROVE  it[1..(k + 1)] = FoldedInto(changes, it[1..k])
  <2>1. /\ 1..(k + 1) = (1..k) \cup {k + 1} /\ k + 1 \notin 1..k /\ k + 1 \in Nat
        /\ 1..(k + 1) \in SUBSET (1..L)
    BY <1>1, <1>9
  <2>2. Max(1..(k + 1)) \in 1..(k + 1) /\ Max(1..(k + 1)) >= k + 1
    BY <2>1, Largest
  <2>3. Max(1..(k + 1)) = k + 1
    BY <2>2
  <2>4. (1..(k + 1)) \ {k + 1} = 1..k /\ 1..(k + 1) # {}
    BY <2>1
  <2>5. QED
    BY <1>1, <1>7, <2>1, <2>3, <2>4
<1>10. Path(it, changes, i)
  BY <1>5, <1>8, <1>9 DEF Path
<1>11. QED
  BY <1>10

\* Every chain of merges ends where the batch folds no further, whatever the
\* order the listing has: each step leaves less ahead of it.
LEMMA FollowEnds ==
  ASSUME NEW changes, NEW rest, Descends(changes, rest), NEW i \in Ids
  PROVE  Follow(changes, i) \in rest \cup {i} /\ IsEnd(changes, Follow(changes, i))
<1> DEFINE L == Len(Listing)
           N == Cardinality(rest)
<1>1. PICK h : Path(h, changes, i)
  BY PathExists
<1> DEFINE at(k) == h[1..k]
           left(k) == Cardinality(Ahead(rest, at(k)))
           Ok(k) == /\ at(k) \in rest \cup {i}
                    /\ left(k) \in Nat
                    /\ IsEnd(changes, at(k)) \/ left(k) + k <= N
           U == {k \in Nat : k <= L => Ok(k)}
<1>2. L \in Nat /\ N \in Nat /\ N <= L /\ rest \subseteq Ids
  BY MemoryAssumption, ListingIsLong DEF Descends
<1> HIDE DEF L, N
<1>3. /\ at(0) = i
      /\ \A k \in Nat : k + 1 <= L => at(k + 1) = FoldedInto(changes, at(k))
      /\ Follow(changes, i) = at(L)
  BY <1>1 DEF Path, L
<1> HIDE DEF at
<1>4. Ok(0)
  <2>1. Ahead(rest, i) \subseteq rest
    BY DEF Ahead
  <2>2. /\ Cardinality(Ahead(rest, i)) \in Nat
        /\ Cardinality(Ahead(rest, i)) <= Cardinality(rest)
    <3>1. IsFiniteSet(rest) /\ Ahead(rest, i) \in SUBSET Ids
      BY <1>2, <2>1, ListingIsLong
    <3>2. Cardinality(Ahead(rest, i)) \in Nat
      BY <3>1, ListingIsLong
    <3>3. QED
      BY <2>1, <3>1, <3>2, FS_Subset
  <2>3. QED
    BY <1>2, <1>3, <2>2 DEF N
<1>5. ASSUME NEW k \in Nat, k + 1 <= L, Ok(k) PROVE Ok(k + 1)
  <2>1. at(k) \in Ids /\ at(k + 1) = FoldedInto(changes, at(k))
    BY <1>2, <1>3, <1>5
  <2>2. CASE IsEnd(changes, at(k))
    <3>1. at(k + 1) = at(k)
      BY <2>1, <2>2, FoldsAhead
    <3>2. QED
      BY <1>5, <2>2, <3>1
  <2>3. CASE ~IsEnd(changes, at(k))
    <3>1. left(k + 1) + 1 <= left(k) /\ left(k + 1) \in Nat /\ at(k + 1) \in rest
      BY <2>1, <2>3, FewerAhead
    <3>2. left(k) + k <= N /\ left(k) \in Nat
      BY <1>5, <2>3
    <3> HIDE DEF left
    <3>3. left(k + 1) + (k + 1) <= N
      BY <1>2, <3>1, <3>2
    <3>4. QED
      BY <3>1, <3>3
  <2>4. QED
    BY <2>2, <2>3
<1>6. Ok(L)
  <2> HIDE DEF Ok
  <2>1. 0 \in U /\ \A k \in Nat : k \in U => k + 1 \in U
    <3>1. ASSUME NEW k \in Nat, k \in U, k + 1 <= L PROVE Ok(k + 1)
      <4>1. k <= L
        BY <1>2, <3>1
      <4>2. QED
        BY <1>5, <3>1, <4>1
    <3>2. QED
      BY <1>4, <3>1
  <2>2. Nat \subseteq U
    <3> HIDE DEF U
    <3>1. QED
      BY <2>1, Induct
  <2>3. QED
    BY <1>2, <2>2
<1>7. IsEnd(changes, at(L))
  <2>1. SUFFICES ASSUME ~IsEnd(changes, at(L)) PROVE FALSE
    OBVIOUS
  <2>2. at(L) \in Ids /\ left(L) \in Nat /\ left(L) + L <= N
    BY <1>2, <1>6, <2>1
  <2> DEFINE next == Cardinality(Ahead(rest, FoldedInto(changes, at(L))))
  <2>3. next + 1 <= left(L) /\ next \in Nat
    BY <2>1, <2>2, FewerAhead
  <2> HIDE DEF left, next
  <2>4. QED
    BY <1>2, <2>2, <2>3
<1>8. QED
  BY <1>3, <1>6, <1>7

\* Among live memories, the end of a chain is alive, or decayed in the batch.
EndsWell(changes, after) ==
  \A c \in changes : c.into # None =>
    LET end == Follow(changes, c.id) IN
      after[end] \in {"proposed", "confirmed"} \/ Archive(end, None) \in changes

LEMMA DescendsWell ==
  ASSUME TypeOK, NEW changes, NEW inserts, Good(changes, inserts),
         NEW rest \in SUBSET Active, Descends(changes, rest)
  PROVE  EndsWell(changes, Applied(changes, inserts))
<1> SUFFICES ASSUME NEW c \in changes, c.into # None,
                    Archive(Follow(changes, c.id), None) \notin changes
             PROVE  Applied(changes, inserts)[Follow(changes, c.id)]
                      \in {"proposed", "confirmed"}
  BY DEF EndsWell
<1> DEFINE end == Follow(changes, c.id)
<1>1. c.id \in Ids
  BY DEF Good, Change
<1>2. end \in rest \cup {c.id} /\ IsEnd(changes, end)
  BY <1>1, FollowEnds
<1> HIDE DEF end
<1>3. end \in rest /\ end \in Ids /\ status[end] \in {"proposed", "confirmed"}
  BY <1>2 DEF IsEnd, Active, Live
<1>4. end \notin {e.id : e \in changes}
  <2>1. ASSUME NEW e \in changes, e.id = end PROVE FALSE
    <3>1. e \in Change /\ e.from = status[e.id] /\ e.into = None
      BY <1>2, <2>1 DEF Good, IsEnd
    <3>2. e = Archive(end, None)
      BY <2>1, <3>1 DEF Archive, Change
    <3>3. QED
      BY <2>1, <3>2 DEF end
  <2>2. QED
    BY <2>1
<1>5. end \notin inserts
  BY <1>3 DEF Good
<1>6. Applied(changes, inserts)[end] = status[end]
  BY <1>3, <1>4, <1>5 DEF Applied
<1>7. QED
  BY <1>3, <1>6 DEF end

\* The survivor of exact duplicates is not one of them.
LEMMA SurvivorStays ==
  ASSUME TypeOK, NEW c \in ExactDupes
  PROVE  c.into \in Active \ {e.id : e \in ExactDupes} /\ c.id \in Active
<1>1. PICK i \in Active : c = Archive(i, Survivor(Twins(i))) /\ Survivor(Twins(i)) # i
  BY DEF ExactDupes
<1> DEFINE s == Survivor(Twins(i))
           sure == {j \in Twins(i) : status[j] = "confirmed"}
<1>2. i \in Twins(i) /\ Twins(i) \subseteq Ids
  BY DEF Twins, Active
<1>3. s \in Twins(i)
  <2>1. CASE sure # {}
    <3>1. s = Best(sure) /\ sure \subseteq Ids
      BY <1>2, <2>1 DEF Survivor
    <3>2. s \in sure
      BY <2>1, <3>1, BestIs
    <3>3. QED
      BY <3>2
  <2>2. CASE sure = {}
    <3>1. s = Best(Twins(i))
      BY <2>2 DEF Survivor
    <3>2. QED
      BY <1>2, <3>1, BestIs
  <2>3. QED
    BY <2>1, <2>2
<1> HIDE DEF s
<1>4. s \in Active /\ Twins(s) = Twins(i)
  BY <1>3 DEF Twins
<1>5. Survivor(Twins(s)) = s
  BY <1>4 DEF s
<1>6. s \notin {e.id : e \in ExactDupes}
  <2>1. ASSUME NEW e \in ExactDupes, e.id = s PROVE FALSE
    <3>1. PICK j \in Active : e = Archive(j, Survivor(Twins(j))) /\ Survivor(Twins(j)) # j
      BY DEF ExactDupes
    <3>2. j = s
      BY <2>1, <3>1 DEF Archive
    <3>3. QED
      BY <1>5, <3>1, <3>2
  <2>2. QED
    BY <2>1
<1>7. c.into = s /\ c.id = i
  BY <1>1 DEF Archive, s
<1>8. QED
  BY <1>4, <1>6, <1>7

\* A pass merges into what the exact duplicates leave.
LEMMA PassDescends ==
  ASSUME TypeOK,
         NEW faded \in SUBSET ((Active \ {c.id : c \in ExactDupes}) \
           {c.id : c \in NearDupes(Active \ {e.id : e \in ExactDupes})})
  PROVE  Descends(ExactDupes \cup NearDupes(Active \ {c.id : c \in ExactDupes})
                    \cup {Archive(i, None) : i \in faded},
                  Active \ {c.id : c \in ExactDupes})
<1> DEFINE exact == ExactDupes
           rest == Active \ {c.id : c \in exact}
           near == NearDupes(rest)
           gone == {Archive(i, None) : i \in faded}
<1>1. exact \cup near \cup gone \subseteq Change
  BY PassIsGood DEF Good
<1>2. rest \subseteq Ids
  BY DEF Active
<1>3. \A c \in exact : c.into \in rest /\ c.id \notin rest
  BY SurvivorStays
<1>4. \A c \in near : c.into \in rest /\ Rank[c.into] < Rank[c.id]
  <2>1. /\ near \subseteq {Archive(i, j) : i \in rest, j \in rest}
        /\ \A c \in near : Rank[c.into] < Rank[c.id]
    <3> HIDE DEF rest
    <3>1. QED
      BY NearPairs DEF Pairs
  <2> HIDE DEF near, rest
  <2>2. \A c \in near : \E i \in rest, j \in rest : c = Archive(i, j)
    BY <2>1
  <2>3. QED
    BY <2>1, <2>2 DEF Archive
<1>5. \A c \in gone : c.into = None
  BY DEF Archive
<1> HIDE DEF exact, near, gone, rest
<1>6. Descends(exact \cup near \cup gone, rest)
  BY <1>1, <1>2, <1>3, <1>4, <1>5 DEF Descends
<1>7. QED
  BY <1>6 DEF exact, near, gone, rest

\* An answer merges into the heads of its groups, and merges no head.
Heads(answer) == {c.into : c \in Merges(answer)}

LEMMA AnswerDescends ==
  ASSUME TypeOK, NEW batch \in SUBSET Ids, NEW answer \in Answers(batch),
         NEW inserts \in SUBSET {i \in Ids : status[i] = "unused"}
  PROVE  /\ Heads(answer) \subseteq Active
         /\ Descends(Merges(answer) \cup Archives(answer), Heads(answer))
<1>1. answer \in [batch -> batch \cup {"keep", "archive", "promote"}]
      /\ \A i \in batch : answer[i] \in batch => answer[answer[i]] = answer[i]
  BY DEF Answers
<1>2. Merges(answer) \cup Archives(answer) \subseteq Change
  BY AnswerIsGood DEF Good
<1>3. ASSUME NEW c \in Merges(answer)
      PROVE  /\ c.into \in Active /\ answer[c.into] = c.into
             /\ answer[c.id] = c.into /\ c.into # c.id
  <2>1. PICK i \in DOMAIN answer : /\ answer[i] \in Ids \ {i}
                                   /\ Mergeable(Members(answer, answer[i]))
                                   /\ c = Archive(i, answer[i])
    BY DEF Merges
  <2>2. i \in batch /\ answer[i] \in batch /\ answer[answer[i]] = answer[i]
    BY <1>1, <2>1, MemoryAssumption
  <2>3. answer[i] \in Members(answer, answer[i])
    BY <1>1, <2>2 DEF Members
  <2>4. Live(answer[i])
    BY <2>1, <2>3 DEF Mergeable
  <2>5. c.id = i /\ c.into = answer[i]
    BY <2>1 DEF Archive
  <2>6. QED
    BY <2>1, <2>2, <2>4, <2>5 DEF Active
<1>4. \A c \in Merges(answer) : c.id \notin Heads(answer) /\ c.into \in Heads(answer)
  BY <1>3 DEF Heads
<1>5. \A c \in Archives(answer) : c.into = None
  BY DEF Archives, Archive
<1>6. Heads(answer) \subseteq Active
  BY <1>3 DEF Heads
<1>7. Heads(answer) \subseteq Ids
  BY <1>6 DEF Active
<1>8. QED
  BY <1>2, <1>4, <1>5, <1>6, <1>7 DEF Descends

\* Whatever is merged ends, through any chain of merges, in a memory that is
\* still there, unless that one decayed in the same pass.
THEOREM MergesEnd == Spec => MergesEndSomewhere
<1> DEFINE Ends ==
      JustConsolidated =>
        LET changes == Last(journal').changes IN
          \A c \in changes : c.into # None =>
            LET end == Follow(changes, c.id) IN
              \/ status'[end] \in {"proposed", "confirmed"}
              \/ Archive(end, None) \in changes
<1>1. ASSUME IInv, [Next]_vars PROVE Ends
  <2>1. ASSUME NEW e \in Entry, Append1(e) PROVE Last(journal') = e
    <3>1. Len(journal') = Len(journal) + 1 /\ journal'[Len(journal) + 1] = e
      BY <1>1, <2>1, Appended DEF IInv
    <3>2. QED
      BY <3>1 DEF Last
  <2>2. ASSUME NEW r \in Runs \cup {None}, NEW changes, NEW inserts, Good(changes, inserts),
               NEW rest \in SUBSET Active, Descends(changes, rest),
               status' = Applied(changes, inserts),
               Append1(Consolidated(r, changes, inserts))
        PROVE  Ends
    <3>1. /\ Consolidated(r, changes, inserts) \in Entry
          /\ Consolidated(r, changes, inserts).changes = changes
      BY <2>2, EntryIs DEF Good
    <3>2. Last(journal').changes = changes
      BY <2>1, <2>2, <3>1
    <3>3. EndsWell(changes, status')
      BY <1>1, <2>2, DescendsWell DEF IInv
    <3>4. QED
      BY <3>2, <3>3 DEF EndsWell
  <2>3. CASE Rollback
    <3>1. PICK n \in DOMAIN journal : Append1([op |-> "rollback", target |-> n])
      BY <2>3, RollbackIs
    <3>2. [op |-> "rollback", target |-> n] \in Entry
      <4>1. n \in 1..MaxEntries
        BY <1>1, MemoryAssumption DEF IInv, TypeOK
      <4> HIDE DEF Change
      <4>2. QED
        BY <4>1 DEF Entry
    <3>3. Last(journal').op = "rollback"
      BY <2>1, <3>1, <3>2
    <3>4. QED
      BY <3>3 DEF JustConsolidated
  <2>4. CASE RunDeterministic
    <3> DEFINE rest == Active \ {c.id : c \in ExactDupes}
               near == NearDupes(rest)
               of(faded) == ExactDupes \cup near \cup {Archive(i, None) : i \in faded}
    <3>1. PICK faded \in SUBSET (rest \ {c.id : c \in near}) :
            /\ status' = Applied(of(faded), {})
            /\ Append1(Consolidated(None, of(faded), {}))
      BY <2>4 DEF RunDeterministic
    <3>2. Good(of(faded), {})
      BY <1>1, PassIsGood DEF IInv
    <3>3. Descends(of(faded), rest)
      BY <1>1, PassDescends DEF IInv
    <3>4. rest \in SUBSET Active
      OBVIOUS
    <3> HIDE DEF of, rest
    <3>5. QED
      BY <2>2, <3>1, <3>2, <3>3, <3>4
  <2>5. ASSUME NEW r \in Runs, OracleApplies(r) PROVE Ends
    <3>1. SUFFICES ASSUME journal' # journal PROVE Ends
      BY DEF JustConsolidated
    <3>2. PICK answer \in Answers(Head(run[r].todo)),
               inserts \in SUBSET {i \in Ids : status[i] = "unused"} :
            /\ status' = Applied(Merges(answer) \cup Archives(answer), inserts)
            /\ Append1(Consolidated(r, Merges(answer) \cup Archives(answer), inserts))
      BY <2>5, <3>1 DEF OracleApplies, rows
    <3>3. Head(run[r].todo) \in SUBSET Ids
      <4>1. run[r].todo \in Seq(SUBSET Ids) /\ run[r].todo # <<>>
        BY <1>1, <2>5 DEF IInv, TypeOK, RunsInv, OracleApplies
      <4>2. QED
        BY <4>1
    <3>4. Good(Merges(answer) \cup Archives(answer), inserts)
      BY <1>1, <3>3, AnswerIsGood DEF IInv
    <3>5. /\ Heads(answer) \in SUBSET Active
          /\ Descends(Merges(answer) \cup Archives(answer), Heads(answer))
      BY <1>1, <3>3, AnswerDescends DEF IInv
    <3>6. QED
      BY <2>2, <3>2, <3>4, <3>5
  <2>6. ASSUME NEW r \in Runs, OracleRejected(r) PROVE Ends
    <3>1. Append1(Consolidated(r, {}, {})) /\ Good({}, {})
      BY <1>1, <2>6, NothingIsGood DEF OracleRejected, IInv
    <3>2. Consolidated(r, {}, {}) \in Entry /\ Consolidated(r, {}, {}).op = "evidence"
      BY <3>1, EntryIs DEF Good, Consolidated
    <3>3. QED
      BY <2>1, <3>1, <3>2 DEF JustConsolidated
  <2>7. CASE UNCHANGED journal
    BY <2>7 DEF JustConsolidated
  <2>8. QED
    BY <1>1, <2>3, <2>4, <2>5, <2>6, <2>7
    DEF Next, vars, rows, Write, Confirm, Reject, Transition, Unjournaled, Jam,
        OracleStart, OracleRefused
<1>2. QED
  BY <1>1, Invariance, PTL DEF Spec, MergesEndSomewhere

-----------------------------------------------------------------------------
(* The report of a run.                                                    *)

Add(r, sum, e) ==
  IF e.op # "rollback" /\ e.by = r
  THEN sum + Cardinality(e.changes) + Cardinality(e.inserts) ELSE sum

Tally(r, s) == FoldLeft(LAMBDA sum, e : Add(r, sum, e), 0, s)

LEMMA ChangeFinite == IsFiniteSet(Change)
<1> DEFINE From == {"proposed", "confirmed"}
           Into == Ids \cup {None}
           f == [c \in Change |-> <<c.id, <<c.from, c.into>>>>]
<1>1. IsFiniteSet(From)
  <2>1. From = {"proposed"} \cup {"confirmed"}
    OBVIOUS
  <2>2. IsFiniteSet({"proposed"})
    BY FS_Singleton
  <2>3. IsFiniteSet({"proposed"} \cup {"confirmed"})
    BY <2>2, FS_AddElement
  <2>4. QED
    BY <2>1, <2>3
<1>2. IsFiniteSet(Into)
  BY IdsFinite, FS_AddElement
<1>3. Change = [id : Ids, from : From, into : Into]
  BY DEF Change
<1> HIDE DEF From, Into, Change
<1>4. IsFiniteSet(Ids \X (From \X Into))
  BY <1>1, <1>2, IdsFinite, FS_Product
<1>5. f \in Injection(Change, Ids \X (From \X Into))
  <2>1. f \in [Change -> Ids \X (From \X Into)]
    BY <1>3
  <2>2. \A c, e \in Change : f[c] = f[e] => c = e
    BY <1>3
  <2> HIDE DEF f
  <2>3. DOMAIN f = Change
    BY <2>1
  <2>4. QED
    BY <2>1, <2>2, <2>3 DEF Injection, IsInjective
<1> HIDE DEF f
<1>6. QED
  BY <1>4, <1>5, FS_Injection

LEMMA AddIsNat ==
  ASSUME NEW r, NEW sum \in Nat, NEW e \in Entry
  PROVE  Add(r, sum, e) \in Nat
<1>1. CASE e.op # "rollback"
  <2>1. e.changes \in SUBSET Change /\ e.inserts \in SUBSET Ids
    BY <1>1, BatchIs
  <2>2. IsFiniteSet(e.changes) /\ IsFiniteSet(e.inserts)
    BY <2>1, ChangeFinite, IdsFinite, FS_Subset
  <2>3. Cardinality(e.changes) \in Nat /\ Cardinality(e.inserts) \in Nat
    BY <2>2, FS_CardinalityType
  <2>4. QED
    BY <2>3 DEF Add
<1>2. CASE e.op = "rollback"
  BY <1>2 DEF Add
<1>3. QED
  BY <1>1, <1>2

Tallies(h, r, s) ==
  /\ Tally(r, s) = h[1..Len(s)]
  /\ h = [x \in SUBSET (1..Len(s)) |->
            IF x = {} THEN 0 ELSE Add(r, h[x \ {Max(x)}], s[Max(x)])]

LEMMA TallySteps ==
  ASSUME NEW r, NEW s \in Seq(Entry) PROVE \E h : Tallies(h, r, s)
<1> DEFINE L == Len(s)
           f == [x \in Nat \X Entry |-> Add(r, x[1], x[2])]
           Is(h) == h = [x \in SUBSET DOMAIN s |->
                           IF x = {} THEN 0 ELSE Add(r, h[x \ {Max(x)}], s[Max(x)])]
           it == CHOOSE h : Is(h)
<1>1. L \in Nat /\ DOMAIN s = 1..L /\ s \in [1..L -> Entry]
  <2> HIDE DEF Entry
  <2>1. QED
    OBVIOUS
<1>2. f \in [Nat \X Entry -> Nat] /\ \A n \in Nat, e \in Entry : f[<<n, e>>] = Add(r, n, e)
  <2>1. \A n \in Nat, e \in Entry : Add(r, n, e) \in Nat
    BY AddIsNat
  <2> HIDE DEF Entry
  <2>2. QED
    BY <2>1
<1>3. PICK g \in [SUBSET (1..L) -> Nat] : Steps(g, f, 0, s, L)
  <2> HIDE DEF f, L
  <2>1. QED
    BY <1>1, <1>2, FoldExists
<1>4. Tally(r, s) = it[DOMAIN s]
  BY DEF Tally, FoldLeft, MapThenFoldSet
<1>5. Is(g)
  <2> HIDE DEF f, Entry, Add
  <2>1. \A x \in SUBSET (1..L) :
          g[x] = IF x = {} THEN 0 ELSE Add(r, g[x \ {Max(x)}], s[Max(x)])
    <3>1. SUFFICES ASSUME NEW x \in SUBSET (1..L), x # {}
                   PROVE  g[x] = Add(r, g[x \ {Max(x)}], s[Max(x)])
      BY <1>3 DEF Steps
    <3>2. Max(x) \in x
      BY <1>1, <3>1, Largest
    <3>3. g[x \ {Max(x)}] \in Nat /\ s[Max(x)] \in Entry
      BY <1>1, <1>3, <3>2
    <3>4. g[x] = f[<<g[x \ {Max(x)}], s[Max(x)]>>]
      BY <1>3, <3>1 DEF Steps
    <3>5. QED
      BY <1>2, <3>3, <3>4
  <2>2. QED
    BY <1>1, <1>3, <2>1
<1>6. Is(it)
  <2> HIDE DEF Is
  <2>1. QED
    BY <1>5
<1> HIDE DEF it
<1>7. Tallies(it, r, s)
  BY <1>1, <1>4, <1>6 DEF Tallies
<1>8. QED
  BY <1>7

\* One entry more adds what it changed.
LEMMA TallyAppended ==
  ASSUME NEW r, NEW s \in Seq(Entry), NEW e \in Entry
  PROVE  Tally(r, Append(s, e)) = Add(r, Tally(r, s), e)
<1>1. PICK L \in Nat : L = Len(s)
  <2> HIDE DEF Entry
  <2>1. QED
    OBVIOUS
<1> DEFINE t == Append(s, e)
<1>2. /\ t \in Seq(Entry) /\ Len(t) = L + 1 /\ t[L + 1] = e
      /\ \A n \in 1..L : t[n] = s[n]
  <2> HIDE DEF Entry
  <2>1. QED
    BY <1>1
<1> HIDE DEF t
<1> HIDE DEF Entry
<1>3a. PICK a : Tallies(a, r, s)
  BY TallySteps
<1>3. /\ Tally(r, s) = a[1..L]
      /\ a = [x \in SUBSET (1..L) |->
                IF x = {} THEN 0 ELSE Add(r, a[x \ {Max(x)}], s[Max(x)])]
  BY <1>1, <1>3a DEF Tallies
<1>4a. PICK b : Tallies(b, r, t)
  BY <1>2, TallySteps
<1>4. /\ Tally(r, t) = b[1..(L + 1)]
      /\ b = [x \in SUBSET (1..(L + 1)) |->
                IF x = {} THEN 0 ELSE Add(r, b[x \ {Max(x)}], t[Max(x)])]
  BY <1>2, <1>4a DEF Tallies
<1> HIDE DEF Add
<1>5. 1..(L + 1) = (1..L) \cup {L + 1} /\ L + 1 \notin 1..L
  OBVIOUS
<1>6. a[1..L] = b[1..L]
  <2> DEFINE same == [x \in SUBSET (1..L) |-> IF a[x] = b[x] THEN 1 ELSE 0]
  <2>1. {} \in SUBSET (1..L) /\ {} \in SUBSET (1..(L + 1)) /\ 1..L \in SUBSET (1..L)
    OBVIOUS
  <2>2. a[{}] = 0 /\ b[{}] = 0
    BY <1>3, <1>4, <2>1
  <2>3. same[{}] \in {1}
    BY <2>1, <2>2
  <2>4. ASSUME NEW x \in SUBSET (1..L), x # {}, same[x \ {Max(x)}] \in {1}
        PROVE  same[x] \in {1}
    <3>1. Max(x) \in 1..L /\ x \ {Max(x)} \in SUBSET (1..L) /\ x \in SUBSET (1..(L + 1))
      BY <1>5, <2>4, Largest
    <3>2. a[x \ {Max(x)}] = b[x \ {Max(x)}] /\ t[Max(x)] = s[Max(x)]
      BY <1>2, <2>4, <3>1
    <3>3. a[x] = Add(r, a[x \ {Max(x)}], s[Max(x)])
      BY <1>3, <2>4
    <3>4. b[x] = Add(r, b[x \ {Max(x)}], t[Max(x)])
      BY <1>4, <2>4, <3>1
    <3>5. QED
      BY <3>2, <3>3, <3>4
  <2>5. same[1..L] \in {1}
    <3> DEFINE One == {1}
    <3>1. same[{}] \in One
      BY <2>3
    <3>2. \A x \in SUBSET (1..L) : x # {} /\ same[x \ {Max(x)}] \in One => same[x] \in One
      BY <2>4
    <3> HIDE DEF same, One
    <3>3. same[1..L] \in One
      BY <3>1, <3>2, FoldKeeps
    <3>4. QED
      BY <3>3 DEF One
  <2>6. QED
    BY <2>1, <2>5
<1>7. Max(1..(L + 1)) = L + 1
  <2>1. L + 1 \in Nat /\ 1..(L + 1) \in SUBSET (1..(L + 1)) /\ 1..(L + 1) # {}
    BY <1>5
  <2>2. Max(1..(L + 1)) \in 1..(L + 1) /\ Max(1..(L + 1)) >= L + 1
    BY <1>5, <2>1, Largest
  <2>3. QED
    BY <2>2
<1>8. b[1..(L + 1)] = Add(r, b[1..L], t[L + 1])
  <2>1. (1..(L + 1)) \ {L + 1} = 1..L /\ 1..(L + 1) # {}
    BY <1>5
  <2>2. QED
    BY <1>4, <1>7, <2>1
<1>9. QED
  BY <1>2, <1>3, <1>4, <1>6, <1>8 DEF t

Ours(q, e) == e.op # "rollback" /\ e.by = q

LEMMA EntryCounts ==
  ASSUME TypeOK, NEW e \in Entry, Append1(e), NEW q \in Runs
  PROVE  LET last == Len(journal) + 1 IN
         /\ ChangesOf(q)' = Add(q, ChangesOf(q), e)
         /\ Own(q)' = Own(q) \cup (IF Ours(q, e) THEN {last} ELSE {})
         /\ journal'[last] = e
         /\ \A n \in Own(q) : n <= last /\ n # last /\ journal'[n] = journal[n]
<1>1. journal \in Seq(Entry) /\ journal' = Append(journal, e)
  BY DEF TypeOK, Append1
<1>2. ChangesOf(q) = Tally(q, journal)
  BY DEF ChangesOf, Tally, Add
<1>3. ChangesOf(q)' = Tally(q, journal')
  BY DEF ChangesOf, Tally, Add, FoldLeft, MapThenFoldSet
<1>4. ChangesOf(q)' = Add(q, ChangesOf(q), e)
  BY <1>1, <1>2, <1>3, TallyAppended
<1>5. PICK L \in Nat :
      /\ L = Len(journal) /\ DOMAIN journal = 1..L /\ DOMAIN journal' = 1..(L + 1)
      /\ \A n \in 1..L : journal'[n] = journal[n]
      /\ journal'[L + 1] = e
  BY Appended
<1>6. 1..(L + 1) = (1..L) \cup {L + 1} /\ \A n \in 1..L : n <= L + 1 /\ n # L + 1
  BY <1>5
<1>7. Own(q)' = {n \in 1..(L + 1) : Ours(q, journal'[n])}
  BY <1>5 DEF Own, Ours
<1>8. Own(q) = {n \in 1..L : Ours(q, journal[n])}
  BY <1>5 DEF Own, Ours
<1> HIDE DEF Ours
<1>9. Own(q)' = Own(q) \cup (IF Ours(q, e) THEN {L + 1} ELSE {})
  BY <1>5, <1>6, <1>7, <1>8
<1>10. QED
  BY <1>4, <1>5, <1>6, <1>8, <1>9

\* What one run reports of its entries.
Reported(q) ==
  /\ run[q].ended = "threw" => run[q].receipts = 0
  /\ run[q].ended = "failed" => run[q].receipts > 0
  /\ \/ CountsAll(q)
     \/ run[q].ended \in {"failed", "threw"} /\ \E n \in Own(q) : CountsAllBut(q, n)

LEMMA Reports == ReportIsDurable <=> \A q \in Runs : Reported(q)
BY DEF ReportIsDurable, Reported

\* A report stands while its run does and the journal gets no entry of its own.
LEMMA StillReported ==
  ASSUME NEW q \in Runs, Reported(q),
         UNCHANGED <<run[q].ended, run[q].receipts, run[q].changed>>,
         UNCHANGED <<ChangesOf(q), Own(q)>>,
         \A n \in Own(q) : journal'[n] = journal[n]
  PROVE  Reported(q)'
<1>1. \A n \in Own(q) : Size(n)' = Size(n)
  BY DEF Size
<1>2. \A n \in Own(q) : CountsAllBut(q, n) => CountsAllBut(q, n)'
  BY <1>1 DEF CountsAllBut
<1>3. CountsAll(q) => CountsAll(q)'
  BY DEF CountsAll
<1>4. QED
  BY <1>2, <1>3 DEF Reported

\* Neither does it change when nothing is journaled.
LEMMA Unwritten ==
  ASSUME UNCHANGED journal, NEW q
  PROVE  /\ UNCHANGED <<ChangesOf(q), Own(q)>>
         /\ \A n \in Own(q) : journal'[n] = journal[n]
BY DEF ChangesOf, Own, FoldLeft, MapThenFoldSet

\* A step that journals for no run and leaves the runs be.
LEMMA OthersCount ==
  ASSUME IInv, ReportIsDurable, NEW e \in Entry, Append1(e),
         e.op = "rollback" \/ e.by = None, UNCHANGED run
  PROVE  ReportIsDurable'
<1>1. SUFFICES ASSUME NEW q \in Runs PROVE Reported(q)'
  BY Reports DEF ReportIsDurable, Reported
<1>2. q # None
  BY MemoryAssumption
<1>3. ~Ours(q, e) /\ Add(q, ChangesOf(q), e) = ChangesOf(q)
  BY <1>2 DEF Ours, Add
<1>4. UNCHANGED <<ChangesOf(q), Own(q)>> /\ \A n \in Own(q) : journal'[n] = journal[n]
  BY <1>3, EntryCounts DEF IInv
<1>5. Reported(q)
  BY Reports
<1>6. QED
  BY <1>4, <1>5, StillReported

\* A step that journals nothing: a run that was going on and failed throws.
LEMMA SilentCounts ==
  ASSUME IInv, ReportIsDurable, UNCHANGED journal,
         \A q \in Runs :
           /\ UNCHANGED <<run[q].changed, run[q].receipts>>
           /\ \/ run'[q].ended = run[q].ended
              \/ run[q].ended = "none" /\ run'[q].ended \in {Thrown(q), "none", "complete"}
  PROVE  ReportIsDurable'
<1>1. SUFFICES ASSUME NEW q \in Runs PROVE Reported(q)'
  BY Reports DEF ReportIsDurable, Reported
<1>2. Reported(q)
  BY Reports
<1>3. UNCHANGED <<ChangesOf(q), Own(q)>> /\ \A n \in Own(q) : journal'[n] = journal[n]
  BY Unwritten
<1>4. CASE run'[q].ended = run[q].ended
  BY <1>2, <1>3, <1>4, StillReported
<1>5. CASE run[q].ended = "none" /\ run'[q].ended \in {Thrown(q), "none", "complete"}
  <2>1. CountsAll(q)
    BY <1>2, <1>5 DEF Reported
  <2>2. CountsAll(q)'
    BY <1>3, <2>1 DEF CountsAll
  <2>3. run[q].receipts \in Nat
    BY DEF IInv, TypeOK
  <2>4. /\ run'[q].ended = "threw" => run'[q].receipts = 0
        /\ run'[q].ended = "failed" => run'[q].receipts > 0
    BY <1>5, <2>3 DEF Thrown
  <2>5. QED
    BY <2>2, <2>4 DEF Reported
<1>6. QED
  BY <1>4, <1>5

\* A step that journals for a run reports what it journaled, or throws.
LEMMA OwnCounts ==
  ASSUME IInv, ReportIsDurable, NEW r \in Runs, run[r].awaiting,
         NEW changes, NEW inserts, Good(changes, inserts),
         Append1(Consolidated(r, changes, inserts)),
         Settles(r, Cardinality(changes) + Cardinality(inserts))
  PROVE  ReportIsDurable'
<1> DEFINE e == Consolidated(r, changes, inserts)
           n == Cardinality(changes) + Cardinality(inserts)
<1>1. /\ e \in Entry /\ e.op \in {"consolidate", "evidence"} /\ e.by = r
      /\ e.changes = changes /\ e.inserts = inserts
  BY EntryIs DEF Good
<1>2. n \in Nat
  BY CountsAreNat
<1>3. /\ \A q \in Runs : q # r => run'[q] = run[q]
      /\ \/ /\ run'[r].changed = run[r].changed + n
            /\ run'[r].receipts = run[r].receipts + 1
            /\ run'[r].ended \in {"none", "complete", "committed-unanchored"}
         \/ /\ run'[r].changed = run[r].changed
            /\ run'[r].receipts = run[r].receipts
            /\ run'[r].ended = Thrown(r)
  <2>1. Settles(r, n)
    OBVIOUS
  <2> HIDE DEF n
  <2>2. QED
    BY <1>2, <2>1, RunSettles
<1> PICK last : last = Len(journal) + 1
  OBVIOUS
<1>4. \A q \in Runs :
        /\ ChangesOf(q)' = Add(q, ChangesOf(q), e)
        /\ Own(q)' = Own(q) \cup (IF Ours(q, e) THEN {last} ELSE {})
        /\ journal'[last] = e
        /\ \A m \in Own(q) : m <= last /\ m # last /\ journal'[m] = journal[m]
  <2>1. Append1(e) /\ e \in Entry
    BY <1>1
  <2> HIDE DEF e
  <2>2. SUFFICES ASSUME NEW q \in Runs
                 PROVE  /\ ChangesOf(q)' = Add(q, ChangesOf(q), e)
                        /\ Own(q)' = Own(q) \cup (IF Ours(q, e) THEN {last} ELSE {})
                        /\ journal'[last] = e
                        /\ \A m \in Own(q) : m <= last /\ m # last /\ journal'[m] = journal[m]
    OBVIOUS
  <2>3. LET end == Len(journal) + 1 IN
          /\ ChangesOf(q)' = Add(q, ChangesOf(q), e)
          /\ Own(q)' = Own(q) \cup (IF Ours(q, e) THEN {end} ELSE {})
          /\ journal'[end] = e
          /\ \A m \in Own(q) : m <= end /\ m # end /\ journal'[m] = journal[m]
    BY <2>1, EntryCounts DEF IInv
  <2>4. QED
    BY <2>3
<1> HIDE DEF e
<1>5. SUFFICES ASSUME NEW q \in Runs PROVE Reported(q)'
  BY Reports DEF ReportIsDurable, Reported
<1>6. Reported(q)
  BY Reports
<1>7. CASE q = r
  <2>1. /\ CountsAll(r) /\ run[r].changed \in Nat /\ run[r].receipts \in Nat
        /\ run[r].changed = ChangesOf(r)
    BY <1>6, <1>7 DEF Reported, CountsAll, IInv, TypeOK, RunsInv
  <2>2. /\ Own(r)' = Own(r) \cup {last} /\ last \notin Own(r)
        /\ \A m \in Own(r) : m <= last
    BY <1>1, <1>4 DEF Ours
  <2>3. Cardinality(changes) \in Nat /\ Cardinality(inserts) \in Nat
    <3>1. IsFiniteSet(changes) /\ IsFiniteSet(inserts)
      BY ChangeFinite, IdsFinite, FS_Subset DEF Good
    <3>2. QED
      BY <3>1, FS_CardinalityType
  <2>4. ChangesOf(r)' = run[r].changed + n
    <3>1. ChangesOf(r)' = ChangesOf(r) + Cardinality(changes) + Cardinality(inserts)
      BY <1>1, <1>4 DEF Add
    <3>2. QED
      BY <2>1, <2>3, <3>1
  <2>5. CASE /\ run'[r].changed = run[r].changed + n
             /\ run'[r].receipts = run[r].receipts + 1
             /\ run'[r].ended \in {"none", "complete", "committed-unanchored"}
    <3>1. CountsAll(r)'
      <4>1. run'[r].receipts > 0 /\ Own(r)' # {}
        BY <2>1, <2>2, <2>5
      <4>2. QED
        BY <2>4, <2>5, <4>1 DEF CountsAll
    <3>2. QED
      BY <1>7, <2>5, <3>1 DEF Reported
  <2>6. CASE /\ run'[r].changed = run[r].changed
             /\ run'[r].receipts = run[r].receipts
             /\ run'[r].ended = Thrown(r)
    <3>1. Size(last)' = n
      <4>1. Size(last)' = Cardinality(journal'[last].changes) + Cardinality(journal'[last].inserts)
        BY DEF Size
      <4>2. QED
        BY <1>1, <1>4, <4>1
    <3>2. \A m \in Own(r)' : m <= last
      <4>1. last \in Int
        <5>1. journal \in Seq(Entry)
          BY DEF IInv, TypeOK
        <5> HIDE DEF Entry
        <5>2. Len(journal) \in Nat
          BY <5>1
        <5>3. QED
          BY <5>2
      <4>2. last <= last
        BY <4>1
      <4>3. QED
        BY <2>2, <4>2
    <3>3. run'[r].receipts > 0 <=> Own(r)' # {last}
      BY <2>1, <2>2, <2>6 DEF CountsAll
    <3>4. \E m \in Own(r)' : /\ \A k \in Own(r)' : k <= m
                             /\ run'[r].changed + Size(m)' = ChangesOf(r)'
                             /\ run'[r].receipts > 0 <=> Own(r)' # {m}
      BY <2>2, <2>4, <2>6, <3>1, <3>2, <3>3
    <3>5. (\E m \in Own(r) : CountsAllBut(r, m))'
      <4>1. PICK m \in Own(r)' : /\ \A k \in Own(r)' : k <= m
                                 /\ run'[r].changed + Size(m)' = ChangesOf(r)'
                                 /\ run'[r].receipts > 0 <=> Own(r)' # {m}
        BY <3>4
      <4>2. CountsAllBut(r, m)'
        BY <4>1, Zenon DEF CountsAllBut
      <4>3. QED
        BY <4>1, <4>2, Zenon
    <3>6. /\ run'[r].ended = "threw" => run'[r].receipts = 0
          /\ run'[r].ended = "failed" => run'[r].receipts > 0
          /\ run'[r].ended \in {"failed", "threw"}
      BY <2>1, <2>6 DEF Thrown
    <3>7. QED
      BY <1>7, <3>5, <3>6 DEF Reported
  <2>7. QED
    BY <1>3, <2>5, <2>6
<1>8. CASE q # r
  <2>1. UNCHANGED <<ChangesOf(q), Own(q)>> /\ \A m \in Own(q) : journal'[m] = journal[m]
    <3>1. ~Ours(q, e) /\ Add(q, ChangesOf(q), e) = ChangesOf(q)
      BY <1>1, <1>8 DEF Add, Ours
    <3>2. QED
      BY <1>4, <3>1
  <2>2. QED
    BY <1>3, <1>6, <1>8, <2>1, StillReported
<1>9. QED
  BY <1>7, <1>8

\* A batch that leaves no entry adds nothing.
LEMMA QuietCounts ==
  ASSUME IInv, ReportIsDurable, NEW r \in Runs, run[r].awaiting, run[r].ended = "none",
         NEW ending \in Endings, ending \in {Thrown(r), "none", "complete"},
         ending = "none" => Len(run[r].todo) > 1,
         BatchDone(r, 0, 0, ending), UNCHANGED journal
  PROVE  ReportIsDurable'
<1>1. /\ run'[r].changed = run[r].changed + 0 /\ run'[r].receipts = run[r].receipts + 0
      /\ run'[r].ended = ending
      /\ \A q \in Runs : q # r => run'[q] = run[q]
  BY RunGoesOn
<1>2. run[r].changed \in Nat /\ run[r].receipts \in Nat
  BY DEF IInv, TypeOK
<1>3. run'[r].changed = run[r].changed /\ run'[r].receipts = run[r].receipts
  BY <1>1, <1>2
<1>4. QED
  BY <1>1, <1>3, SilentCounts

LEMMA ReportStep ==
  ASSUME IInv, ReportIsDurable, [Next]_vars PROVE ReportIsDurable'
<1>1. CASE UNCHANGED <<journal, run>>
  BY <1>1, SilentCounts
<1>2. CASE RunDeterministic
  <2> DEFINE rest == Active \ {c.id : c \in ExactDupes}
             near == NearDupes(rest)
             of(faded) == ExactDupes \cup near \cup {Archive(i, None) : i \in faded}
  <2>1. PICK faded \in SUBSET (rest \ {c.id : c \in near}) :
          Append1(Consolidated(None, of(faded), {})) /\ UNCHANGED run
    BY <1>2 DEF RunDeterministic
  <2>2. Good(of(faded), {})
    BY PassIsGood DEF IInv
  <2> HIDE DEF of
  <2>3. /\ Consolidated(None, of(faded), {}) \in Entry
        /\ Consolidated(None, of(faded), {}).by = None
    BY <2>2, EntryIs DEF Good
  <2>4. QED
    BY <2>1, <2>3, OthersCount
<1>3. CASE Rollback
  <2>1. PICK n \in DOMAIN journal :
          Append1([op |-> "rollback", target |-> n]) /\ UNCHANGED run
    BY <1>3, RollbackIs
  <2>2. [op |-> "rollback", target |-> n] \in Entry
    <3>1. n \in 1..MaxEntries
      BY MemoryAssumption DEF IInv, TypeOK
    <3> HIDE DEF Change
    <3>2. QED
      BY <3>1 DEF Entry
  <2>3. QED
    BY <2>1, <2>2, OthersCount
<1>4. ASSUME NEW r \in Runs, OracleStart(r) PROVE ReportIsDurable'
  <2>1. /\ run' = [run EXCEPT ![r].todo = Batches, ![r].awaiting = TRUE]
        /\ UNCHANGED journal
        /\ run \in [Runs -> [todo : Seq(SUBSET Ids), awaiting : BOOLEAN, receipts : Nat,
                             changed : Nat, ended : Endings]]
    BY <1>4 DEF OracleStart, rows, IInv, TypeOK
  <2>2. \A q \in Runs : /\ run'[q].changed = run[q].changed
                        /\ run'[q].receipts = run[q].receipts
                        /\ run'[q].ended = run[q].ended
    BY <2>1
  <2>3. QED
    BY <2>1, <2>2, SilentCounts
<1>5. ASSUME NEW r \in Runs, OracleApplies(r) PROVE ReportIsDurable'
  <2>1. PICK answer \in Answers(Head(run[r].todo)), flagged \in BOOLEAN,
             inserts \in SUBSET {i \in Ids : status[i] = "unused"} :
          LET changes == Merges(answer) \cup Archives(answer) IN
            \/ /\ Append1(Consolidated(r, changes, inserts))
               /\ Settles(r, Cardinality(changes) + Cardinality(inserts))
            \/ BatchDone(r, 0, 0, NextBatch(r)) /\ UNCHANGED rows
    BY <1>5 DEF OracleApplies
  <2> DEFINE changes == Merges(answer) \cup Archives(answer)
  <2>2. run[r].awaiting /\ run[r].ended = "none"
    BY <1>5 DEF OracleApplies, IInv, RunsInv
  <2>3. Good(changes, inserts)
    <3>1. Head(run[r].todo) \in SUBSET Ids
      <4>1. run[r].todo \in Seq(SUBSET Ids) /\ run[r].todo # <<>>
        BY <2>2 DEF IInv, TypeOK, RunsInv
      <4>2. QED
        BY <4>1
    <3>2. QED
      BY <3>1, AnswerIsGood DEF IInv
  <2>4. CASE /\ Append1(Consolidated(r, changes, inserts))
             /\ Settles(r, Cardinality(changes) + Cardinality(inserts))
    <3> HIDE DEF changes
    <3>1. QED
      BY <2>2, <2>3, <2>4, OwnCounts
  <2>5. CASE BatchDone(r, 0, 0, NextBatch(r)) /\ UNCHANGED rows
    <3>1. /\ NextBatch(r) \in {"none", "complete"} /\ NextBatch(r) \in Endings
          /\ NextBatch(r) = "none" => Len(run[r].todo) > 1
      BY DEF NextBatch, Endings
    <3>2. UNCHANGED journal
      BY <2>5 DEF rows
    <3>3. QED
      BY <2>2, <2>5, <3>1, <3>2, QuietCounts
  <2>6. QED
    BY <2>1, <2>4, <2>5
<1>6. ASSUME NEW r \in Runs, OracleRejected(r) PROVE ReportIsDurable'
  <2>1. run[r].awaiting /\ Append1(Consolidated(r, {}, {})) /\ Settles(r, 0)
    BY <1>6 DEF OracleRejected
  <2>2. Good({}, {})
    BY NothingIsGood DEF IInv
  <2>3. Cardinality({}) + Cardinality({}) = 0
    BY FS_EmptySet
  <2>4. Settles(r, Cardinality({}) + Cardinality({}))
    BY <2>1, <2>3
  <2>5. QED
    BY <2>1, <2>2, <2>4, OwnCounts
<1>7. ASSUME NEW r \in Runs, OracleRefused(r) PROVE ReportIsDurable'
  <2>1. /\ run[r].awaiting /\ run[r].ended = "none" /\ UNCHANGED journal
        /\ BatchDone(r, 0, 0, Thrown(r))
    BY <1>7 DEF OracleRefused, rows, IInv, RunsInv
  <2>2. Thrown(r) \in Endings /\ Thrown(r) # "none"
    BY DEF Endings, Thrown
  <2>3. QED
    BY <2>1, <2>2, QuietCounts
<1>8. QED
  BY <1>1, <1>2, <1>3, <1>4, <1>5, <1>6, <1>7
  DEF Next, vars, rows, Write, Confirm, Reject, Transition, Unjournaled, Jam

\* For any memories, runs and answers: a report leaves out at most the last
\* batch of a run that threw, and a run throws without one only if nothing but
\* such a batch was durable.
THEOREM ReportsAreDurable == Spec => []ReportIsDurable
<1>1. Init => ReportIsDurable
  <2> SUFFICES ASSUME Init PROVE ReportIsDurable
    OBVIOUS
  <2>1. journal = <<>> /\ run = [r \in Runs |-> NoRun]
    BY DEF Init
  <2>2. ASSUME NEW r \in Runs PROVE ChangesOf(r) = 0
    <3>1. <<>> \in Seq(Entry) /\ Len(<< >>) = 0 /\ 1..0 = {}
      <4> HIDE DEF Entry
      <4>1. QED
        OBVIOUS
    <3>2. PICK h : Tallies(h, r, <<>>)
      BY <3>1, TallySteps
    <3>3. Tally(r, <<>>) = 0
      BY <3>1, <3>2 DEF Tallies
    <3>4. ChangesOf(r) = Tally(r, <<>>)
      BY <2>1 DEF ChangesOf, Tally, Add
    <3>5. QED
      BY <3>3, <3>4
  <2>3. ASSUME NEW r \in Runs PROVE Own(r) = {}
    BY <2>1 DEF Own
  <2>4. QED
    BY <2>1, <2>2, <2>3 DEF ReportIsDurable, CountsAll, NoRun
<1>2. IInv /\ ReportIsDurable /\ [Next]_vars => ReportIsDurable'
  BY ReportStep
<1>3. QED
  BY <1>1, <1>2, Invariance, PTL DEF Spec
=============================================================================
