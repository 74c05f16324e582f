---------------------------- MODULE MaskedMemory ----------------------------
(***************************************************************************)
(* The memory service over the vault: writes, imports and review decisions *)
(* whose text is masked inside the transaction that stores it              *)
(* (src/packages/core/src/memory/service.ts, vault/vault.ts).              *)
(*                                                                         *)
(* Each process has one connection and one VaultService with a cached      *)
(* index.  A pseudonym is minted inside a write transaction, the caller's  *)
(* own if it has one open, and disappears with it.  Text is a body with    *)
(* one value to mask in it, or none; the counters are kept per kind of     *)
(* value, and one kind is modelled.                                        *)
(***************************************************************************)
EXTENDS Naturals, Sequences, FiniteSets, FiniteSetsExt

CONSTANTS
  Conns,      \* processes, each with its connection
  Bodies,     \* text apart from the value to mask
  Values,     \* values to mask
  Plain,      \* no value to mask
  NoConn,     \* nobody holds the writer lock; also: nothing to mint
  MaxRows     \* bound: memories

Texts == Bodies \X (Values \cup {Plain})

ASSUME MaskedAssumption ==
  Plain \notin Values /\ NoConn \notin Conns \cup Texts

Names == Values \X (Nat \ {0})      \* an entity: a value and its number

Statuses == {"proposed", "confirmed", "archived"}
RowIds == [body : Bodies, mask : Nat, orig : Texts, status : Statuses,
         from : {"write", "import"}]

VARIABLES
  vault,    \* entities, committed
  rows,     \* memories, committed, oldest first
  tx,       \* the open write transaction: [owner, vault, rows, earned]
  cache,    \* each process's VaultService.index, null while it is not warm
  minting,  \* a text being masked for egress whose value missed the cache
  told,     \* names put out in masked egress
  warned    \* names in warnings handed to callers

maskedVars == <<vault, rows, tx, cache, minting, told, warned>>

Cold     == [warm |-> FALSE, index |-> {}]
Warm(is) == [warm |-> TRUE, index |-> is]

NoTransaction == [owner |-> NoConn, vault |-> {}, rows |-> <<>>, earned |-> {}]

MaskedTypeOK ==
  /\ vault \in SUBSET Names
  /\ rows \in Seq(RowIds)
  /\ tx \in [owner : Conns \cup {NoConn}, vault : SUBSET Names, rows : Seq(RowIds),
             earned : SUBSET Names]
  /\ cache \in [Conns -> [warm : BOOLEAN, index : SUBSET Names]]
  /\ minting \in [Conns -> Texts \cup {NoConn}]
  /\ told \in SUBSET Names
  /\ warned \in SUBSET Names

MaskedInit ==
  /\ vault = {} /\ rows = <<>>
  /\ tx = NoTransaction
  /\ cache = [c \in Conns |-> Cold]
  /\ minting = [c \in Conns |-> NoConn]
  /\ told = {} /\ warned = {}

-----------------------------------------------------------------------------
(* VaultService.                                                           *)

Knows(index, v)    == \E e \in index : e[1] = v
NumberIn(index, v) == (CHOOSE e \in index : e[1] = v)[2]

Highest(index) == Max({0} \cup {e[2] : e \in index})

\* lookupIndex(): the warm cache, else what this connection reads.
Index(c, table) == IF cache[c].warm THEN cache[c].index ELSE table

\* Mutant: numbers follow the cached index, not the table.
NumberCached(c, table, v) ==
  IF Knows(Index(c, table), v) THEN NumberIn(Index(c, table), v)
  ELSE Highest(Index(c, table)) + 1

\* allocate(): the cached name, else the table's, else the next number of it.
Number(c, table, v) ==
  IF Knows(Index(c, table), v) THEN NumberIn(Index(c, table), v)
  ELSE IF Knows(table, v) THEN NumberIn(table, v)
  ELSE Highest(table) + 1

\* The entity table afterwards.
Minted(c, table, v) ==
  IF Knows(Index(c, table), v) \/ Knows(table, v) THEN table
  ELSE table \cup {<<v, Number(c, table, v)>>}

\* The cache after allocate() in an open transaction: a build is not installed
\* there, and a mint invalidates.
CacheAfter(c, table, v) ==
  IF Knows(Index(c, table), v) \/ Knows(table, v) THEN cache[c] ELSE Cold

-----------------------------------------------------------------------------
(* Inside a transaction of c: its own, or one a caller opened around it.   *)

BeginTx(c) ==
  /\ tx.owner = NoConn /\ minting[c] = NoConn
  /\ tx' = [owner |-> c, vault |-> vault, rows |-> rows, earned |-> {}]
  /\ UNCHANGED <<vault, rows, cache, minting, told, warned>>

\* maskDraft() and materialize() of one text.
RowOf(t, number, from) ==
  [body |-> t[1], mask |-> IF t[2] = Plain THEN 0 ELSE number, orig |-> t,
   status |-> "proposed", from |-> from]

\* Masks t, and adds its row.
Added(c, t, from) ==
  LET v == t[2]
      n == IF v = Plain THEN 0 ELSE Number(c, tx.vault, v)
  IN [tx EXCEPT !.vault = IF v = Plain THEN @ ELSE Minted(c, @, v),
                !.rows = Append(@, RowOf(t, n, from)),
                !.earned = IF v = Plain \/ from = "import" THEN @ ELSE @ \cup {<<v, n>>}]

CacheNow(c, t) == IF t[2] = Plain THEN cache[c] ELSE CacheAfter(c, tx.vault, t[2])

Room(n) == Len(tx.rows) + n <= MaxRows

\* write(): one proposal.
Write(c) == \E t \in Texts :
  /\ tx.owner = c /\ Room(1)
  /\ tx' = Added(c, t, "write")
  /\ cache' = [cache EXCEPT ![c] = CacheNow(c, t)]
  /\ UNCHANGED <<vault, rows, minting, told, warned>>

\* dedupeKey(): the masked text.
Key(r) == <<r.body, r.mask>>

\* Mutant: only memories still in use are deduped against.
SeenInUse(all) == {Key(all[i]) : i \in {j \in DOMAIN all : all[j].status # "archived"}}

\* Whatever its status: a rejection sticks across imports.
Seen(all) == {Key(all[i]) : i \in DOMAIN all}

\* importMemories(), one item; a batch is several in the same transaction.
Import(c) == \E t \in Texts :
  LET next == Added(c, t, "import")
      row  == next.rows[Len(next.rows)]
  IN /\ tx.owner = c /\ Room(1)
     /\ tx' = IF Key(row) \in Seen(tx.rows) THEN [next EXCEPT !.rows = tx.rows] ELSE next
     /\ cache' = [cache EXCEPT ![c] = CacheNow(c, t)]
     /\ UNCHANGED <<vault, rows, minting, told, warned>>

\* transition(): confirm() or reject() of what is still proposed.
Transition(c) == \E i \in DOMAIN tx.rows, to \in {"confirmed", "archived"} :
  /\ tx.owner = c
  /\ tx.rows[i].status = "proposed"
  /\ tx' = [tx EXCEPT !.rows[i].status = to]
  /\ UNCHANGED <<vault, rows, cache, minting, told, warned>>

\* publishOnSettlement(): the warnings of the attempt that committed.
CommitTx(c) ==
  /\ tx.owner = c
  /\ vault' = tx.vault /\ rows' = tx.rows
  /\ warned' = warned \cup tx.earned
  /\ tx' = NoTransaction
  /\ UNCHANGED <<cache, minting, told>>

\* The body throws, or BEGIN or COMMIT is busy and the body will run again.
RollbackTx(c) ==
  /\ tx.owner = c
  /\ tx' = NoTransaction
  /\ UNCHANGED <<vault, rows, cache, minting, told, warned>>

-----------------------------------------------------------------------------
(* Outside a transaction.                                                  *)

\* maskForEgress(): a lookup, which may install the index it builds.
Egress(c) == \E t \in Texts :
  /\ tx.owner # c /\ minting[c] = NoConn /\ t[2] # Plain
  /\ cache' = [cache EXCEPT ![c] = Warm(Index(c, vault))]
  /\ IF Knows(Index(c, vault), t[2])
     THEN /\ told' = told \cup {<<t[2], NumberIn(Index(c, vault), t[2])>>}
          /\ UNCHANGED minting
     ELSE minting' = [minting EXCEPT ![c] = t] /\ UNCHANGED told
  /\ UNCHANGED <<vault, rows, tx, warned>>

\* A miss mints in a transaction of its own, which looks at the table again.
Mint(c) ==
  /\ minting[c] # NoConn /\ tx.owner = NoConn
  /\ LET v == minting[c][2]
         known == Knows(vault, v)
         n == IF known THEN NumberIn(vault, v) ELSE Highest(vault) + 1
     IN /\ vault' = vault \cup {<<v, n>>}
        /\ cache' = [cache EXCEPT ![c] = IF known THEN @ ELSE Cold]
        /\ told' = told \cup {<<v, n>>}
  /\ minting' = [minting EXCEPT ![c] = NoConn]
  /\ UNCHANGED <<rows, tx, warned>>

\* The process dies; another one takes its place.
CrashConn(c) ==
  /\ tx' = IF tx.owner = c THEN NoTransaction ELSE tx
  /\ cache' = [cache EXCEPT ![c] = Cold]
  /\ minting' = [minting EXCEPT ![c] = NoConn]
  /\ UNCHANGED <<vault, rows, told, warned>>

MaskedNext == \E c \in Conns :
  \/ BeginTx(c) \/ Write(c) \/ Import(c) \/ Transition(c) \/ CommitTx(c) \/ RollbackTx(c)
  \/ Egress(c) \/ Mint(c) \/ CrashConn(c)

MaskedSpec == MaskedInit /\ [][MaskedNext]_maskedVars

-----------------------------------------------------------------------------
(* Properties.                                                             *)

Injective(table) == \A e, f \in table : e[1] = f[1] <=> e[2] = f[2]

\* A number names one value and a value has one number, in the table and in the
\* transaction about to replace it, whichever processes minted.
OneName == Injective(vault) /\ (tx.owner # NoConn => Injective(tx.vault))

RowNames == {<<rows[i].orig[2], rows[i].mask>> : i \in {j \in DOMAIN rows : rows[j].mask # 0}}

\* Every pseudonym that is stored in a memory, or was ever sent out, has its
\* entity, and names one value: no cache survives the rollback of the mint it
\* saw.  A warning handed to a caller tells of a memory that is stored.
NamesResolve ==
  /\ OneName
  /\ RowNames \cup told \subseteq vault
  /\ warned \subseteq RowNames

\* An import adds no second row for a text that is there, rejected or not, and
\* leaves out no text because of another one that merely looks the same masked.
ImportIsExact ==
  \A i, j \in DOMAIN rows :
    /\ Key(rows[i]) = Key(rows[j]) <=> rows[i].orig = rows[j].orig
    /\ i < j /\ rows[i].orig = rows[j].orig => rows[j].from = "write"

=============================================================================
